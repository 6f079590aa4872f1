---------------------------- MODULE RawIpcProofs ----------------------------
(***************************************************************************)
(* Events and the three kinds of message queue, for any number of tasks,   *)
(* objects, flags and messages and every size: nobody waits for what is    *)
(* there, and no slot, node or byte of a queue is lost (ObjectsOK); and    *)
(* the events implement AbsEvent.                                          *)
(***************************************************************************)
EXTENDS RawIpc, RawTaskProofs, FiniteSetTheorems

IpcObj == Event \cup Queue \cup SizeQueue \cup BufQueue

LEMMA IpcObjects ==
  /\ IpcObj \subseteq Obj /\ NoObj \notin Obj
  /\ \A q \in Queue \cup SizeQueue : q \in DOMAIN QSize /\ QSize[q] \in Nat \ {0}
BY EventAssumption, QueueAssumption, QueueSizeAssumption, BufQueueAssumption, MsgAssumption,
   KernelAssumption DEF IpcObj

-----------------------------------------------------------------------------
(* What an operation on an object does to the waiting tasks.  Within one    *)
(* step several may be woken, each in the kernel that the wake-up of the    *)
(* one before it on the list left.                                          *)

LEMMA wake_waitersWake ==
  ASSUME NEW K, Consistent(K), NEW o \in Obj, NEW T, NEW status \in BlockState
  PROVE  LET K1 == wake_waiters(K, o, T, status)
         IN  /\ Consistent(K1) /\ K1.live = K.live /\ K1.raw_task_active = K.raw_task_active
             /\ \A t \in Task :
                  IF t \in T /\ In(t, K.block_list[o])
                  THEN /\ K.task_state[t] \in Pending
                       /\ K1.task_state[t] \in Awake /\ K1.block_status[t] = status
                  ELSE /\ K1.task_state[t] = K.task_state[t] /\ K1.block_obj[t] = K.block_obj[t]
                       /\ K1.block_status[t] = K.block_status[t]
<1> DEFINE list == K.block_list[o]
           n == Len(list)
           Loops(F, j) == F = [i \in 0 .. j |-> IF i = 0 THEN K
                                               ELSE IF list[i] \in T THEN wake_up(F[i - 1], list[i], status)
                                               ELSE F[i - 1]]
<1>1. /\ list \in Seq(Task) /\ n \in Nat /\ \A i \in 1 .. n : list[i] \in Task
      /\ \A i, j \in 1 .. n : list[i] = list[j] => i = j
      /\ \A i \in 1 .. n : K.task_state[list[i]] \in Pending
  <2>1. list \in Seq(Task)
    BY DEF Consistent, KernelState
  <2>2. NoDup(list)
    BY DEF Consistent, Once, BlockOnce
  <2>3. \A t \in Task : In(t, list) => K.task_state[t] \in Pending
    BY DEF Consistent, LinkedAs
  <2> HIDE DEF list
  <2>4. n \in Nat /\ DOMAIN list = 1 .. n /\ \A i \in 1 .. n : list[i] \in Task
    BY <2>1
  <2> QED
    BY <2>1, <2>2, <2>3, <2>4 DEF NoDup, In
<1> HIDE DEF list
<1>2. \E F : Loops(F, n)
  <2> DEFINE Bad == {j \in 0 .. n : ~ \E F : Loops(F, j)}
  <2>1. SUFFICES ASSUME Bad # {} PROVE FALSE
    <3>1. n \in 0 .. n
      BY <1>1
    <3>2. n \notin Bad => \E F : Loops(F, n)
      BY <3>1
    <3> HIDE DEF Loops, Bad
    <3> QED
      BY <3>2
  <2>2. PICK j \in 0 .. n : (~ \E F : Loops(F, j)) /\ \A l \in 0 .. n : (~ \E F : Loops(F, l)) => j <= l
    <3>1. Bad \in SUBSET Nat
      BY <1>1
    <3> HIDE DEF Bad
    <3>2. Min(Bad) \in Bad /\ \A l \in Bad : Min(Bad) <= l
      BY <2>1, <3>1, MinOfNats
    <3> HIDE DEF Loops
    <3> QED
      BY <3>2 DEF Bad
  <2>3. CASE j = 0
    <3> DEFINE F == [i \in 0 .. 0 |-> K]
    <3>1. Loops(F, 0)
      OBVIOUS
    <3> HIDE DEF Loops, F
    <3> QED
      BY <2>2, <2>3, <3>1
  <2>4. CASE j # 0
    <3>1. j - 1 \in 0 .. n /\ ~ (j <= j - 1) /\ j \in Nat
      BY <1>1, <2>4
    <3>2. PICK F : Loops(F, j - 1)
      <4> HIDE DEF Loops
      <4> QED
        BY <2>2, <3>1
    <3> DEFINE last == IF list[j] \in T THEN wake_up(F[j - 1], list[j], status) ELSE F[j - 1]
               G == [i \in 0 .. j |-> IF i = j THEN last ELSE F[i]]
    <3>3. \A i \in 0 .. j - 1 : F[i] = IF i = 0 THEN K
                                      ELSE IF list[i] \in T THEN wake_up(F[i - 1], list[i], status)
                                      ELSE F[i - 1]
      BY <3>2
    <3> HIDE DEF last
    <3>4. \A i \in 0 .. j : G[i] = IF i = 0 THEN K
                                  ELSE IF list[i] \in T THEN wake_up(G[i - 1], list[i], status)
                                  ELSE G[i - 1]
      BY <2>4, <3>1, <3>3 DEF last
    <3>5. Loops(G, j)
      BY <3>4
    <3> HIDE DEF Loops, G
    <3> QED
      BY <2>2, <3>5
  <2> QED
    BY <2>3, <2>4
<1> DEFINE W == CHOOSE F : F = [i \in 0 .. n |-> IF i = 0 THEN K
                                               ELSE IF list[i] \in T THEN wake_up(F[i - 1], list[i], status)
                                               ELSE F[i - 1]]
<1>3. W = [i \in 0 .. n |-> IF i = 0 THEN K
                           ELSE IF list[i] \in T THEN wake_up(W[i - 1], list[i], status)
                           ELSE W[i - 1]]
  BY <1>2
<1>4. wake_waiters(K, o, T, status) = W[n]
  BY DEF wake_waiters, list
<1> HIDE DEF W
<1> DEFINE Reached(t, j) == t \in T /\ \E l \in 1 .. j : list[l] = t
           Moved(j) ==
             /\ Consistent(W[j]) /\ W[j].live = K.live /\ W[j].raw_task_active = K.raw_task_active
             /\ \A t \in Task :
                  IF Reached(t, j)
                  THEN W[j].task_state[t] \in Awake /\ W[j].block_status[t] = status
                  ELSE /\ W[j].task_state[t] = K.task_state[t] /\ W[j].block_obj[t] = K.block_obj[t]
                       /\ W[j].block_status[t] = K.block_status[t]
           Bad == {j \in 0 .. n : ~ Moved(j)}
<1>5. ASSUME Bad # {} PROVE FALSE
  <2>1. PICK j \in 0 .. n : ~ Moved(j) /\ \A l \in 0 .. n : ~ Moved(l) => j <= l
    <3>1. Bad \in SUBSET Nat
      BY <1>1
    <3> HIDE DEF Bad
    <3>2. Min(Bad) \in Bad /\ \A l \in Bad : Min(Bad) <= l
      BY <1>5, <3>1, MinOfNats
    <3> HIDE DEF Moved
    <3> QED
      BY <3>2 DEF Bad
  <2>2. CASE j = 0
    <3>1. W[0] = K /\ \A t : ~ Reached(t, 0)
      BY <1>1, <1>3
    <3> HIDE DEF Reached
    <3> QED
      BY <2>1, <2>2, <3>1
  <2>3. CASE j # 0
    <3>1. j - 1 \in 0 .. n /\ ~ (j <= j - 1) /\ j \in 1 .. n
      BY <1>1, <2>3
    <3>2. Moved(j - 1)
      <4> HIDE DEF Moved
      <4> QED
        BY <2>1, <3>1
    <3>3. PICK K0, x : K0 = W[j - 1] /\ x = list[j]
      OBVIOUS
    <3>4. W[j] = IF x \in T THEN wake_up(K0, x, status) ELSE K0
      BY <1>3, <2>3, <3>3
    <3>5. /\ x \in Task /\ K.task_state[x] \in Pending /\ ~ Reached(x, j - 1)
          /\ \A t : Reached(t, j) <=> Reached(t, j - 1) \/ (t = x /\ x \in T)
      BY <1>1, <3>1, <3>3
    <3> HIDE DEF Reached
    <3>6. Consistent(K0) /\ K0.task_state[x] = K.task_state[x]
      BY <3>2, <3>3, <3>5
    <3>7. CASE x \in T
      <4>1. /\ Moves(K0, W[j], x) /\ W[j].task_state[x] \in Awake
            /\ W[j].block_status[x] = status
        BY <3>4, <3>5, <3>6, <3>7, wake_upMoves
      <4>2. Moved(j)
        BY <3>2, <3>3, <3>5, <3>7, <4>1 DEF Moves, OneMoves
      <4> QED
        BY <2>1, <4>2
    <3>8. CASE x \notin T
      <4>1. Moved(j)
        BY <3>2, <3>3, <3>4, <3>5, <3>8
      <4> QED
        BY <2>1, <4>1
    <3> QED
      BY <3>7, <3>8
  <2> QED
    BY <2>2, <2>3
<1>6. Moved(n)
  BY <1>1, <1>5
<1>7. \A t \in Task : Reached(t, n) <=> t \in T /\ In(t, list)
  BY <1>1 DEF In
<1>8. \A t \in Task : In(t, list) => K.task_state[t] \in Pending
  BY <1>1 DEF In
<1> HIDE DEF Reached
<1> QED
  BY <1>4, <1>6, <1>7, <1>8 DEF list


\* A call that wakes tasks, as a step.
LEMMA WakeStep ==
  ASSUME TaskInv, loop = NoLoop, NEW o \in Obj, NEW T, NEW status \in BlockState,
         NEW K, Consistent(K), K.task_state = k.task_state, K.block_obj = k.block_obj,
         K.raw_task_active = k.raw_task_active,
         k' = wake_waiters(K, o, T, status), Resched, UNCHANGED <<sys, call, loop>>
  PROVE  /\ TaskInv' /\ k'.live = K.live
         /\ \A t \in Task, s \in Obj :
              WaitsFor(t, s)' <=> WaitsFor(t, s) /\ ~ (t \in T /\ s = o)
<1>1. /\ Consistent(k') /\ k'.live = K.live /\ k'.raw_task_active = k.raw_task_active
      /\ \A t \in Task :
           IF t \in T /\ In(t, K.block_list[o])
           THEN /\ K.task_state[t] \in Pending
                /\ k'.task_state[t] \in Awake /\ k'.block_status[t] = status
           ELSE /\ k'.task_state[t] = k.task_state[t] /\ k'.block_obj[t] = k.block_obj[t]
                /\ k'.block_status[t] = K.block_status[t]
  BY wake_waitersWake
<1>2. \A t \in Task : In(t, K.block_list[o]) <=> WaitsFor(t, o)
  BY DEF Consistent, LinkedAs, WaitsFor
<1>3. \A t \in Task, s \in Obj :
        WaitsFor(t, s)' <=> WaitsFor(t, s) /\ ~ (t \in T /\ s = o)
  BY <1>1, <1>2 DEF WaitsFor, Awake, Pending
<1>4. active' = active /\ active \in Task /\ pc' \in [Task -> Place] /\ Ahead
  BY <1>1, InvFacts, ReschedOK DEF active
<1>5. TaskTypeOK' /\ LoopOK'
  BY <1>1, <1>4, StepLoop DEF TaskTypeOK, TaskInv, sys, Consistent
<1>6. StoppedTaskLeaves'
  <2>1. k'.task_state[active] # "RDY" => k.task_state[active] # "RDY"
    BY <1>1, <1>4 DEF Pending
  <2> QED
    BY <1>4, <2>1 DEF TaskInv, StoppedTaskLeaves, sys, Ahead
<1> QED
  BY <1>1, <1>3, <1>4, <1>5, <1>6 DEF TaskInv, sys

\* A call that blocks the active task.
LEMMA WaitStep ==
  ASSUME TaskInv, TaskRuns, MayStop(active), NEW o \in Obj, NEW timeout \in Timeouts,
         k' = raw_pend_object(k, o, active, timeout), Block(o), UNCHANGED <<sys, loop>>
  PROVE  /\ TaskInv' /\ k'.live = k.live /\ active \in Task
         /\ \A t \in Task, s \in Obj :
              WaitsFor(t, s)' <=> WaitsFor(t, s) \/ (t = active /\ s = o)
<1>1. /\ active \in Task \ {Idle} /\ k.task_state[active] = "RDY" /\ loop = NoLoop
      /\ raw_sched_lock = 0 /\ raw_int_nesting = 0
  BY RunningIsReady DEF TaskRuns, TaskAt, MayStop
<1>2. timeout \in Ticks
  BY TaskAssumption
<1>3. /\ Moves(k, k', active)
      /\ k'.task_state[active] \in Pending /\ k'.block_obj[active] = o
  BY <1>1, <1>2, InvFacts, raw_pend_objectMoves
<1>4. pc' \in [Task -> Place] /\ call' \in [Task -> Call] /\ Ahead
  BY <1>1, InvFacts DEF Block, Place, Call, Ahead
<1>5. TaskInv'
  BY <1>1, <1>3, <1>4, StepLoop, OneTaskStep DEF Preserved
<1> QED
  BY <1>1, <1>3, <1>5 DEF Moves, OneMoves, WaitsFor, Pending

\* A call that neither wakes nor blocks a task.
LEMMA DataStep ==
  ASSUME TaskInv, UNCHANGED <<k, sys, pc, call, loop>>
  PROVE  TaskInv' /\ k'.live = k.live /\ \A t \in Task, s \in Obj : WaitsFor(t, s)' <=> WaitsFor(t, s)
BY DEF TaskInv, TaskTypeOK, StoppedTaskLeaves, LoopOK, sys, active, MayStop, WaitsFor

\* A call that creates an object for which nobody waits.
LEMMA CreateStep ==
  ASSUME TaskInv, Boot \/ Caller, NEW o \in Obj, NobodyWaits(o),
         UNCHANGED <<sys, pc, call, loop>>,
         k' = [k EXCEPT !.block_list[o] = <<>>, !.live = @ \cup {o}]
  PROVE  /\ TaskInv' /\ k'.live = k.live \cup {o}
         /\ \A t \in Task, s \in Obj : WaitsFor(t, s)' <=> WaitsFor(t, s)
<1>1. loop = NoLoop
  BY DEF Boot, Caller, TaskRuns, TaskAt, IsrRuns
<1> QED
  BY <1>1, NewObject DEF WaitsFor

\* A call that deletes an object, which has to be in use.
LEMMA DeleteStep ==
  ASSUME TaskInv, TaskRuns, NEW o \in Obj,
         k' = wake_waiters([k EXCEPT !.live = @ \ {o}], o, Task, "DEL"),
         Resched, UNCHANGED <<sys, call, loop>>
  PROVE  /\ TaskInv' /\ k'.live = k.live \ {o}
         /\ \A t \in Task, s \in Obj : WaitsFor(t, s)' <=> WaitsFor(t, s) /\ s # o
<1> DEFINE K == [k EXCEPT !.live = @ \ {o}]
<1>1. loop = NoLoop
  BY DEF TaskRuns, TaskAt
<1>2. k.live \ {o} \in SUBSET Obj /\ K = [k EXCEPT !.live = k.live \ {o}]
  BY InvFacts DEF KernelState
<1>3. /\ Consistent(K) /\ K.live = k.live \ {o} /\ K.task_state = k.task_state
      /\ K.block_obj = k.block_obj /\ K.raw_task_active = k.raw_task_active
  <2> HIDE DEF K
  <2> QED
    BY <1>2, InvFacts, NewLive
<1>4. "DEL" \in BlockState
  BY DEF BlockState
<1> HIDE DEF K
<1>5. k' = wake_waiters(K, o, Task, "DEL")
  BY DEF K
<1>6. /\ TaskInv' /\ k'.live = K.live
      /\ \A t \in Task, s \in Obj : WaitsFor(t, s)' <=> WaitsFor(t, s) /\ ~ (t \in Task /\ s = o)
  BY <1>1, <1>3, <1>4, <1>5, WakeStep
<1> QED
  BY <1>3, <1>6


-----------------------------------------------------------------------------
(* What all operations on an object have in common.                         *)

\* Nobody waits for an object that does not exist, so a new one has no waiters.
NoneForDead == \A o \in IpcObj : o \notin k.live => NobodyWaits(o)

\* An operation on o starts no wait for another object, and neither creates nor
\* deletes another one.
OthersKept(o) ==
  /\ k'.live \ {o} = k.live \ {o}
  /\ \A t \in Task, s \in Obj \ {o} : WaitsFor(t, s)' => WaitsFor(t, s)

Base(o) == TaskInv' /\ NoneForDead' /\ OthersKept(o)

LEMMA BaseStep ==
  ASSUME TaskInv', NoneForDead, NEW o \in IpcObj, OthersKept(o),
         o \notin k'.live => NobodyWaits(o)'
  PROVE  Base(o)
BY IpcObjects DEF NoneForDead, OthersKept, NobodyWaits, Base

\* For each way in which an operation changes the kernel.
LEMMA DataBase ==
  ASSUME TaskInv, NoneForDead, NEW o \in IpcObj, UNCHANGED <<k, sys, pc, call, loop>>
  PROVE  Base(o) /\ \A t \in Task, s \in Obj : WaitsFor(t, s)' => WaitsFor(t, s)
BY DataStep, BaseStep, IpcObjects DEF NoneForDead, OthersKept, NobodyWaits

LEMMA CreateBase ==
  ASSUME TaskInv, NoneForDead, Boot \/ Caller, NEW o \in IpcObj, o \notin k.live,
         UNCHANGED <<sys, pc, call, loop>>,
         k' = [k EXCEPT !.block_list[o] = <<>>, !.live = @ \cup {o}]
  PROVE  Base(o) /\ NobodyWaits(o)'
<1>1. NobodyWaits(o) /\ o \in Obj
  BY IpcObjects DEF NoneForDead
<1>2. /\ TaskInv' /\ k'.live = k.live \cup {o}
      /\ \A t \in Task, s \in Obj : WaitsFor(t, s)' <=> WaitsFor(t, s)
  BY <1>1, CreateStep
<1> QED
  BY <1>1, <1>2, BaseStep DEF OthersKept, NobodyWaits

LEMMA DeleteBase ==
  ASSUME TaskInv, NoneForDead, TaskRuns, NEW o \in IpcObj,
         k' = wake_waiters([k EXCEPT !.live = @ \ {o}], o, Task, "DEL"),
         Resched, UNCHANGED <<sys, call, loop>>
  PROVE  Base(o) /\ NobodyWaits(o)'
<1>1. o \in Obj
  BY IpcObjects
<1>2. /\ TaskInv' /\ k'.live = k.live \ {o}
      /\ \A t \in Task, s \in Obj : WaitsFor(t, s)' <=> WaitsFor(t, s) /\ s # o
  BY <1>1, DeleteStep
<1> QED
  BY <1>1, <1>2, BaseStep DEF OthersKept, NobodyWaits

LEMMA WaitBase ==
  ASSUME TaskInv, NoneForDead, TaskRuns, MayStop(active), NEW o \in IpcObj, o \in k.live,
         NEW timeout \in Timeouts,
         k' = raw_pend_object(k, o, active, timeout), Block(o), UNCHANGED <<sys, loop>>
  PROVE  /\ Base(o) /\ active \in Task
         /\ \A t \in Task, s \in Obj :
              WaitsFor(t, s)' <=> WaitsFor(t, s) \/ (t = active /\ s = o)
<1>1. o \in Obj
  BY IpcObjects
<1>2. /\ TaskInv' /\ k'.live = k.live /\ active \in Task
      /\ \A t \in Task, s \in Obj :
           WaitsFor(t, s)' <=> WaitsFor(t, s) \/ (t = active /\ s = o)
  BY <1>1, WaitStep
<1> QED
  BY <1>1, <1>2, BaseStep DEF OthersKept

LEMMA WakeBase ==
  ASSUME TaskInv, NoneForDead, Caller, NEW o \in IpcObj, o \in k.live, NEW T,
         k' = wake_waiters(k, o, T, "OK"), Resched, UNCHANGED <<sys, call, loop>>
  PROVE  /\ Base(o)
         /\ \A t \in Task, s \in Obj :
              WaitsFor(t, s)' <=> WaitsFor(t, s) /\ ~ (t \in T /\ s = o)
<1>1. o \in Obj /\ loop = NoLoop /\ "OK" \in BlockState /\ Consistent(k)
  BY IpcObjects, InvFacts DEF Caller, TaskRuns, TaskAt, IsrRuns, BlockState
<1>2. /\ TaskInv' /\ k'.live = k.live
      /\ \A t \in Task, s \in Obj :
           WaitsFor(t, s)' <=> WaitsFor(t, s) /\ ~ (t \in T /\ s = o)
  BY <1>1, WakeStep
<1> QED
  BY <1>1, <1>2, BaseStep DEF OthersKept

-----------------------------------------------------------------------------
(* Event flags.                                                             *)

EventType ==
  /\ flags \in [Event -> SUBSET Flag]
  /\ event_wait \in [Task -> [request : [want : SUBSET Flag, all : BOOLEAN, clear : BOOLEAN],
                              actual : SUBSET Flag]]

\* A task that waits for an event asked for flags that are not set.
EventInv ==
  /\ EventType
  /\ \A e \in Event, t \in Task : WaitsFor(t, e) => ~ satisfied(event_wait[t].request, flags[e])

\* With fewer flags no more requests are satisfied.
LEMMA satisfiedMonotone ==
  ASSUME NEW r, NEW f, NEW g, f \subseteq g, satisfied(r, f)
  PROVE  satisfied(r, g)
BY DEF satisfied

LEMMA EventKept ==
  ASSUME EventInv, UNCHANGED eventVars,
         \A t \in Task, e \in Event : WaitsFor(t, e)' => WaitsFor(t, e)
  PROVE  EventInv'
BY DEF EventInv, EventType, eventVars

\* Where flags are only cleared and nobody begins to wait.
LEMMA FlagsCleared ==
  ASSUME EventInv, NEW e \in Event, NEW f \in SUBSET flags[e],
         flags' = [flags EXCEPT ![e] = f], event_wait' = event_wait,
         \A t \in Task, s \in Event : WaitsFor(t, s)' => WaitsFor(t, s)
  PROVE  EventInv'
<1>1. /\ flags \in [Event -> SUBSET Flag] /\ EventType'
      /\ \A s \in Event : flags'[s] \subseteq flags[s]
  BY DEF EventInv, EventType
<1> QED
  BY <1>1, satisfiedMonotone DEF EventInv

LEMMA EventOpInv ==
  ASSUME TaskInv, NoneForDead, EventInv, NEW e \in Event, EventOp(e)
  PROVE  Base(e) /\ EventInv'
<1> USE DEF eventVars
<1>0. e \in IpcObj /\ Event \subseteq Obj /\ flags \in [Event -> SUBSET Flag]
  BY IpcObjects DEF IpcObj, EventInv, EventType
<1>1. ASSUME NEW f \in InitFlags, raw_event_create(e, f) PROVE Base(e) /\ EventInv'
  <2>1. Base(e) /\ NobodyWaits(e)'
    BY <1>0, <1>1, CreateBase DEF raw_event_create
  <2>2. EventType' /\ \A s \in Event \ {e} : flags'[s] = flags[s]
    BY <1>1, EventAssumption DEF raw_event_create, EventInv, EventType
  <2>3. event_wait' = event_wait
    BY <1>1 DEF raw_event_create
  <2>4. \A t \in Task, s \in Event : WaitsFor(t, s)' => s # e /\ WaitsFor(t, s)
    BY <1>0, <2>1 DEF Base, OthersKept, NobodyWaits
  <2> QED
    BY <2>1, <2>2, <2>3, <2>4 DEF EventInv
<1>2. ASSUME NEW f \in SetFlags, event_set_or(e, f) PROVE Base(e) /\ EventInv'
  <2> DEFINE now == flags[e] \cup f
             released == {t \in ToSet(Waiters(e)) : satisfied(event_wait[t].request, now)}
             left == now \ UNION {consumed(event_wait[t].request) : t \in released}
  <2>1. /\ Base(e)
        /\ \A t \in Task, s \in Obj :
             WaitsFor(t, s)' <=> WaitsFor(t, s) /\ ~ (t \in released /\ s = e)
    <3> HIDE DEF released
    <3>1. Caller /\ e \in k.live /\ Resched /\ UNCHANGED <<sys, call, loop>>
          /\ k' = wake_waiters(k, e, released, "OK")
      BY <1>2 DEF event_set_or, released
    <3> QED
      BY <1>0, <3>1, WakeBase
  <2>2. \A t \in Task : WaitsFor(t, e) => t \in ToSet(Waiters(e))
    <3>1. Waiters(e) \in Seq(Task) /\ \A t \in Task : In(t, Waiters(e)) <=> WaitsFor(t, e)
      BY <1>0, InvFacts DEF Consistent, LinkedAs, KernelState, Waiters, WaitsFor
    <3> QED
      BY <3>1 DEF In, ToSet
  <2>3. now \in SUBSET Flag /\ left \in SUBSET now
    BY <1>0, EventAssumption
  <2> HIDE DEF now, left
  <2>4. /\ flags' = [flags EXCEPT ![e] = left]
        /\ event_wait' = [t \in Task |-> IF t \in released
                            THEN [event_wait[t] EXCEPT !.actual = now] ELSE event_wait[t]]
    BY <1>2 DEF event_set_or, now, left
  <2>5. EventType'
    BY <2>3, <2>4 DEF EventInv, EventType
  <2>6. ASSUME NEW t \in Task, NEW s \in Event, WaitsFor(t, s)'
        PROVE  ~ satisfied(event_wait'[t].request, flags'[s])
    <3>1. WaitsFor(t, s) /\ ~ (t \in released /\ s = e)
      BY <1>0, <2>1, <2>6
    <3>2. event_wait'[t].request = event_wait[t].request
      BY <2>4 DEF EventInv, EventType
    <3>3. CASE s # e
      BY <1>0, <2>4, <3>1, <3>2, <3>3 DEF EventInv
    <3>4. CASE s = e
      <4>1. ~ satisfied(event_wait[t].request, now) /\ flags'[s] \subseteq now
        BY <1>0, <2>2, <2>3, <2>4, <3>1, <3>4
      <4> QED
        BY <3>2, <4>1, satisfiedMonotone
    <3> QED
      BY <3>3, <3>4
  <2> QED
    BY <2>1, <2>5, <2>6 DEF EventInv
<1>3. ASSUME NEW f \in KeepFlags, event_set_and(e, f) PROVE Base(e) /\ EventInv'
  <2>1. flags[e] \cap f \in SUBSET flags[e] /\ flags' = [flags EXCEPT ![e] = flags[e] \cap f]
        /\ event_wait' = event_wait
    BY <1>3 DEF event_set_and
  <2>2. Base(e) /\ \A t \in Task, s \in Obj : WaitsFor(t, s)' => WaitsFor(t, s)
    BY <1>0, <1>3, DataBase DEF event_set_and
  <2> QED
    BY <1>0, <2>1, <2>2, FlagsCleared
<1>4. ASSUME NEW r \in Request, event_take(e, r) PROVE Base(e) /\ EventInv'
  <2>1. flags[e] \ consumed(r) \in SUBSET flags[e]
        /\ flags' = [flags EXCEPT ![e] = flags[e] \ consumed(r)] /\ event_wait' = event_wait
    BY <1>4 DEF event_take
  <2>2. Base(e) /\ \A t \in Task, s \in Obj : WaitsFor(t, s)' => WaitsFor(t, s)
    BY <1>0, <1>4, DataBase DEF event_take
  <2> QED
    BY <1>0, <2>1, <2>2, FlagsCleared
<1>5. ASSUME NEW r \in Request, NEW timeout \in Timeouts, raw_event_get(e, r, timeout)
      PROVE  Base(e) /\ EventInv'
  <2>1. /\ Base(e) /\ active \in Task
        /\ \A t \in Task, s \in Obj : WaitsFor(t, s)' <=> WaitsFor(t, s) \/ (t = active /\ s = e)
    BY <1>0, <1>5, WaitBase DEF raw_event_get
  <2>2. /\ event_wait' = [event_wait EXCEPT ![active] = [request |-> r, actual |-> {}]]
        /\ flags' = flags /\ ~ satisfied(r, flags[e])
    BY <1>5 DEF raw_event_get
  <2>3. EventType' /\ event_wait'[active].request = r
        /\ \A t \in Task \ {active} : event_wait'[t] = event_wait[t]
    BY <2>1, <2>2, EventAssumption DEF EventInv, EventType
  <2>4. \A s \in Obj : ~ WaitsFor(active, s)
    BY <1>5, RunningIsReady DEF raw_event_get, WaitsFor, Pending
  <2> QED
    BY <1>0, <2>1, <2>2, <2>3, <2>4 DEF EventInv
<1>6. ASSUME raw_event_delete(e) PROVE Base(e) /\ EventInv'
  <2>1. Base(e) /\ NobodyWaits(e)'
    BY <1>0, <1>6, DeleteBase DEF raw_event_delete
  <2>2. EventType' /\ event_wait' = event_wait /\ \A s \in Event \ {e} : flags'[s] = flags[s]
    BY <1>6 DEF raw_event_delete, EventInv, EventType
  <2>3. \A t \in Task, s \in Event : WaitsFor(t, s)' => s # e /\ WaitsFor(t, s)
    BY <1>0, <2>1 DEF Base, OthersKept, NobodyWaits
  <2> QED
    BY <2>1, <2>2, <2>3 DEF EventInv
<1> QED
  BY <1>1, <1>2, <1>3, <1>4, <1>5, <1>6 DEF EventOp

\* A call that ended before its task waits again asks for nothing.
LEMMA EventCallsEnd ==
  ASSUME EventInv, event_calls_end,
         \A t \in Task, e \in Event : WaitsFor(t, e)' => WaitsFor(t, e)
  PROVE  EventInv'
<1>1. \A f : ~ satisfied(NotWaiting.request, f)
  BY DEF NotWaiting, NoRequest, satisfied
<1>2. EventType'
  BY DEF event_calls_end, EventInv, EventType, NotWaiting, NoRequest
<1> QED
  BY <1>1, <1>2 DEF event_calls_end, EventInv


-----------------------------------------------------------------------------
(* Message queues: a ring of slots.                                         *)

IsRing(Q, n) ==
  /\ Q \in [slot : [0 .. n - 1 -> Msg \cup {NoMsg}], write : 0 .. n - 1, read : 0 .. n - 1,
            current_numbers : 0 .. n]
  /\ \A i \in 0 .. n - 1 : Q.slot[(Q.read + i) % n] # NoMsg <=> i < Q.current_numbers
  /\ Q.write = (Q.read + Q.current_numbers) % n

RingInv ==
  /\ msg_q = [q \in Queue |-> msg_q[q]]
  /\ \A q \in Queue : /\ IsRing(msg_q[q], QSize[q])
                      /\ msg_q[q].current_numbers > 0 => NobodyWaits(q)

\* The slot i places behind a in a ring of n.
LEMMA RingPlace ==
  ASSUME NEW n \in Nat \ {0}, NEW a \in 0 .. n - 1, NEW i \in 0 .. n
  PROVE  /\ (a + i) % n = IF a + i < n THEN a + i ELSE a + i - n
         /\ (a + i) % n \in 0 .. n - 1
<1>1. PICK x \in Int : x = a + i
  OBVIOUS
<1>2. x \in 0 .. 2 * n - 1
  BY <1>1
<1>3. x % n = IF x < n THEN x ELSE x - n
  <2>1. x \in 0 .. n - 1 \/ x \in n .. 2 * n - 1
    BY <1>2
  <2>2. x \in 0 .. n - 1 => x % n = x
    BY ModFacts
  <2>3. x \in n .. 2 * n - 1 => x % n = x - n
    BY ModFacts
  <2> QED
    BY <2>1, <2>2, <2>3
<1> QED
  BY <1>1, <1>2, <1>3

LEMMA NewRingOK ==
  ASSUME NEW q \in Queue
  PROVE  IsRing(NewRing(q), QSize[q])
<1> DEFINE n == QSize[q]
<1>1. n \in Nat \ {0} /\ 0 \in 0 .. n - 1 /\ 0 \in 0 .. n
  BY IpcObjects
<1> HIDE DEF n
<1>2. NewRing(q) = [slot |-> [i \in 0 .. n - 1 |-> NoMsg],
                    write |-> 0, read |-> 0, current_numbers |-> 0]
  BY DEF NewRing, n
<1>3. ASSUME NEW i \in 0 .. n PROVE (0 + i) % n = IF i < n THEN i ELSE 0
  <2>1. PICK z \in 0 .. n - 1 : z = 0
    BY <1>1
  <2>2. (z + i) % n = IF z + i < n THEN z + i ELSE z + i - n
    BY <1>1, RingPlace
  <2> QED
    BY <1>1, <2>1, <2>2
<1>4. \A i \in 0 .. n - 1 : NewRing(q).slot[(0 + i) % n] = NoMsg /\ ~ (i < 0)
  BY <1>1, <1>2, <1>3
<1> QED
  BY <1>1, <1>2, <1>3, <1>4 DEF IsRing, n

\* A message at the end: the slot that is written is the first without a message.
LEMMA PutAtEnd ==
  ASSUME NEW n \in Nat \ {0}, NEW Q, IsRing(Q, n), Q.current_numbers < n, NEW m \in Msg
  PROVE  IsRing(put_at_end([Q EXCEPT !.current_numbers = @ + 1], m, n), n)
<1>1. PICK w \in 0 .. n - 1, r \in 0 .. n - 1, c \in 0 .. n - 1 :
        w = Q.write /\ r = Q.read /\ c = Q.current_numbers
  BY DEF IsRing
<1> DEFINE Q1 == put_at_end([Q EXCEPT !.current_numbers = @ + 1], m, n)
<1>2. /\ Q1 = [slot |-> [Q.slot EXCEPT ![w] = m], write |-> (w + 1) % n, read |-> r,
               current_numbers |-> c + 1]
  <2>0. PICK s : s = Q.slot
    OBVIOUS
  <2>1. Q = [slot |-> s, write |-> w, read |-> r, current_numbers |-> c]
    BY <1>1, <2>0 DEF IsRing
  <2>2. PICK R : R = [Q EXCEPT !.current_numbers = @ + 1]
    OBVIOUS
  <2>3. R = [slot |-> s, write |-> w, read |-> r, current_numbers |-> c + 1]
    BY <2>1, <2>2
  <2>4. Q1 = put_at_end(R, m, n)
    BY <2>2
  <2> HIDE DEF Q1
  <2> QED
    BY <2>0, <2>3, <2>4 DEF put_at_end
<1> HIDE DEF Q1
<1>3. w = (r + c) % n
  BY <1>1 DEF IsRing
<1>4. w = IF r + c < n THEN r + c ELSE r + c - n
  BY <1>3, RingPlace
<1>5. /\ c + 1 \in 0 .. n /\ 1 \in 0 .. n
      /\ (w + 1) % n \in 0 .. n - 1
      /\ (w + 1) % n = IF w + 1 < n THEN w + 1 ELSE w + 1 - n
      /\ (r + (c + 1)) % n = IF r + (c + 1) < n THEN r + (c + 1) ELSE r + (c + 1) - n
  <2>1. c + 1 \in 0 .. n /\ 1 \in 0 .. n
    OBVIOUS
  <2> QED
    BY <2>1, RingPlace
<1>6. (w + 1) % n = (r + (c + 1)) % n
  BY <1>4, <1>5
<1>7. ASSUME NEW i \in 0 .. n - 1
      PROVE  Q1.slot[(r + i) % n] # NoMsg <=> i < c + 1
  <2>1. /\ (r + i) % n = IF r + i < n THEN r + i ELSE r + i - n
        /\ (r + i) % n \in 0 .. n - 1
    BY RingPlace
  <2>2. (r + i) % n = w <=> i = c
    BY <1>4, <2>1
  <2>3. Q.slot[(r + i) % n] # NoMsg <=> i < c
    BY <1>1 DEF IsRing
  <2>4. Q1.slot[(r + i) % n] = IF i = c THEN m ELSE Q.slot[(r + i) % n]
    BY <1>2, <2>1, <2>2 DEF IsRing
  <2>5. m # NoMsg
    BY MsgAssumption
  <2> QED
    BY <2>3, <2>4, <2>5
<1>8. [Q.slot EXCEPT ![w] = m] \in [0 .. n - 1 -> Msg \cup {NoMsg}]
  BY DEF IsRing
<1>9. IsRing(Q1, n)
  BY <1>2, <1>5, <1>6, <1>7, <1>8 DEF IsRing
<1> QED
  BY <1>9 DEF Q1

\* A message at the front: read goes back by one slot.
LEMMA PutAtFront ==
  ASSUME NEW n \in Nat \ {0}, NEW Q, IsRing(Q, n), Q.current_numbers < n, NEW m \in Msg
  PROVE  IsRing(put_at_front([Q EXCEPT !.current_numbers = @ + 1], m, n), n)
<1>1. PICK w \in 0 .. n - 1, r \in 0 .. n - 1, c \in 0 .. n - 1 :
        w = Q.write /\ r = Q.read /\ c = Q.current_numbers
  BY DEF IsRing
<1> DEFINE Q1 == put_at_front([Q EXCEPT !.current_numbers = @ + 1], m, n)
<1>2. PICK b \in 0 .. n - 1 : b = (IF r = 0 THEN n ELSE r) - 1
  OBVIOUS
<1>3. Q1 = [slot |-> [Q.slot EXCEPT ![b] = m], write |-> w, read |-> b, current_numbers |-> c + 1]
  <2>0. PICK s : s = Q.slot
    OBVIOUS
  <2>1. Q = [slot |-> s, write |-> w, read |-> r, current_numbers |-> c]
    BY <1>1, <2>0 DEF IsRing
  <2>2. PICK R : R = [Q EXCEPT !.current_numbers = @ + 1]
    OBVIOUS
  <2>3. R = [slot |-> s, write |-> w, read |-> r, current_numbers |-> c + 1]
    BY <2>1, <2>2
  <2>4. Q1 = put_at_front(R, m, n)
    BY <2>2
  <2> HIDE DEF Q1
  <2> QED
    BY <1>2, <2>0, <2>3, <2>4 DEF put_at_front
<1> HIDE DEF Q1
<1>4. w = (r + c) % n
  BY <1>1 DEF IsRing
<1>5. w = IF r + c < n THEN r + c ELSE r + c - n
  BY <1>4, RingPlace
<1>6. /\ c + 1 \in 0 .. n
      /\ (b + (c + 1)) % n = IF b + (c + 1) < n THEN b + (c + 1) ELSE b + (c + 1) - n
  <2>1. c + 1 \in 0 .. n
    OBVIOUS
  <2> QED
    BY <2>1, RingPlace
<1>7. w = (b + (c + 1)) % n
  BY <1>2, <1>5, <1>6
<1>8. ASSUME NEW i \in 0 .. n - 1
      PROVE  Q1.slot[(b + i) % n] # NoMsg <=> i < c + 1
  <2>1. /\ (b + i) % n = IF b + i < n THEN b + i ELSE b + i - n
        /\ (b + i) % n \in 0 .. n - 1
    BY RingPlace
  <2>2. CASE i = 0
    <3>1. (b + i) % n = b /\ i < c + 1
      BY <2>1, <2>2
    <3>2. Q1.slot[b] = m
      BY <1>3 DEF IsRing
    <3> QED
      BY <3>1, <3>2, MsgAssumption
  <2>3. CASE i # 0
    <3>1. PICK j \in 0 .. n - 1 : j = i - 1
      BY <2>3
    <3>2. (r + j) % n = IF r + j < n THEN r + j ELSE r + j - n
      BY RingPlace
    <3>3. (b + i) % n = (r + j) % n /\ (b + i) % n # b
      BY <1>2, <2>1, <2>3, <3>1, <3>2
    <3>4. Q.slot[(r + j) % n] # NoMsg <=> j < c
      BY <1>1 DEF IsRing
    <3>5. Q1.slot[(b + i) % n] = Q.slot[(r + j) % n]
      BY <1>3, <2>1, <3>3 DEF IsRing
    <3> QED
      BY <3>1, <3>4, <3>5
  <2> QED
    BY <2>2, <2>3
<1>9. [Q.slot EXCEPT ![b] = m] \in [0 .. n - 1 -> Msg \cup {NoMsg}]
  BY DEF IsRing
<1>10. IsRing(Q1, n)
  BY <1>3, <1>6, <1>7, <1>8, <1>9 DEF IsRing
<1> QED
  BY <1>10 DEF Q1

\* The first message is taken.
LEMMA TakeFirst ==
  ASSUME NEW n \in Nat \ {0}, NEW Q, IsRing(Q, n), Q.current_numbers > 0
  PROVE  IsRing([Q EXCEPT !.slot[Q.read] = NoMsg, !.read = (@ + 1) % n,
                          !.current_numbers = @ - 1], n)
<1>1. PICK w \in 0 .. n - 1, r \in 0 .. n - 1, c \in 1 .. n :
        w = Q.write /\ r = Q.read /\ c = Q.current_numbers
  BY DEF IsRing
<1> DEFINE Q1 == [Q EXCEPT !.slot[Q.read] = NoMsg, !.read = (@ + 1) % n, !.current_numbers = @ - 1]
<1>2. PICK b \in 0 .. n - 1 : b = (r + 1) % n /\ b = IF r + 1 < n THEN r + 1 ELSE r + 1 - n
  <2>1. 1 \in 0 .. n
    OBVIOUS
  <2> QED
    BY <2>1, RingPlace
<1>3. Q1 = [slot |-> [Q.slot EXCEPT ![r] = NoMsg], write |-> w, read |-> b, current_numbers |-> c - 1]
  <2>0. PICK s : s = Q.slot
    OBVIOUS
  <2>1. Q = [slot |-> s, write |-> w, read |-> r, current_numbers |-> c]
    BY <1>1, <2>0 DEF IsRing
  <2>2. Q1 = [Q EXCEPT !.slot = [s EXCEPT ![r] = NoMsg], !.read = b, !.current_numbers = c - 1]
    <3>1. Q1 = [Q EXCEPT !.slot = [Q.slot EXCEPT ![Q.read] = NoMsg], !.read = (Q.read + 1) % n,
                         !.current_numbers = Q.current_numbers - 1]
      BY <2>1
    <3> HIDE DEF Q1
    <3> QED
      BY <1>1, <1>2, <2>0, <3>1
  <2>3. PICK x, d : x = [s EXCEPT ![r] = NoMsg] /\ d = c - 1
    OBVIOUS
  <2> HIDE DEF Q1
  <2>4. Q1 = [slot |-> x, write |-> w, read |-> b, current_numbers |-> d]
    BY <2>1, <2>2, <2>3
  <2> QED
    BY <2>0, <2>3, <2>4
<1>0. c \in 0 .. n
  OBVIOUS
<1> HIDE DEF Q1
<1>4. w = (r + c) % n
  BY <1>1 DEF IsRing
<1>5. w = IF r + c < n THEN r + c ELSE r + c - n
  BY <1>0, <1>4, RingPlace
<1>6. /\ c - 1 \in 0 .. n
      /\ (b + (c - 1)) % n = IF b + (c - 1) < n THEN b + (c - 1) ELSE b + (c - 1) - n
  <2>1. c - 1 \in 0 .. n
    OBVIOUS
  <2> QED
    BY <2>1, RingPlace
<1>7. w = (b + (c - 1)) % n
  BY <1>2, <1>5, <1>6
<1>8. ASSUME NEW i \in 0 .. n - 1
      PROVE  Q1.slot[(b + i) % n] # NoMsg <=> i < c - 1
  <2>1. /\ (b + i) % n = IF b + i < n THEN b + i ELSE b + i - n
        /\ (b + i) % n \in 0 .. n - 1
    BY RingPlace
  <2>2. CASE i = n - 1
    <3>1. (b + i) % n = r
      BY <1>2, <2>1, <2>2
    <3> QED
      BY <1>3, <2>2, <3>1 DEF IsRing
  <2>3. CASE i # n - 1
    <3>1. PICK j \in 0 .. n - 1 : j = i + 1
      BY <2>3
    <3>2. (r + j) % n = IF r + j < n THEN r + j ELSE r + j - n
      BY RingPlace
    <3>3. (b + i) % n = (r + j) % n /\ (b + i) % n # r
      BY <1>2, <2>1, <2>3, <3>1, <3>2
    <3>4. Q.slot[(r + j) % n] # NoMsg <=> j < c
      BY <1>1 DEF IsRing
    <3>5. Q1.slot[(b + i) % n] = Q.slot[(r + j) % n]
      BY <1>3, <2>1, <3>3 DEF IsRing
    <3> QED
      BY <3>1, <3>4, <3>5
  <2> QED
    BY <2>2, <2>3
<1>9. [Q.slot EXCEPT ![r] = NoMsg] \in [0 .. n - 1 -> Msg \cup {NoMsg}]
  BY DEF IsRing
<1>10. IsRing(Q1, n)
  BY <1>3, <1>6, <1>7, <1>8, <1>9 DEF IsRing
<1> QED
  BY <1>10 DEF Q1


\* The kernel's part in the operations of all queues.
LEMMA SendBase ==
  ASSUME TaskInv, NoneForDead, Caller, NEW q \in IpcObj, q \in k.live, NEW m, NEW all,
         send_to_waiters(q, m, all), UNCHANGED <<sys, call, loop>>
  PROVE  Base(q) /\ (NobodyWaits(q) => NobodyWaits(q)')
<1> DEFINE woken == IF all THEN ToSet(Waiters(q)) ELSE {Head(Waiters(q))}
<1>1. k' = wake_waiters(k, q, woken, "OK") /\ Resched
  BY DEF send_to_waiters
<1> HIDE DEF woken
<1> QED
  BY <1>1, WakeBase, IpcObjects DEF NobodyWaits

LEMMA QueueWaitBase ==
  ASSUME TaskInv, NoneForDead, NEW q \in IpcObj, q \in k.live, NEW timeout \in Timeouts,
         raw_queue_wait(q, timeout), UNCHANGED <<sys, loop>>
  PROVE  Base(q)
BY WaitBase DEF raw_queue_wait

LEMMA QueueDeleteBase ==
  ASSUME TaskInv, NoneForDead, NEW q \in IpcObj, queue_delete(q), UNCHANGED <<sys, loop>>
  PROVE  Base(q) /\ NobodyWaits(q)'
BY DeleteBase DEF queue_delete

LEMMA RingStep ==
  ASSUME RingInv, NEW q \in Queue, Base(q), NEW R, msg_q' = [msg_q EXCEPT ![q] = R],
         IsRing(R, QSize[q]), R.current_numbers > 0 => NobodyWaits(q)'
  PROVE  RingInv'
<1>1. Queue \subseteq Obj
  BY IpcObjects DEF IpcObj
<1>2. msg_q' = [x \in Queue |-> IF x = q THEN R ELSE msg_q[x]]
  BY DEF RingInv
<1>3. \A x \in Queue \ {q} : NobodyWaits(x) => NobodyWaits(x)'
  BY <1>1 DEF Base, OthersKept, NobodyWaits
<1> QED
  BY <1>2, <1>3 DEF RingInv

LEMMA RingKept ==
  ASSUME RingInv, msg_q' = msg_q, \A q \in Queue : NobodyWaits(q) => NobodyWaits(q)'
  PROVE  RingInv'
BY DEF RingInv

LEMMA RingEmptied ==
  ASSUME RingInv, NEW q \in Queue, Base(q), msg_q' = [msg_q EXCEPT ![q] = NewRing(q)]
  PROVE  RingInv'
<1>1. PICK R : R = NewRing(q)
  OBVIOUS
<1>2. R.current_numbers = 0
  BY <1>1 DEF NewRing
<1>3. ~ (R.current_numbers > 0)
  BY <1>2
<1>4. IsRing(R, QSize[q]) /\ msg_q' = [msg_q EXCEPT ![q] = R]
  BY <1>1, NewRingOK
<1> QED
  BY <1>3, <1>4, RingStep

LEMMA QueueOpInv ==
  ASSUME TaskInv, NoneForDead, RingInv, NEW q \in Queue, QueueOp(q)
  PROVE  Base(q) /\ RingInv'
<1> DEFINE n == QSize[q]
<1>0. /\ q \in IpcObj /\ q \in Obj /\ n \in Nat \ {0} /\ IsRing(msg_q[q], n)
      /\ msg_q[q].current_numbers \in 0 .. n /\ (msg_q[q].current_numbers > 0 => NobodyWaits(q))
  BY IpcObjects DEF IpcObj, RingInv, IsRing
<1> HIDE DEF n
<1>1. CASE raw_queue_create(q)
  <2>1. Base(q) /\ msg_q' = [msg_q EXCEPT ![q] = NewRing(q)]
    BY <1>0, <1>1, CreateBase DEF raw_queue_create
  <2> QED
    BY <2>1, RingEmptied
<1>2. ASSUME NEW m \in Msg, msg_post_store(q, m) PROVE Base(q) /\ RingInv'
  <2> DEFINE Q == [msg_q[q] EXCEPT !.current_numbers = @ + 1]
  <2>1. /\ msg_q[q].current_numbers < n /\ NobodyWaits(q) /\ UNCHANGED <<k, sys, pc, call, loop>>
        /\ \/ msg_q' = [msg_q EXCEPT ![q] = put_at_end(Q, m, n)]
           \/ msg_q' = [msg_q EXCEPT ![q] = put_at_front(Q, m, n)]
    <3>1. NobodyWaits(q)
      BY <1>0, <1>2, EmptyList DEF msg_post_store
    <3>2. ~ QueueFull(q) => msg_q[q].current_numbers < n
      BY <1>0 DEF QueueFull, n
    <3> QED
      BY <1>2, <3>1, <3>2 DEF msg_post_store, n
  <2>2. Base(q) /\ NobodyWaits(q)'
    BY <1>0, <2>1, DataBase DEF NobodyWaits
  <2>3. IsRing(put_at_end(Q, m, n), n) /\ IsRing(put_at_front(Q, m, n), n)
    BY <1>0, <2>1, PutAtEnd, PutAtFront
  <2> HIDE DEF Q
  <2>4. CASE msg_q' = [msg_q EXCEPT ![q] = put_at_end(Q, m, n)]
    BY <2>2, <2>3, <2>4, RingStep DEF n
  <2>5. CASE msg_q' = [msg_q EXCEPT ![q] = put_at_front(Q, m, n)]
    BY <2>2, <2>3, <2>5, RingStep DEF n
  <2> QED
    BY <2>1, <2>2, <2>4, <2>5
<1>3. ASSUME NEW m \in Msg, NEW all \in BOOLEAN, msg_post_send(q, m, all)
      PROVE  Base(q) /\ RingInv'
  <2>1. Base(q) /\ (NobodyWaits(q) => NobodyWaits(q)') /\ msg_q' = msg_q
    BY <1>0, <1>3, SendBase DEF msg_post_send
  <2>2. \A x \in Queue : NobodyWaits(x) => NobodyWaits(x)'
    BY <2>1, IpcObjects DEF IpcObj, Base, OthersKept, NobodyWaits
  <2> QED
    BY <2>1, <2>2, RingKept
<1>4. CASE queue_receive(q)
  <2> DEFINE Q == msg_q[q]
             R == [Q EXCEPT !.slot[Q.read] = NoMsg, !.read = (@ + 1) % n, !.current_numbers = @ - 1]
  <2>1. /\ Q.current_numbers > 0 /\ UNCHANGED <<k, sys, pc, call, loop>>
        /\ msg_q' = [msg_q EXCEPT ![q] = R]
    BY <1>4 DEF queue_receive, n
  <2>2. Base(q) /\ (NobodyWaits(q) => NobodyWaits(q)')
    BY <1>0, <2>1, DataBase DEF NobodyWaits
  <2>3. IsRing(R, n)
    <3> HIDE DEF Q
    <3>1. IsRing(Q, n)
      BY <1>0 DEF Q
    <3> QED
      BY <1>0, <2>1, <3>1, TakeFirst
  <2> HIDE DEF R
  <2> QED
    BY <1>0, <2>1, <2>2, <2>3, RingStep DEF n
<1>5. ASSUME NEW timeout \in Timeouts, raw_queue_receive(q, timeout) PROVE Base(q) /\ RingInv'
  <2>1. Base(q) /\ msg_q' = msg_q /\ msg_q[q].current_numbers = 0
    BY <1>0, <1>5, QueueWaitBase DEF raw_queue_receive
  <2>2. PICK R : R = msg_q[q]
    OBVIOUS
  <2>3. msg_q' = [msg_q EXCEPT ![q] = R] /\ ~ (R.current_numbers > 0) /\ IsRing(R, QSize[q])
    BY <1>0, <2>1, <2>2 DEF RingInv, n
  <2> QED
    BY <2>1, <2>3, RingStep
<1>6. CASE raw_queue_flush(q)
  <2>1. Base(q) /\ msg_q' = [msg_q EXCEPT ![q] = NewRing(q)]
    BY <1>0, <1>6, DataBase DEF raw_queue_flush
  <2> QED
    BY <2>1, RingEmptied
<1>7. CASE raw_queue_delete(q)
  <2>1. Base(q) /\ msg_q' = [msg_q EXCEPT ![q] = NewRing(q)]
    BY <1>0, <1>7, QueueDeleteBase DEF raw_queue_delete
  <2> QED
    BY <2>1, RingEmptied
<1> QED
  BY <1>1, <1>2, <1>3, <1>4, <1>5, <1>6, <1>7 DEF QueueOp


-----------------------------------------------------------------------------
(* Queues of messages with a size: linked nodes.  p is the order of all      *)
(* nodes, the c stored ones first; the pointer of the last stored node may   *)
(* be anything.                                                             *)

Upd(f, x, v) == [f EXCEPT ![x] = v]

NodeOrNull(n) == 1 .. n \cup {Null}

IsOrder(p, n) ==
  /\ p \in [1 .. n -> 1 .. n]
  /\ \A i, j \in 1 .. n : p[i] = p[j] => i = j
  /\ \A x \in 1 .. n : \E i \in 1 .. n : p[i] = x

Linked(next, free, read, write, c, n, p) ==
  /\ IsOrder(p, n)
  /\ \A i \in 1 .. n - 1 : i # c => next[p[i]] = p[i + 1]
  /\ c < n => next[p[n]] = Null
  /\ free = IF c = n THEN Null ELSE p[c + 1]
  /\ c > 0 => read = p[1] /\ write = p[c]

\* The first message: the order stays, and so does the pointer of its node.
LEMMA StoreFirst ==
  ASSUME NEW n \in Nat \ {0}, NEW next \in [1 .. n -> NodeOrNull(n)], NEW free, NEW read,
         NEW write, NEW p, Linked(next, free, read, write, 0, n, p)
  PROVE  /\ free \in 1 .. n
         /\ Linked(next, next[free], free, free, 1, n, p)
<1>0. 1 \in 1 .. n /\ n \in 1 .. n /\ 0 < n /\ 1 > 0
  OBVIOUS
<1>1. 1 \in 1 .. n /\ n \in 1 .. n /\ p \in [1 .. n -> 1 .. n] /\ free = p[1] /\ free \in 1 .. n
  <2>1. p \in [1 .. n -> 1 .. n] /\ free = p[0 + 1]
    BY <1>0 DEF Linked, IsOrder
  <2> QED
    BY <1>0, <2>1
<1>2. CASE n = 1
  <2>1. next[p[n]] = Null
    BY <1>0 DEF Linked
  <2>2. 1 = n /\ ~ (1 < n) /\ \A i \in 1 .. n - 1 : FALSE
    BY <1>2
  <2> QED
    BY <1>0, <1>1, <2>1, <2>2 DEF Linked
<1>3. CASE n # 1
  <2>1. 1 \in 1 .. n - 1 /\ 1 < n /\ \A i \in 1 .. n - 1 : i # 0
    BY <1>3
  <2>2. next[free] = p[2]
    BY <1>1, <2>1 DEF Linked
  <2>3. \A i \in 1 .. n - 1 : next[p[i]] = p[i + 1]
    BY <2>1 DEF Linked
  <2>4. next[p[n]] = Null /\ IsOrder(p, n)
    BY <1>0 DEF Linked
  <2>5. 1 + 1 = 2
    OBVIOUS
  <2> QED
    BY <1>0, <1>1, <1>3, <2>2, <2>3, <2>4, <2>5 DEF Linked
<1> QED
  BY <1>2, <1>3

\* A message at the end: its node was the first free one, so the order stays.
LEMMA StoreLast ==
  ASSUME NEW n \in Nat \ {0}, NEW next \in [1 .. n -> NodeOrNull(n)], NEW free, NEW read,
         NEW write, NEW c \in 1 .. n - 1, NEW p, Linked(next, free, read, write, c, n, p)
  PROVE  /\ free \in 1 .. n /\ write \in 1 .. n
         /\ Linked([[next EXCEPT ![write] = free] EXCEPT ![free] = Null], next[free], read, free,
                   c + 1, n, p)
<1> DEFINE next1 == [[next EXCEPT ![write] = free] EXCEPT ![free] = Null]
<1>1. /\ c \in 1 .. n /\ c + 1 \in 1 .. n /\ n \in 1 .. n /\ c > 0 /\ c < n /\ c # n
      /\ p \in [1 .. n -> 1 .. n] /\ \A i, j \in 1 .. n : p[i] = p[j] => i = j
  <2>1. c \in 1 .. n /\ c + 1 \in 1 .. n /\ n \in 1 .. n /\ c > 0 /\ c < n /\ c # n
    OBVIOUS
  <2>2. p \in [1 .. n -> 1 .. n] /\ \A i, j \in 1 .. n : p[i] = p[j] => i = j
    BY DEF Linked, IsOrder
  <2> QED
    BY <2>1, <2>2
<1>2. free = p[c + 1] /\ read = p[1] /\ write = p[c] /\ free \in 1 .. n /\ write \in 1 .. n
  BY <1>1 DEF Linked
<1>3. /\ next1[free] = Null
      /\ \A x \in 1 .. n \ {free} : next1[x] = IF x = write THEN free ELSE next[x]
  BY <1>2
<1> HIDE DEF next1
<1>4. ASSUME NEW i \in 1 .. n - 1, i # c + 1 PROVE next1[p[i]] = p[i + 1]
  <2>0. i \in 1 .. n /\ i # c + 1
    BY <1>4
  <2>1. i \in 1 .. n /\ p[i] \in 1 .. n /\ p[i] # free
    BY <1>1, <1>2, <2>0
  <2>2. p[i] = write <=> i = c
    BY <1>1, <1>2, <2>1
  <2>3. i # c => next[p[i]] = p[i + 1]
    BY DEF Linked
  <2> QED
    BY <1>2, <1>3, <2>1, <2>2, <2>3
<1>5. c + 1 < n => next1[p[n]] = Null
  <2>1. SUFFICES ASSUME c + 1 < n PROVE next1[p[n]] = Null
    OBVIOUS
  <2>2. p[n] \in 1 .. n /\ p[n] # free /\ p[n] # write
    BY <1>1, <1>2, <2>1
  <2> QED
    BY <1>1, <1>3, <2>2 DEF Linked
<1>6. next[free] = IF c + 1 = n THEN Null ELSE p[(c + 1) + 1]
  <2>1. CASE c + 1 = n
    BY <1>1, <1>2, <2>1 DEF Linked
  <2>2. CASE c + 1 # n
    <3>1. c + 1 \in 1 .. n - 1 /\ c + 1 # c
      BY <1>1, <2>2
    <3> QED
      BY <1>2, <2>2, <3>1 DEF Linked
  <2> QED
    BY <2>1, <2>2
<1>7. Linked(next1, next[free], read, free, c + 1, n, p)
  BY <1>2, <1>4, <1>5, <1>6 DEF Linked
<1> QED
  BY <1>2, <1>7 DEF next1

\* A message at the front: the first free node becomes the first of all.
LEMMA StoreAtFront ==
  ASSUME NEW n \in Nat \ {0}, NEW next \in [1 .. n -> NodeOrNull(n)], NEW free, NEW read,
         NEW write, NEW c \in 1 .. n - 1, NEW p, Linked(next, free, read, write, c, n, p)
  PROVE  /\ free \in 1 .. n /\ read \in 1 .. n
         /\ \E p1 : Linked([next EXCEPT ![free] = read], next[free], free, write, c + 1, n, p1)
<1> DEFINE next1 == [next EXCEPT ![free] = read]
           from(i) == IF i = 1 THEN c + 1 ELSE IF i <= c + 1 THEN i - 1 ELSE i
           p1 == [i \in 1 .. n |-> p[from(i)]]
<1>1. /\ 1 \in 1 .. n /\ c \in 1 .. n /\ c + 1 \in 1 .. n /\ n \in 1 .. n /\ c > 0 /\ c < n /\ c # n
      /\ p \in [1 .. n -> 1 .. n] /\ \A i, j \in 1 .. n : p[i] = p[j] => i = j
      /\ \A x \in 1 .. n : \E i \in 1 .. n : p[i] = x
  <2>1. 1 \in 1 .. n /\ c \in 1 .. n /\ c + 1 \in 1 .. n /\ n \in 1 .. n /\ c > 0 /\ c < n /\ c # n
    OBVIOUS
  <2>2. /\ p \in [1 .. n -> 1 .. n] /\ \A i, j \in 1 .. n : p[i] = p[j] => i = j
        /\ \A x \in 1 .. n : \E i \in 1 .. n : p[i] = x
    BY DEF Linked, IsOrder
  <2> QED
    BY <2>1, <2>2
<1>2. free = p[c + 1] /\ read = p[1] /\ write = p[c] /\ free \in 1 .. n /\ read \in 1 .. n
  BY <1>1 DEF Linked
<1>3. \A x \in 1 .. n : next1[x] = IF x = free THEN read ELSE next[x]
  BY <1>2
<1>4. /\ \A i \in 1 .. n : from(i) \in 1 .. n /\ p1[i] = p[from(i)]
      /\ \A i, j \in 1 .. n : from(i) = from(j) => i = j
      /\ \A j \in 1 .. n : \E i \in 1 .. n : from(i) = j
  <2>1. \A i \in 1 .. n : from(i) \in 1 .. n
    BY <1>1
  <2>2. ASSUME NEW i \in 1 .. n, NEW j \in 1 .. n, from(i) = from(j) PROVE i = j
    <3>1. CASE i = 1 \/ j = 1
      BY <2>2, <3>1
    <3>2. CASE i # 1 /\ j # 1
      BY <2>2, <3>2
    <3> QED
      BY <3>1, <3>2
  <2>3. ASSUME NEW j \in 1 .. n PROVE \E i \in 1 .. n : from(i) = j
    <3>1. CASE j = c + 1
      BY <1>1, <3>1
    <3>2. CASE j <= c
      <4>1. j + 1 \in 1 .. n /\ from(j + 1) = j
        BY <1>1, <3>2
      <4> HIDE DEF from
      <4> QED
        BY <4>1
    <3>3. CASE j > c + 1
      <4>1. from(j) = j
        BY <3>3
      <4> HIDE DEF from
      <4> QED
        BY <4>1
    <3> QED
      BY <1>1, <3>1, <3>2, <3>3
  <2> QED
    BY <2>1, <2>2, <2>3
<1>5. p1 \in [1 .. n -> 1 .. n]
  <2> HIDE DEF from
  <2> QED
    BY <1>1, <1>4
<1>6. /\ from(1) = c + 1 /\ from(c + 1) = c
      /\ \A i \in 1 .. n - 1 : i # 1 /\ i # c + 1 => from(i + 1) = from(i) + 1 /\ from(i) # c
                                                   /\ from(i) \in 1 .. n - 1 /\ from(i) # c + 1
      /\ from(2) = 1
      /\ c + 1 < n => from(n) = n /\ from(c + 2) = c + 2 /\ n # c + 1
  <2>1. from(1) = c + 1 /\ from(c + 1) = c /\ from(2) = 1
    BY <1>1
  <2>2. ASSUME c + 1 < n PROVE from(n) = n /\ from(c + 2) = c + 2 /\ n # c + 1
    <3>1. n # 1 /\ ~ (n <= c + 1) /\ c + 2 # 1 /\ ~ (c + 2 <= c + 1) /\ n # c + 1
      BY <2>2
    <3> QED
      BY <3>1
  <2>3. ASSUME NEW i \in 1 .. n - 1, i # 1, i # c + 1
        PROVE  from(i + 1) = from(i) + 1 /\ from(i) # c /\ from(i) \in 1 .. n - 1 /\ from(i) # c + 1
    <3>1. CASE i <= c
      BY <2>3, <3>1
    <3>2. CASE i > c + 1
      BY <2>3, <3>2
    <3> QED
      BY <2>3, <3>1, <3>2
  <2> QED
    BY <2>1, <2>2, <2>3
<1> HIDE DEF next1, from
<1>7. p1[1] = free /\ p1[2] = read /\ p1[c + 1] = write
  <2>1. 2 \in 1 .. n
    BY <1>1
  <2> QED
    BY <1>1, <1>2, <1>4, <1>6, <2>1
<1>8. IsOrder(p1, n)
  <2> HIDE DEF p1
  <2>1. ASSUME NEW i \in 1 .. n, NEW j \in 1 .. n, p1[i] = p1[j] PROVE i = j
    <3>1. from(i) \in 1 .. n /\ from(j) \in 1 .. n /\ p[from(i)] = p[from(j)]
      BY <1>4, <2>1
    <3>2. from(i) = from(j)
      BY <1>1, <3>1
    <3> QED
      BY <1>4, <3>2
  <2>2. ASSUME NEW x \in 1 .. n PROVE \E i \in 1 .. n : p1[i] = x
    <3>1. PICK j \in 1 .. n : p[j] = x
      BY <1>1
    <3>2. PICK i \in 1 .. n : from(i) = j
      BY <1>4
    <3> QED
      BY <1>4, <3>1, <3>2
  <2> QED
    BY <1>5, <2>1, <2>2 DEF IsOrder
<1> HIDE DEF p1
<1>9. ASSUME NEW i \in 1 .. n - 1, i # c + 1 PROVE next1[p1[i]] = p1[i + 1]
  <2>1. i \in 1 .. n /\ i + 1 \in 1 .. n
    OBVIOUS
  <2>2. CASE i = 1
    <3>1. i + 1 = 2
      BY <2>2
    <3> QED
      BY <1>2, <1>3, <1>7, <2>2, <3>1
  <2>3. CASE i # 1
    <3>1. PICK j \in 1 .. n - 1 : j = from(i) /\ from(i + 1) = j + 1 /\ j # c /\ j # c + 1
      BY <1>6, <1>9, <2>3
    <3>2. j \in 1 .. n /\ p1[i] = p[j] /\ p1[i + 1] = p[j + 1] /\ p[j] \in 1 .. n /\ p[j] # free
      BY <1>1, <1>2, <1>4, <2>1, <3>1
    <3>3. next[p[j]] = p[j + 1]
      BY <3>1 DEF Linked
    <3> QED
      BY <1>3, <3>2, <3>3
  <2> QED
    BY <2>2, <2>3
<1>10. c + 1 < n => next1[p1[n]] = Null
  <2>1. SUFFICES ASSUME c + 1 < n PROVE next1[p1[n]] = Null
    OBVIOUS
  <2>2. p1[n] = p[n] /\ p[n] \in 1 .. n /\ p[n] # free
    <3>1. n \in 1 .. n /\ from(n) = n /\ n # c + 1
      BY <1>1, <1>6, <2>1
    <3>2. p1[n] = p[n]
      BY <1>4, <3>1
    <3> QED
      BY <1>1, <1>2, <3>1, <3>2
  <2>3. next[p[n]] = Null
    BY <1>1 DEF Linked
  <2> QED
    BY <1>3, <2>2, <2>3
<1>11. next[free] = IF c + 1 = n THEN Null ELSE p1[(c + 1) + 1]
  <2>1. CASE c + 1 = n
    BY <1>1, <1>2, <2>1 DEF Linked
  <2>2. CASE c + 1 # n
    <3>1. c + 1 \in 1 .. n - 1 /\ c + 1 # c /\ c + 2 \in 1 .. n /\ c + 1 < n /\ (c + 1) + 1 = c + 2
      BY <1>1, <2>2
    <3>2. p1[c + 2] = p[c + 2]
      <4>1. from(c + 2) = c + 2
        BY <1>6, <3>1
      <4> QED
        BY <1>4, <3>1, <4>1
    <3>3. next[p[c + 1]] = p[(c + 1) + 1]
      BY <3>1 DEF Linked
    <3> QED
      BY <1>2, <2>2, <3>1, <3>2, <3>3
  <2> QED
    BY <2>1, <2>2
<1>12. Linked(next1, next[free], free, write, c + 1, n, p1)
  BY <1>7, <1>8, <1>9, <1>10, <1>11 DEF Linked
<1> QED
  BY <1>2, <1>12 DEF next1


\* The first message is taken: its node becomes the first free one.  What read and
\* write are after the last message does not matter.
FirstTaken(next, free, read, write, c, n, p) ==
  /\ read \in 1 .. n /\ (next[read] = Null => c = 1)
  /\ c = 1 => \A r, w : Linked(Upd(next, read, free), read, r, w, 0, n, p)
  /\ c > 1 => \E p1 : Linked(Upd(next, read, free), read, next[read], write, c - 1, n, p1)

LEMMA TakeFirstNode ==
  ASSUME NEW n \in Nat \ {0}, NEW next \in [1 .. n -> NodeOrNull(n)], NEW free, NEW read,
         NEW write, NEW c \in 1 .. n, NEW p, Linked(next, free, read, write, c, n, p),
         Null \notin 1 .. n
  PROVE  FirstTaken(next, free, read, write, c, n, p)
<1> DEFINE next1 == [next EXCEPT ![read] = free]
<1>1. /\ 1 \in 1 .. n /\ c \in 1 .. n /\ n \in 1 .. n /\ c > 0
      /\ p \in [1 .. n -> 1 .. n] /\ \A i, j \in 1 .. n : p[i] = p[j] => i = j
      /\ \A x \in 1 .. n : \E i \in 1 .. n : p[i] = x
  <2>1. 1 \in 1 .. n /\ c \in 1 .. n /\ n \in 1 .. n /\ c > 0
    OBVIOUS
  <2>2. /\ p \in [1 .. n -> 1 .. n] /\ \A i, j \in 1 .. n : p[i] = p[j] => i = j
        /\ \A x \in 1 .. n : \E i \in 1 .. n : p[i] = x
    BY DEF Linked, IsOrder
  <2> QED
    BY <2>1, <2>2
<1>2. /\ read = p[1] /\ write = p[c] /\ read \in 1 .. n
      /\ free = IF c = n THEN Null ELSE p[c + 1]
  BY <1>1 DEF Linked
<1>3. \A x \in 1 .. n : next1[x] = IF x = read THEN free ELSE next[x]
  BY <1>2
<1>4. /\ \A i \in 1 .. n - 1 : i # c => next[p[i]] = p[i + 1]
      /\ c < n => next[p[n]] = Null
  BY DEF Linked
<1> HIDE DEF next1
<1>6. CASE c = 1
  <2>1. ASSUME NEW i \in 1 .. n - 1, i # 0 PROVE next1[p[i]] = p[i + 1]
    <3>0. i \in 1 .. n
      OBVIOUS
    <3>1. i \in 1 .. n /\ p[i] \in 1 .. n
      BY <1>1, <3>0
    <3>2. CASE i = 1
      <4>1. c # n /\ i + 1 = c + 1
        BY <1>6, <3>2
      <4> QED
        BY <1>2, <1>3, <3>1, <3>2, <4>1
    <3>3. CASE i # 1
      <4>1. p[i] # read /\ i # c
        BY <1>1, <1>2, <1>6, <3>1, <3>3
      <4> QED
        BY <1>3, <1>4, <3>1, <4>1
    <3> QED
      BY <3>2, <3>3
  <2>2. next1[p[n]] = Null
    <3>1. CASE n = 1
      BY <1>1, <1>2, <1>3, <1>6, <3>1
    <3>2. CASE n # 1
      <4>1. c < n /\ p[n] \in 1 .. n /\ p[n] # read
        BY <1>1, <1>2, <1>6, <3>2
      <4> QED
        BY <1>3, <1>4, <4>1
    <3> QED
      BY <3>1, <3>2
  <2>3. read = IF 0 = n THEN Null ELSE p[0 + 1]
    BY <1>2
  <2>4. IsOrder(p, n) /\ ~ (0 > 0)
    BY DEF Linked
  <2>5. \A r, w : Linked(next1, read, r, w, 0, n, p)
    BY <2>1, <2>2, <2>3, <2>4 DEF Linked
  <2>6. ~ (c > 1)
    BY <1>6
  <2> QED
    BY <1>2, <1>6, <2>5, <2>6 DEF next1, Upd, FirstTaken
<1>7. CASE c # 1
  <2> DEFINE from(i) == IF i < c THEN i + 1 ELSE IF i = c THEN 1 ELSE i
             p1 == [i \in 1 .. n |-> p[from(i)]]
  <2>1. 2 \in 1 .. n /\ c > 1 /\ c - 1 \in 1 .. n - 1 /\ 1 # c /\ 1 \in 1 .. n - 1 /\ 1 + 1 = 2
    BY <1>7
  <2>2. next[read] = p[2] /\ p[2] \in 1 .. n
    BY <1>1, <1>2, <1>4, <2>1
  <2>3. \A i \in 1 .. n : from(i) \in 1 .. n /\ p1[i] = p[from(i)]
    BY <1>1
  <2>4. ASSUME NEW i \in 1 .. n, NEW j \in 1 .. n, from(i) = from(j) PROVE i = j
    <3>1. CASE i = c \/ j = c
      BY <2>4, <3>1
    <3>2. CASE i # c /\ j # c
      BY <2>4, <3>2
    <3> QED
      BY <3>1, <3>2
  <2>5. ASSUME NEW j \in 1 .. n PROVE \E i \in 1 .. n : from(i) = j
    <3>1. CASE j = 1
      <4>1. from(c) = j
        BY <3>1
      <4> HIDE DEF from
      <4> QED
        BY <1>1, <4>1
    <3>2. CASE j # 1 /\ j <= c
      <4>1. j - 1 \in 1 .. n /\ from(j - 1) = j
        BY <3>2
      <4> HIDE DEF from
      <4> QED
        BY <4>1
    <3>3. CASE j > c
      <4>1. from(j) = j
        BY <3>3
      <4> HIDE DEF from
      <4> QED
        BY <4>1
    <3> QED
      BY <3>1, <3>2, <3>3
  <2>6. /\ from(c) = 1 /\ from(1) = 2 /\ from(c - 1) = c
        /\ c < n => from(n) = n /\ from(c + 1) = c + 1
    <3>1. from(c) = 1 /\ from(1) = 2 /\ from(c - 1) = c
      BY <2>1
    <3>2. ASSUME c < n PROVE from(n) = n /\ from(c + 1) = c + 1
      <4>1. ~ (n < c) /\ n # c /\ ~ (c + 1 < c) /\ c + 1 # c
        BY <3>2
      <4> QED
        BY <4>1
    <3> QED
      BY <3>1, <3>2
  <2>7. ASSUME NEW i \in 1 .. n - 1, i # c - 1, i # c
        PROVE  from(i + 1) = from(i) + 1 /\ from(i) # c /\ from(i) \in 1 .. n - 1 /\ from(i) # 1
    <3>1. CASE i < c
      BY <2>7, <3>1
    <3>2. CASE i > c
      BY <2>7, <3>2
    <3> QED
      BY <2>7, <3>1, <3>2
  <2>8. p1 \in [1 .. n -> 1 .. n]
    <3> HIDE DEF from
    <3> QED
      BY <1>1, <2>3
  <2> HIDE DEF from, p1
  <2>9. p1[c] = read /\ p1[1] = next[read] /\ p1[c - 1] = write
    <3>1. PICK d \in 1 .. n : d = c - 1
      BY <2>1
    <3>2. p1[c] = p[1] /\ p1[1] = p[2] /\ p1[d] = p[c]
      BY <1>1, <2>3, <2>6, <3>1
    <3> QED
      BY <1>2, <1>4, <2>1, <3>1, <3>2
  <2>10. IsOrder(p1, n)
    <3>1. ASSUME NEW i \in 1 .. n, NEW j \in 1 .. n, p1[i] = p1[j] PROVE i = j
      <4>1. from(i) \in 1 .. n /\ from(j) \in 1 .. n /\ p[from(i)] = p[from(j)]
        BY <2>3, <3>1
      <4>2. from(i) = from(j)
        BY <1>1, <4>1
      <4> QED
        BY <2>4, <4>2
    <3>2. ASSUME NEW x \in 1 .. n PROVE \E i \in 1 .. n : p1[i] = x
      <4>1. PICK j \in 1 .. n : p[j] = x
        BY <1>1
      <4>2. PICK i \in 1 .. n : from(i) = j
        BY <2>5
      <4> QED
        BY <2>3, <4>1, <4>2
    <3> QED
      BY <2>8, <3>1, <3>2 DEF IsOrder
  <2>11. ASSUME NEW i \in 1 .. n - 1, i # c - 1 PROVE next1[p1[i]] = p1[i + 1]
    <3>1. i \in 1 .. n /\ i + 1 \in 1 .. n
      OBVIOUS
    <3>2. CASE i = c
      <4>1. c # n /\ c < n /\ c + 1 \in 1 .. n
        BY <3>2
      <4>2. p1[c + 1] = p[c + 1]
        BY <2>3, <2>6, <4>1
      <4> QED
        BY <1>2, <1>3, <2>9, <3>2, <4>1, <4>2
    <3>3. CASE i # c
      <4>1. PICK j \in 1 .. n - 1 : j = from(i) /\ from(i + 1) = j + 1 /\ j # c /\ j # 1
        BY <2>7, <2>11, <3>3
      <4>2. /\ j \in 1 .. n /\ p1[i] = p[j] /\ p1[i + 1] = p[j + 1] /\ p[j] \in 1 .. n
            /\ p[j] # read
        BY <1>1, <1>2, <2>3, <3>1, <4>1
      <4> QED
        BY <1>3, <1>4, <4>1, <4>2
    <3> QED
      BY <3>2, <3>3
  <2>12. next1[p1[n]] = Null
    <3>1. CASE c = n
      BY <1>2, <1>3, <2>9, <3>1
    <3>2. CASE c # n
      <4>1. c < n
        BY <3>2
      <4>2. p1[n] = p[n] /\ p[n] \in 1 .. n /\ p[n] # read
        <5>1. from(n) = n /\ n # 1
          BY <2>1, <2>6, <4>1
        <5> QED
          BY <1>1, <1>2, <2>3, <5>1
      <4> QED
        BY <1>3, <1>4, <4>1, <4>2
    <3> QED
      BY <3>1, <3>2
  <2>13. read = IF c - 1 = n THEN Null ELSE p1[(c - 1) + 1]
    <3>1. c - 1 # n /\ (c - 1) + 1 = c
      BY <2>1
    <3> QED
      BY <2>9, <3>1
  <2>14. Linked(next1, read, next[read], write, c - 1, n, p1)
    BY <2>9, <2>10, <2>11, <2>12, <2>13 DEF Linked
  <2> QED
    BY <1>2, <1>7, <2>2, <2>14 DEF next1, Upd, FirstTaken
<1> QED
  BY <1>6, <1>7 DEF FirstTaken

\* All messages are dropped: their nodes come before the ones that were free.
LEMMA DropNodes ==
  ASSUME NEW n \in Nat \ {0}, NEW next \in [1 .. n -> NodeOrNull(n)], NEW free, NEW read,
         NEW write, NEW c \in 1 .. n, NEW p, Linked(next, free, read, write, c, n, p)
  PROVE  /\ write \in 1 .. n /\ read \in 1 .. n
         /\ Linked([next EXCEPT ![write] = free], read, Null, Null, 0, n, p)
<1> DEFINE next1 == [next EXCEPT ![write] = free]
<1>1. /\ 1 \in 1 .. n /\ c \in 1 .. n /\ n \in 1 .. n /\ c > 0
      /\ p \in [1 .. n -> 1 .. n] /\ \A i, j \in 1 .. n : p[i] = p[j] => i = j
  <2>1. 1 \in 1 .. n /\ c \in 1 .. n /\ n \in 1 .. n /\ c > 0
    OBVIOUS
  <2>2. p \in [1 .. n -> 1 .. n] /\ \A i, j \in 1 .. n : p[i] = p[j] => i = j
    BY DEF Linked, IsOrder
  <2> QED
    BY <2>1, <2>2
<1>2. /\ read = p[1] /\ write = p[c] /\ read \in 1 .. n /\ write \in 1 .. n
      /\ free = IF c = n THEN Null ELSE p[c + 1]
  BY <1>1 DEF Linked
<1>3. \A x \in 1 .. n : next1[x] = IF x = write THEN free ELSE next[x]
  BY <1>2
<1>4. /\ \A i \in 1 .. n - 1 : i # c => next[p[i]] = p[i + 1]
      /\ c < n => next[p[n]] = Null
  BY DEF Linked
<1> HIDE DEF next1
<1>5. ASSUME NEW i \in 1 .. n - 1 PROVE next1[p[i]] = p[i + 1]
  <2>1. i \in 1 .. n /\ p[i] \in 1 .. n /\ i # n
    BY <1>1
  <2>2. p[i] = write <=> i = c
    BY <1>1, <1>2, <2>1
  <2> QED
    BY <1>2, <1>3, <1>4, <2>1, <2>2
<1>6. next1[p[n]] = Null
  <2>1. CASE c = n
    BY <1>1, <1>2, <1>3, <2>1
  <2>2. CASE c # n
    <3>1. c < n /\ p[n] \in 1 .. n /\ p[n] # write
      BY <1>1, <1>2, <2>2
    <3> QED
      BY <1>3, <1>4, <3>1
  <2> QED
    BY <2>1, <2>2
<1>7. (read = IF 0 = n THEN Null ELSE p[0 + 1]) /\ ~ (0 > 0)
  BY <1>2
<1>8. IsOrder(p, n)
  BY DEF Linked
<1>9. Linked(next1, read, Null, Null, 0, n, p)
  BY <1>5, <1>6, <1>7, <1>8 DEF Linked
<1> QED
  BY <1>2, <1>9 DEF next1


NodeRecord(n) ==
  [next : [1 .. n -> NodeOrNull(n)], msg_ptr : [1 .. n -> Msg \cup {NoMsg}],
   free_msg : NodeOrNull(n), read : NodeOrNull(n), write : NodeOrNull(n),
   queue_current_msg : 0 .. n]

HasNodes(Q, n) ==
  /\ Q \in NodeRecord(n)
  /\ \E p : Linked(Q.next, Q.free_msg, Q.read, Q.write, Q.queue_current_msg, n, p)

NodesInv ==
  /\ size_q = [q \in SizeQueue |-> size_q[q]]
  /\ \A q \in SizeQueue : HasNodes(size_q[q], QSize[q])

\* A record of a queue, field by field.
NodeFields(next, ptr, free, read, write, c) ==
  [next |-> next, msg_ptr |-> ptr, free_msg |-> free, read |-> read, write |-> write,
   queue_current_msg |-> c]

LEMMA NodeForm ==
  ASSUME NEW n, NEW Q, HasNodes(Q, n)
  PROVE  \E next \in [1 .. n -> NodeOrNull(n)], ptr \in [1 .. n -> Msg \cup {NoMsg}],
            free \in NodeOrNull(n), read \in NodeOrNull(n), write \in NodeOrNull(n),
            c \in 0 .. n :
           Q = NodeFields(next, ptr, free, read, write, c)
             /\ \E p : Linked(next, free, read, write, c, n, p)
<1>1. PICK next, ptr, free, read, write, c :
        /\ next = Q.next /\ ptr = Q.msg_ptr /\ free = Q.free_msg
        /\ read = Q.read /\ write = Q.write /\ c = Q.queue_current_msg
  OBVIOUS
<1>2. /\ next \in [1 .. n -> NodeOrNull(n)] /\ ptr \in [1 .. n -> Msg \cup {NoMsg}]
      /\ free \in NodeOrNull(n) /\ read \in NodeOrNull(n) /\ write \in NodeOrNull(n)
      /\ c \in 0 .. n /\ Q = NodeFields(next, ptr, free, read, write, c)
  BY <1>1 DEF HasNodes, NodeRecord, NodeFields
<1>3. \E p : Linked(next, free, read, write, c, n, p)
  BY <1>1 DEF HasNodes
<1> QED
  BY <1>2, <1>3

\* The updates of a queue by the operations, named for the proofs.
TakeNode(Q, x, m) ==
  [Q EXCEPT !.free_msg = Q.next[x], !.msg_ptr[x] = m, !.queue_current_msg = @ + 1]

StoreOnly(Q, x) == [Q EXCEPT !.write = x, !.read = x]

ReadNext(Q, x) == [Q EXCEPT !.read = x, !.queue_current_msg = @ - 1]

ReadLast(Q) == [Q EXCEPT !.read = Null, !.write = Null, !.queue_current_msg = 0]

DropAll(Q, x) ==
  [Q EXCEPT !.next[Q.write] = Q.free_msg, !.free_msg = Q.read, !.msg_ptr = x,
            !.queue_current_msg = 0, !.read = Null, !.write = Null]

\* What the operations make of the fields.
LEMMA Fields ==
  ASSUME NEW next, NEW ptr, NEW free, NEW read, NEW write, NEW c,
         NEW Q, Q = NodeFields(next, ptr, free, read, write, c)
  PROVE  /\ Q.next = next /\ Q.msg_ptr = ptr /\ Q.free_msg = free /\ Q.read = read
         /\ Q.write = write /\ Q.queue_current_msg = c
BY DEF NodeFields

LEMMA TakesNode ==
  ASSUME NEW next, NEW ptr, NEW free, NEW read, NEW write, NEW c, NEW x, NEW m
  PROVE  TakeNode(NodeFields(next, ptr, free, read, write, c), x, m)
           = NodeFields(next, Upd(ptr, x, m), next[x], read, write, c + 1)
<1>q. PICK Q : Q = NodeFields(next, ptr, free, read, write, c)
  OBVIOUS
<1>0. /\ Q.next = next /\ Q.msg_ptr = ptr /\ Q.free_msg = free /\ Q.read = read
      /\ Q.write = write /\ Q.queue_current_msg = c
  BY <1>q, Fields
<1>1. PICK Q1 : Q1 = [Q EXCEPT !.free_msg = next[x]]
  OBVIOUS
<1>2. Q1 = NodeFields(next, ptr, next[x], read, write, c)
  BY <1>1, <1>q DEF NodeFields
<1>3. PICK Q2 : Q2 = [Q1 EXCEPT !.msg_ptr[x] = m]
  OBVIOUS
<1>4. Q2 = NodeFields(next, [ptr EXCEPT ![x] = m], next[x], read, write, c)
  BY <1>3, <1>2 DEF NodeFields
<1>5. TakeNode(Q, x, m) = [Q2 EXCEPT !.queue_current_msg = @ + 1]
  BY <1>0, <1>1, <1>3 DEF TakeNode
<1> QED
  BY <1>q, <1>4, <1>5 DEF NodeFields, Upd

LEMMA StoresOnly ==
  ASSUME NEW next, NEW ptr, NEW free, NEW read, NEW write, NEW c, NEW x
  PROVE  StoreOnly(NodeFields(next, ptr, free, read, write, c), x)
           = NodeFields(next, ptr, free, x, x, c)
<1>q. PICK Q : Q = NodeFields(next, ptr, free, read, write, c)
  OBVIOUS
<1>0. /\ Q.next = next /\ Q.msg_ptr = ptr /\ Q.free_msg = free /\ Q.read = read
      /\ Q.write = write /\ Q.queue_current_msg = c
  BY <1>q, Fields
<1>1. PICK Q1 : Q1 = [Q EXCEPT !.write = x]
  OBVIOUS
<1>2. Q1 = NodeFields(next, ptr, free, read, x, c)
  BY <1>1, <1>q DEF NodeFields
<1>3. StoreOnly(Q, x) = [Q1 EXCEPT !.read = x]
  BY <1>0, <1>1 DEF StoreOnly
<1> QED
  BY <1>q, <1>2, <1>3 DEF NodeFields, Upd

LEMMA Appends ==
  ASSUME NEW next, NEW ptr, NEW free, NEW read, NEW write, NEW c, NEW x
  PROVE  append_node(NodeFields(next, ptr, free, read, write, c), x)
           = NodeFields(Upd(Upd(next, write, x), x, Null), ptr, free, read, x, c)
<1>q. PICK Q : Q = NodeFields(next, ptr, free, read, write, c)
  OBVIOUS
<1>0. /\ Q.next = next /\ Q.msg_ptr = ptr /\ Q.free_msg = free /\ Q.read = read
      /\ Q.write = write /\ Q.queue_current_msg = c
  BY <1>q, Fields
<1>1. PICK Q1 : Q1 = [Q EXCEPT !.next[write] = x]
  OBVIOUS
<1>2. Q1 = NodeFields([next EXCEPT ![write] = x], ptr, free, read, write, c)
  BY <1>1, <1>q DEF NodeFields
<1>3. PICK Q2 : Q2 = [Q1 EXCEPT !.next[x] = Null]
  OBVIOUS
<1>4. Q2 = NodeFields([[next EXCEPT ![write] = x] EXCEPT ![x] = Null], ptr, free, read, write, c)
  BY <1>3, <1>2 DEF NodeFields
<1>5. append_node(Q, x) = [Q2 EXCEPT !.write = x]
  BY <1>0, <1>1, <1>3 DEF append_node
<1> QED
  BY <1>q, <1>4, <1>5 DEF NodeFields, Upd

LEMMA Prepends ==
  ASSUME NEW next, NEW ptr, NEW free, NEW read, NEW write, NEW c, NEW x
  PROVE  prepend_node(NodeFields(next, ptr, free, read, write, c), x)
           = NodeFields(Upd(next, x, read), ptr, free, x, write, c)
<1>q. PICK Q : Q = NodeFields(next, ptr, free, read, write, c)
  OBVIOUS
<1>0. /\ Q.next = next /\ Q.msg_ptr = ptr /\ Q.free_msg = free /\ Q.read = read
      /\ Q.write = write /\ Q.queue_current_msg = c
  BY <1>q, Fields
<1>1. PICK Q1 : Q1 = [Q EXCEPT !.next[x] = read]
  OBVIOUS
<1>2. Q1 = NodeFields([next EXCEPT ![x] = read], ptr, free, read, write, c)
  BY <1>1, <1>q DEF NodeFields
<1>3. prepend_node(Q, x) = [Q1 EXCEPT !.read = x]
  BY <1>0, <1>1 DEF prepend_node
<1> QED
  BY <1>q, <1>2, <1>3 DEF NodeFields, Upd

LEMMA FreesNode ==
  ASSUME NEW next, NEW ptr, NEW free, NEW read, NEW write, NEW c, NEW x
  PROVE  free_node(NodeFields(next, ptr, free, read, write, c), x)
           = NodeFields(Upd(next, x, free), Upd(ptr, x, NoMsg), x, read, write, c)
<1>q. PICK Q : Q = NodeFields(next, ptr, free, read, write, c)
  OBVIOUS
<1>0. /\ Q.next = next /\ Q.msg_ptr = ptr /\ Q.free_msg = free /\ Q.read = read
      /\ Q.write = write /\ Q.queue_current_msg = c
  BY <1>q, Fields
<1>1. PICK Q1 : Q1 = [Q EXCEPT !.msg_ptr[x] = NoMsg]
  OBVIOUS
<1>2. Q1 = NodeFields(next, [ptr EXCEPT ![x] = NoMsg], free, read, write, c)
  BY <1>1, <1>q DEF NodeFields
<1>3. PICK Q2 : Q2 = [Q1 EXCEPT !.next[x] = free]
  OBVIOUS
<1>4. Q2 = NodeFields([next EXCEPT ![x] = free], [ptr EXCEPT ![x] = NoMsg], free, read, write, c)
  BY <1>3, <1>2 DEF NodeFields
<1>5. free_node(Q, x) = [Q2 EXCEPT !.free_msg = x]
  BY <1>0, <1>1, <1>3 DEF free_node
<1> QED
  BY <1>q, <1>4, <1>5 DEF NodeFields, Upd

LEMMA ReadsNext ==
  ASSUME NEW next, NEW ptr, NEW free, NEW read, NEW write, NEW c, NEW x
  PROVE  ReadNext(NodeFields(next, ptr, free, read, write, c), x)
           = NodeFields(next, ptr, free, x, write, c - 1)
<1>q. PICK Q : Q = NodeFields(next, ptr, free, read, write, c)
  OBVIOUS
<1>0. /\ Q.next = next /\ Q.msg_ptr = ptr /\ Q.free_msg = free /\ Q.read = read
      /\ Q.write = write /\ Q.queue_current_msg = c
  BY <1>q, Fields
<1>1. PICK Q1 : Q1 = [Q EXCEPT !.read = x]
  OBVIOUS
<1>2. Q1 = NodeFields(next, ptr, free, x, write, c)
  BY <1>1, <1>q DEF NodeFields
<1>3. ReadNext(Q, x) = [Q1 EXCEPT !.queue_current_msg = @ - 1]
  BY <1>0, <1>1 DEF ReadNext
<1> QED
  BY <1>q, <1>2, <1>3 DEF NodeFields, Upd

LEMMA ReadsLast ==
  ASSUME NEW next, NEW ptr, NEW free, NEW read, NEW write, NEW c
  PROVE  ReadLast(NodeFields(next, ptr, free, read, write, c))
           = NodeFields(next, ptr, free, Null, Null, 0)
<1>q. PICK Q : Q = NodeFields(next, ptr, free, read, write, c)
  OBVIOUS
<1>0. /\ Q.next = next /\ Q.msg_ptr = ptr /\ Q.free_msg = free /\ Q.read = read
      /\ Q.write = write /\ Q.queue_current_msg = c
  BY <1>q, Fields
<1>1. PICK Q1 : Q1 = [Q EXCEPT !.read = Null]
  OBVIOUS
<1>2. Q1 = NodeFields(next, ptr, free, Null, write, c)
  BY <1>1, <1>q DEF NodeFields
<1>3. PICK Q2 : Q2 = [Q1 EXCEPT !.write = Null]
  OBVIOUS
<1>4. Q2 = NodeFields(next, ptr, free, Null, Null, c)
  BY <1>3, <1>2 DEF NodeFields
<1>5. ReadLast(Q) = [Q2 EXCEPT !.queue_current_msg = 0]
  BY <1>0, <1>1, <1>3 DEF ReadLast
<1> QED
  BY <1>q, <1>4, <1>5 DEF NodeFields, Upd

LEMMA Flushes ==
  ASSUME NEW next, NEW ptr, NEW free, NEW read, NEW write, NEW c, NEW x
  PROVE  DropAll(NodeFields(next, ptr, free, read, write, c), x)
           = NodeFields(Upd(next, write, free), x, read, Null, Null, 0)
<1>q. PICK Q : Q = NodeFields(next, ptr, free, read, write, c)
  OBVIOUS
<1>0. /\ Q.next = next /\ Q.msg_ptr = ptr /\ Q.free_msg = free /\ Q.read = read
      /\ Q.write = write /\ Q.queue_current_msg = c
  BY <1>q, Fields
<1>1. PICK Q1 : Q1 = [Q EXCEPT !.next[write] = free]
  OBVIOUS
<1>2. Q1 = NodeFields([next EXCEPT ![write] = free], ptr, free, read, write, c)
  BY <1>1, <1>q DEF NodeFields
<1>3. PICK Q2 : Q2 = [Q1 EXCEPT !.free_msg = read]
  OBVIOUS
<1>4. Q2 = NodeFields([next EXCEPT ![write] = free], ptr, read, read, write, c)
  BY <1>3, <1>2 DEF NodeFields
<1>5. PICK Q3 : Q3 = [Q2 EXCEPT !.msg_ptr = x]
  OBVIOUS
<1>6. Q3 = NodeFields([next EXCEPT ![write] = free], x, read, read, write, c)
  BY <1>5, <1>4 DEF NodeFields
<1>7. PICK Q4 : Q4 = [Q3 EXCEPT !.queue_current_msg = 0]
  OBVIOUS
<1>8. Q4 = NodeFields([next EXCEPT ![write] = free], x, read, read, write, 0)
  BY <1>7, <1>6 DEF NodeFields
<1>9. PICK Q5 : Q5 = [Q4 EXCEPT !.read = Null]
  OBVIOUS
<1>10. Q5 = NodeFields([next EXCEPT ![write] = free], x, read, Null, write, 0)
  BY <1>9, <1>8 DEF NodeFields
<1>11. DropAll(Q, x) = [Q5 EXCEPT !.write = Null]
  BY <1>0, <1>1, <1>3, <1>5, <1>7, <1>9 DEF DropAll
<1> QED
  BY <1>q, <1>10, <1>11 DEF NodeFields, Upd

LEMMA NodeIntro ==
  ASSUME NEW n, NEW next \in [1 .. n -> NodeOrNull(n)], NEW ptr \in [1 .. n -> Msg \cup {NoMsg}],
         NEW free \in NodeOrNull(n), NEW read \in NodeOrNull(n), NEW write \in NodeOrNull(n),
         NEW c \in 0 .. n, NEW p, Linked(next, free, read, write, c, n, p)
  PROVE  HasNodes(NodeFields(next, ptr, free, read, write, c), n)
<1>1. PICK Q : Q = NodeFields(next, ptr, free, read, write, c)
  OBVIOUS
<1>2. /\ Q.next = next /\ Q.free_msg = free /\ Q.read = read /\ Q.write = write
      /\ Q.queue_current_msg = c /\ Q \in NodeRecord(n)
  BY <1>1 DEF NodeFields, NodeRecord
<1> QED
  BY <1>1, <1>2 DEF HasNodes

LEMMA NewNodes ==
  ASSUME NEW n \in Nat \ {0}
  PROVE  HasNodes(NewSizeQueue(n), n)
<1> DEFINE next == [i \in 1 .. n |-> IF i = n THEN Null ELSE i + 1]
           ptr == [i \in 1 .. n |-> NoMsg]
           p == [i \in 1 .. n |-> i]
<1>1. /\ next \in [1 .. n -> NodeOrNull(n)] /\ ptr \in [1 .. n -> Msg \cup {NoMsg}]
      /\ 1 \in NodeOrNull(n) /\ Null \in NodeOrNull(n) /\ 0 \in 0 .. n
  BY DEF NodeOrNull
<1>2. IsOrder(p, n)
  BY DEF IsOrder
<1>3. /\ \A i \in 1 .. n - 1 : next[p[i]] = p[i + 1]
      /\ next[p[n]] = Null /\ (1 = IF 0 = n THEN Null ELSE p[0 + 1]) /\ ~ (0 > 0)
  OBVIOUS
<1>4. NewSizeQueue(n) = NodeFields(next, ptr, 1, Null, Null, 0)
  BY DEF NewSizeQueue, NodeFields
<1> HIDE DEF next, ptr, p
<1>5. Linked(next, 1, Null, Null, 0, n, p)
  BY <1>2, <1>3 DEF Linked
<1> QED
  BY <1>1, <1>4, <1>5, NodeIntro

\* A message is stored in the first free node.
LEMMA StoreNode ==
  ASSUME NEW n \in Nat \ {0}, NEW Q0, HasNodes(Q0, n), Q0.queue_current_msg < n, NEW m \in Msg
  PROVE  LET Q == TakeNode(Q0, Q0.free_msg, m)
         IN  /\ Q0.queue_current_msg = 0 => HasNodes(StoreOnly(Q, Q0.free_msg), n)
             /\ Q0.queue_current_msg # 0 => /\ HasNodes(append_node(Q, Q0.free_msg), n)
                                            /\ HasNodes(prepend_node(Q, Q0.free_msg), n)
<1>1. PICK next \in [1 .. n -> NodeOrNull(n)], ptr \in [1 .. n -> Msg \cup {NoMsg}],
           free \in NodeOrNull(n), read \in NodeOrNull(n), write \in NodeOrNull(n),
           c \in 0 .. n :
             Q0 = NodeFields(next, ptr, free, read, write, c)
               /\ \E p : Linked(next, free, read, write, c, n, p)
  BY NodeForm
<1>2. PICK p : Linked(next, free, read, write, c, n, p)
  BY <1>1
<1>3. PICK ptr1, d, y : ptr1 = Upd(ptr, free, m) /\ d = c + 1 /\ y = next[free]
  OBVIOUS
<1>4. Q0.free_msg = free /\ Q0.queue_current_msg = c
  BY <1>1, Fields
<1>q. PICK Q : Q = TakeNode(Q0, free, m)
  OBVIOUS
<1>5. Q = NodeFields(next, ptr1, y, read, write, d)
  BY <1>q, <1>1, <1>3, TakesNode
<1>6. c < n
  BY <1>4
<1>7. ptr1 \in [1 .. n -> Msg \cup {NoMsg}] /\ d \in 0 .. n
  <2>1. ptr1 \in [1 .. n -> Msg \cup {NoMsg}]
    BY <1>3 DEF Upd
  <2>2. d \in 0 .. n
    BY <1>3, <1>6
  <2> QED
    BY <2>1, <2>2
<1>8. ASSUME c = 0
      PROVE  HasNodes(StoreOnly(Q, free), n)
  <2>1. d = 1
    BY <1>3, <1>8
  <2>2. free \in 1 .. n /\ Linked(next, y, free, free, d, n, p)
    BY <1>2, <1>3, <1>8, <2>1, StoreFirst
  <2>3. y \in NodeOrNull(n)
    BY <1>3, <2>2
  <2>4. StoreOnly(Q, free) = NodeFields(next, ptr1, y, free, free, d)
    BY <1>5, StoresOnly
  <2>5. HasNodes(NodeFields(next, ptr1, y, free, free, d), n)
    BY <1>7, <2>2, <2>3, NodeIntro
  <2> QED
    BY <2>4, <2>5
<1>9. ASSUME c # 0
      PROVE  HasNodes(append_node(Q, free), n) /\ HasNodes(prepend_node(Q, free), n)
  <2>1. c \in 1 .. n - 1
    BY <1>6, <1>9
  <2>2. PICK next1, next2 : /\ next1 = Upd(Upd(next, write, free), free, Null)
                            /\ next2 = Upd(next, free, read)
    OBVIOUS
  <2>3. free \in 1 .. n /\ write \in 1 .. n /\ Linked(next1, y, read, free, d, n, p)
    BY <1>2, <1>3, <2>1, <2>2, StoreLast DEF Upd
  <2>4. read \in 1 .. n /\ \E p1 : Linked(next2, y, free, write, d, n, p1)
    BY <1>2, <1>3, <2>1, <2>2, StoreAtFront DEF Upd
  <2>5. PICK p1 : Linked(next2, y, free, write, d, n, p1)
    BY <2>4
  <2>6. y \in NodeOrNull(n)
    BY <1>3, <2>3
  <2>7. Null \in NodeOrNull(n)
    BY DEF NodeOrNull
  <2>8. next1 \in [1 .. n -> NodeOrNull(n)]
    BY <2>2, <2>3, <2>7 DEF Upd
  <2>9. next2 \in [1 .. n -> NodeOrNull(n)]
    BY <2>2, <2>4 DEF Upd
  <2>10. append_node(Q, free) = NodeFields(next1, ptr1, y, read, free, d)
    BY <1>5, <2>2, Appends
  <2>11. prepend_node(Q, free) = NodeFields(next2, ptr1, y, free, write, d)
    BY <1>5, <2>2, Prepends
  <2>12. HasNodes(NodeFields(next1, ptr1, y, read, free, d), n)
    BY <1>7, <2>3, <2>6, <2>8, NodeIntro
  <2>13. HasNodes(NodeFields(next2, ptr1, y, free, write, d), n)
    BY <1>7, <2>5, <2>6, <2>9, NodeIntro
  <2> QED
    BY <2>10, <2>11, <2>12, <2>13
<1> QED
  BY <1>q, <1>4, <1>8, <1>9

\* The first message is received: its node is free again.
LEMMA ReceiveNode ==
  ASSUME NEW n \in Nat \ {0}, Null \notin 1 .. n, NEW Q0, HasNodes(Q0, n),
         Q0.queue_current_msg > 0
  PROVE  LET y == Q0.next[Q0.read]
         IN  /\ y # Null => HasNodes(free_node(ReadNext(Q0, y), Q0.read), n)
             /\ y = Null => HasNodes(free_node(ReadLast(Q0), Q0.read), n)
<1>1. PICK next \in [1 .. n -> NodeOrNull(n)], ptr \in [1 .. n -> Msg \cup {NoMsg}],
           free \in NodeOrNull(n), read \in NodeOrNull(n), write \in NodeOrNull(n),
           c \in 0 .. n :
             Q0 = NodeFields(next, ptr, free, read, write, c)
               /\ \E p : Linked(next, free, read, write, c, n, p)
  BY NodeForm
<1>2. PICK p : Linked(next, free, read, write, c, n, p)
  BY <1>1
<1>3. Q0.read = read /\ Q0.queue_current_msg = c /\ Q0.next = next
  BY <1>1, Fields
<1>4. c \in 1 .. n
  BY <1>3
<1>5. PICK ptr1, next1, d, y : /\ ptr1 = Upd(ptr, read, NoMsg) /\ next1 = Upd(next, read, free)
                               /\ d = c - 1 /\ y = next[read]
  OBVIOUS
<1>6. /\ read \in 1 .. n /\ (y = Null => c = 1)
      /\ c = 1 => \A r, w : Linked(next1, read, r, w, 0, n, p)
      /\ c > 1 => \E p1 : Linked(next1, read, y, write, d, n, p1)
  <2>2. /\ read \in 1 .. n /\ (next[read] = Null => c = 1)
        /\ c = 1 => \A r, w : Linked(next1, read, r, w, 0, n, p)
        /\ c > 1 => \E p1 : Linked(next1, read, next[read], write, c - 1, n, p1)
    <3>1. FirstTaken(next, free, read, write, c, n, p)
      BY <1>2, <1>4, TakeFirstNode
    <3> QED
      BY <1>5, <3>1 DEF FirstTaken
  <2> QED
    BY <1>5, <2>2
<1>7. ptr1 \in [1 .. n -> Msg \cup {NoMsg}]
  BY <1>5 DEF Upd
<1>8. next1 \in [1 .. n -> NodeOrNull(n)]
  BY <1>5 DEF Upd
<1>9. y \in NodeOrNull(n) /\ Null \in NodeOrNull(n)
  BY <1>5, <1>6 DEF NodeOrNull
<1>10. d \in 0 .. n /\ 0 \in 0 .. n
  BY <1>4, <1>5
<1>11. ASSUME y = Null
       PROVE  HasNodes(free_node(ReadLast(Q0), read), n)
  <2>1. ReadLast(Q0) = NodeFields(next, ptr, free, Null, Null, 0)
    BY <1>1, ReadsLast
  <2>2. free_node(NodeFields(next, ptr, free, Null, Null, 0), read)
          = NodeFields(next1, ptr1, read, Null, Null, 0)
    BY <1>5, FreesNode
  <2>3. Linked(next1, read, Null, Null, 0, n, p)
    BY <1>6, <1>11
  <2>4. HasNodes(NodeFields(next1, ptr1, read, Null, Null, 0), n)
    BY <1>7, <1>8, <1>9, <1>10, <2>3, NodeIntro
  <2> QED
    BY <2>1, <2>2, <2>4
<1>12. HasNodes(free_node(ReadNext(Q0, y), read), n)
  <2>1. ReadNext(Q0, y) = NodeFields(next, ptr, free, y, write, d)
    BY <1>1, <1>5, ReadsNext
  <2>2. free_node(NodeFields(next, ptr, free, y, write, d), read)
          = NodeFields(next1, ptr1, read, y, write, d)
    BY <1>5, FreesNode
  <2>3. CASE c = 1
    <3>1. d = 0
      BY <1>5, <2>3
    <3>2. Linked(next1, read, y, write, d, n, p)
      BY <1>6, <2>3, <3>1
    <3>3. HasNodes(NodeFields(next1, ptr1, read, y, write, d), n)
      BY <1>7, <1>8, <1>9, <1>10, <3>2, NodeIntro
    <3> QED
      BY <2>1, <2>2, <3>3
  <2>4. CASE c # 1
    <3>1. c > 1
      BY <1>4, <2>4
    <3>2. PICK p1 : Linked(next1, read, y, write, d, n, p1)
      BY <1>6, <3>1
    <3>3. HasNodes(NodeFields(next1, ptr1, read, y, write, d), n)
      BY <1>7, <1>8, <1>9, <1>10, <3>2, NodeIntro
    <3> QED
      BY <2>1, <2>2, <3>3
  <2> QED
    BY <2>3, <2>4
<1> QED
  BY <1>3, <1>5, <1>11, <1>12

LEMMA FlushNodes ==
  ASSUME NEW n \in Nat \ {0}, NEW Q, HasNodes(Q, n), Q.queue_current_msg # 0,
         NEW ptr1 \in [1 .. n -> Msg \cup {NoMsg}]
  PROVE  HasNodes(DropAll(Q, ptr1), n)
<1>1. PICK next \in [1 .. n -> NodeOrNull(n)], ptr \in [1 .. n -> Msg \cup {NoMsg}],
           free \in NodeOrNull(n), read \in NodeOrNull(n), write \in NodeOrNull(n),
           c \in 0 .. n :
             Q = NodeFields(next, ptr, free, read, write, c)
               /\ \E p : Linked(next, free, read, write, c, n, p)
  BY NodeForm
<1>2. PICK p : Linked(next, free, read, write, c, n, p)
  BY <1>1
<1>3. c \in 1 .. n
  BY <1>1, Fields
<1>4. PICK next1 : next1 = Upd(next, write, free)
  OBVIOUS
<1>5. DropAll(Q, ptr1) = NodeFields(next1, ptr1, read, Null, Null, 0)
  BY <1>1, <1>4, Flushes
<1>6. write \in 1 .. n /\ read \in 1 .. n /\ Linked(next1, read, Null, Null, 0, n, p)
  BY <1>2, <1>3, <1>4, DropNodes DEF Upd
<1>7. next1 \in [1 .. n -> NodeOrNull(n)]
  BY <1>4, <1>6 DEF Upd
<1>8. Null \in NodeOrNull(n) /\ 0 \in 0 .. n
  BY DEF NodeOrNull
<1>9. HasNodes(NodeFields(next1, ptr1, read, Null, Null, 0), n)
  BY <1>6, <1>7, <1>8, NodeIntro
<1> QED
  BY <1>5, <1>9

LEMMA NodesStep ==
  ASSUME NodesInv, NEW q \in SizeQueue, NEW R, size_q' = [size_q EXCEPT ![q] = R],
         HasNodes(R, QSize[q])
  PROVE  NodesInv'
<1>1. size_q' = [x \in SizeQueue |-> IF x = q THEN R ELSE size_q[x]]
  BY DEF NodesInv
<1>2. size_q' = [x \in SizeQueue |-> size_q'[x]]
  BY <1>1
<1>3. \A x \in SizeQueue : HasNodes(size_q'[x], QSize[x])
  BY <1>1 DEF NodesInv
<1> QED
  BY <1>2, <1>3 DEF NodesInv

LEMMA NodesKept ==
  ASSUME NodesInv, size_q' = size_q
  PROVE  NodesInv'
BY DEF NodesInv

LEMMA SizeQueueOpInv ==
  ASSUME TaskInv, NoneForDead, NodesInv, NEW q \in SizeQueue, SizeQueueOp(q)
  PROVE  Base(q) /\ NodesInv'
<1>0. /\ q \in IpcObj /\ q \in Obj /\ QSize[q] \in Nat \ {0} /\ Null \notin 1 .. QSize[q]
      /\ HasNodes(size_q[q], QSize[q]) /\ size_q[q].queue_current_msg \in 0 .. QSize[q]
  <2>1. q \in IpcObj /\ q \in Obj /\ QSize[q] \in Nat \ {0} /\ Null \notin 1 .. QSize[q]
    BY IpcObjects, QueueSizeAssumption, MsgAssumption DEF IpcObj
  <2>2. HasNodes(size_q[q], QSize[q])
    BY DEF NodesInv
  <2>3. size_q[q].queue_current_msg \in 0 .. QSize[q]
    BY <2>2 DEF HasNodes, NodeRecord
  <2> QED
    BY <2>1, <2>2, <2>3
<1>a. PICK n, Q : n = QSize[q] /\ Q = size_q[q]
  OBVIOUS
<1>b. /\ n \in Nat \ {0} /\ Null \notin 1 .. n /\ HasNodes(Q, n) /\ Q.queue_current_msg \in 0 .. n
  BY <1>0, <1>a
<1>c. ASSUME NEW R, HasNodes(R, n), size_q' = [size_q EXCEPT ![q] = R] PROVE NodesInv'
  BY <1>a, <1>c, NodesStep
<1>n. HasNodes(NewSizeQueue(n), n)
  BY <1>b, NewNodes
<1>1. CASE raw_queue_size_create(q)
  <2>1. Base(q) /\ size_q' = [size_q EXCEPT ![q] = NewSizeQueue(n)]
    BY <1>0, <1>1, <1>a, CreateBase DEF raw_queue_size_create
  <2> QED
    BY <2>1, <1>n, <1>c
<1>2. ASSUME NEW m \in Msg, msg_size_post_store(q, m) PROVE Base(q) /\ NodesInv'
  <2>1. Base(q)
    BY <1>0, <1>2, DataBase DEF msg_size_post_store
  <2>2. PICK x, T : x = Q.free_msg /\ T = TakeNode(Q, x, m)
    OBVIOUS
  <2>3. T = [size_q[q] EXCEPT !.free_msg = size_q[q].next[x], !.msg_ptr[x] = m,
                              !.queue_current_msg = @ + 1]
    BY <2>2, <1>a, Zenon DEF TakeNode
  <2>4. PICK R : /\ size_q' = [size_q EXCEPT ![q] = R]
                 /\ R \in IF Q.queue_current_msg = 0 THEN {StoreOnly(T, x)}
                          ELSE {append_node(T, x), prepend_node(T, x)}
    BY <1>2, <1>a, <2>2, <2>3, Zenon DEF msg_size_post_store, StoreOnly
  <2>5. Q.queue_current_msg < n
    <3>1. ~ (Q.queue_current_msg >= n)
      BY <1>2, <1>a DEF msg_size_post_store, SizeQueueFull
    <3> QED
      BY <3>1, <1>b
  <2>6. /\ Q.queue_current_msg = 0 => HasNodes(StoreOnly(T, x), n)
        /\ Q.queue_current_msg # 0 => HasNodes(append_node(T, x), n) /\ HasNodes(prepend_node(T, x), n)
    BY <1>b, <2>2, <2>5, StoreNode
  <2>7. HasNodes(R, n)
    BY <2>4, <2>6
  <2> QED
    BY <2>1, <2>4, <2>7, <1>c
<1>3. ASSUME NEW m \in Msg, NEW all \in BOOLEAN, msg_size_post_send(q, m, all)
      PROVE  Base(q) /\ NodesInv'
  BY <1>0, <1>3, SendBase, NodesKept DEF msg_size_post_send
<1>4. CASE queue_size_receive(q)
  <2>1. Base(q) /\ Q.queue_current_msg > 0
    BY <1>0, <1>4, <1>a, DataBase DEF queue_size_receive
  <2>2. PICK x, y : x = Q.read /\ y = Q.next[x]
    OBVIOUS
  <2>3. PICK R1, R2 : /\ R1 = ReadNext(Q, y)
                      /\ R2 = ReadLast(Q)
    OBVIOUS
  <2>4. size_q' = [size_q EXCEPT ![q] = free_node(IF y # Null THEN R1 ELSE R2, x)]
    <3>1. /\ R1 = [size_q[q] EXCEPT !.read = y, !.queue_current_msg = @ - 1]
          /\ R2 = [size_q[q] EXCEPT !.read = Null, !.write = Null, !.queue_current_msg = 0]
      BY <1>a, <2>3, Zenon DEF ReadNext, ReadLast
    <3> QED
      BY <1>4, <1>a, <2>2, <3>1, Zenon DEF queue_size_receive
  <2>5. y # Null => HasNodes(free_node(R1, x), n)
    BY <1>b, <2>1, <2>2, <2>3, ReceiveNode
  <2>6. y = Null => HasNodes(free_node(R2, x), n)
    BY <1>b, <2>1, <2>2, <2>3, ReceiveNode
  <2>7. HasNodes(free_node(IF y # Null THEN R1 ELSE R2, x), n)
    BY <2>5, <2>6
  <2> QED
    BY <2>1, <2>4, <2>7, <1>c
<1>5. ASSUME NEW timeout \in Timeouts, raw_queue_size_receive(q, timeout)
      PROVE  Base(q) /\ NodesInv'
  BY <1>0, <1>5, QueueWaitBase, NodesKept DEF raw_queue_size_receive
<1>6. CASE raw_queue_size_flush(q)
  <2>1. Base(q)
    BY <1>0, <1>6, DataBase DEF raw_queue_size_flush
  <2>2. CASE Q.queue_current_msg = 0
    <3>1. size_q' = size_q
      BY <1>6, <1>a, <2>2 DEF raw_queue_size_flush
    <3> QED
      BY <2>1, <3>1, NodesKept
  <2>3. CASE Q.queue_current_msg # 0
    <3>1. PICK ptr : ptr = [i \in 1 .. n |-> NoMsg]
      OBVIOUS
    <3>2. ptr \in [1 .. n -> Msg \cup {NoMsg}]
      BY <3>1
    <3>3. HasNodes(DropAll(Q, ptr), n)
      BY <1>b, <2>3, <3>2, FlushNodes
    <3>4. size_q' = [size_q EXCEPT ![q] = DropAll(Q, ptr)]
      BY <1>6, <1>a, <2>3, <3>1, Zenon DEF raw_queue_size_flush, DropAll
    <3> QED
      BY <2>1, <3>3, <3>4, <1>c
  <2> QED
    BY <2>2, <2>3
<1>7. CASE raw_queue_size_delete(q)
  <2>1. Base(q) /\ size_q' = [size_q EXCEPT ![q] = NewSizeQueue(n)]
    BY <1>0, <1>7, <1>a, QueueDeleteBase DEF raw_queue_size_delete
  <2> QED
    BY <2>1, <1>n, <1>c
<1> QED
  BY <1>1, <1>2, <1>3, <1>4, <1>5, <1>6, <1>7 DEF SizeQueueOp

\* The next pointers lead along s, and the one after it, if there is room for more, is
\* null: s is the list of the nodes from first on.
Chain(Q, first, n, l, s) ==
  /\ l > 0 => first = s[1]
  /\ l = 0 => first = Null \/ n = 0
  /\ \A i \in 1 .. l - 1 : Q.next[s[i]] = s[i + 1]
  /\ l > 0 /\ l < n => Q.next[s[l]] = Null

LEMMA NodesOf ==
  ASSUME NEW Q, NEW first, NEW n \in Nat, NEW l \in 0 .. n, NEW S, Null \notin S,
         NEW s \in [1 .. l -> S], Chain(Q, first, n, l, s)
  PROVE  nodes(Q, first, n) = s
<1>c. /\ l > 0 => first = s[1]
      /\ l = 0 => first = Null \/ n = 0
      /\ \A i \in 1 .. l - 1 : Q.next[s[i]] = s[i + 1]
      /\ l > 0 /\ l < n => Q.next[s[l]] = Null
  BY DEF Chain
<1> DEFINE g == [i \in 1 .. n |-> IF i <= l THEN s[i] ELSE Null]
           Steps(F) == F = [i \in 1 .. n |-> IF i = 1 THEN first
                                             ELSE IF F[i - 1] = Null THEN Null ELSE Q.next[F[i - 1]]]
<1>1. \A i \in 1 .. n : g[i] = IF i <= l THEN s[i] ELSE Null
  OBVIOUS
<1>2. \A i \in 1 .. l : s[i] # Null
  OBVIOUS
<1>3. ASSUME NEW i \in 1 .. n
      PROVE  g[i] = IF i = 1 THEN first ELSE IF g[i - 1] = Null THEN Null ELSE Q.next[g[i - 1]]
  <2> HIDE DEF g
  <2>1. CASE i = 1
    BY <1>c, <1>1, <2>1
  <2>2. CASE i # 1
    <3>1. i - 1 \in 1 .. n /\ (i - 1) + 1 = i
      BY <2>2
    <3>2. CASE i <= l
      <4>1. g[i] = s[i] /\ g[i - 1] = s[i - 1] /\ s[i - 1] # Null /\ Q.next[s[i - 1]] = s[i]
        <5>1. i - 1 \in 1 .. l - 1 /\ i - 1 \in 1 .. l /\ i - 1 <= l
          BY <2>2, <3>2
        <5> QED
          BY <1>c, <1>1, <1>2, <3>1, <3>2, <5>1
      <4> QED
        BY <2>2, <4>1
    <3>3. CASE i = l + 1
      <4>1. g[i] = Null /\ g[i - 1] = s[l] /\ Q.next[s[l]] = Null
        BY <1>c, <1>1, <2>2, <3>1, <3>3
      <4> QED
        BY <2>2, <4>1
    <3>4. CASE i > l + 1
      <4>1. g[i] = Null /\ g[i - 1] = Null
        <5>1. ~ (i <= l) /\ ~ (i - 1 <= l)
          BY <3>4
        <5> QED
          BY <1>1, <3>1, <5>1
      <4> QED
        BY <2>2, <4>1
    <3> QED
      BY <3>2, <3>3, <3>4
  <2> QED
    BY <2>1, <2>2
<1>4. Steps(g)
  BY <1>3
<1>5. ASSUME NEW F, Steps(F) PROVE F = g
  <2>1. \A i \in 1 .. n : F[i] = IF i = 1 THEN first
                                 ELSE IF F[i - 1] = Null THEN Null ELSE Q.next[F[i - 1]]
    BY <1>5
  <2>2. F = [i \in 1 .. n |-> F[i]]
    BY <1>5
  <2> HIDE DEF g, Steps
  <2> DEFINE Bad == {i \in 1 .. n : F[i] # g[i]}
  <2>3. ASSUME Bad # {} PROVE FALSE
    <3>1. Bad \in SUBSET Nat
      OBVIOUS
    <3>2. Min(Bad) \in Bad /\ \A i \in Bad : Min(Bad) <= i
      <4> HIDE DEF Bad
      <4> QED
        BY <2>3, <3>1, MinOfNats
    <3>3. PICK j \in 1 .. n : F[j] # g[j] /\ \A i \in 1 .. n : F[i] # g[i] => j <= i
      BY <3>2
    <3> HIDE DEF Bad
    <3>4. CASE j = 1
      BY <1>3, <2>1, <3>3, <3>4
    <3>5. CASE j # 1
      <4>1. j - 1 \in 1 .. n /\ ~ (j <= j - 1)
        BY <3>5
      <4>2. F[j - 1] = g[j - 1]
        BY <3>3, <4>1
      <4> QED
        BY <1>3, <2>1, <3>3, <3>5, <4>2
    <3> QED
      BY <3>4, <3>5
  <2>4. \A i \in 1 .. n : F[i] = g[i]
    BY <2>3
  <2>5. g = [i \in 1 .. n |-> g[i]]
    BY DEF g
  <2> QED
    BY <2>2, <2>4, <2>5
<1>6. g = CHOOSE F : F = [i \in 1 .. n |-> IF i = 1 THEN first
                                           ELSE IF F[i - 1] = Null THEN Null ELSE Q.next[F[i - 1]]]
  <2> HIDE DEF g
  <2> QED
    BY <1>4, <1>5
<1>7. nodes(Q, first, n) = SubSeq(g, 1, Cardinality({i \in 1 .. n : g[i] # Null}))
  <2> HIDE DEF g, Steps
  <2> QED
    BY <1>6, Zenon DEF nodes
<1>8. Cardinality({i \in 1 .. n : g[i] # Null}) = l
  <2>1. {i \in 1 .. n : g[i] # Null} = 1 .. l
    <3> HIDE DEF g
    <3> QED
      BY <1>1, <1>2
  <2>2. Cardinality(1 .. l) = l
    BY FS_Interval
  <2> QED
    BY <2>1, <2>2
<1>9. SubSeq(g, 1, l) = s
  <2>1. g \in Seq(S \cup {Null}) /\ Len(g) = n
    OBVIOUS
  <2> HIDE DEF g
  <2>2. SubSeq(g, 1, l) = [i \in 1 .. l |-> g[i]]
    BY <2>1
  <2>3. \A i \in 1 .. l : g[i] = s[i]
    BY <1>1
  <2> QED
    BY <2>2, <2>3
<1> HIDE DEF g
<1> QED
  BY <1>7, <1>8, <1>9

\* A sequence is what its two parts give, one behind the other.
LEMMA TwoParts ==
  ASSUME NEW n \in Nat, NEW c \in 0 .. n, NEW S, NEW p \in [1 .. n -> S]
  PROVE  LET A == [i \in 1 .. c |-> p[i]]
             B == [i \in 1 .. n - c |-> p[c + i]]
         IN  /\ A \in [1 .. c -> S] /\ B \in [1 .. n - c -> S] /\ A \o B = p
             /\ Len(A) = c /\ A \in Seq(S)
<1> DEFINE A == [i \in 1 .. c |-> p[i]]
           B == [i \in 1 .. n - c |-> p[c + i]]
<1>1. A \in [1 .. c -> S] /\ A \in Seq(S) /\ Len(A) = c
  OBVIOUS
<1>2. B \in [1 .. n - c -> S] /\ B \in Seq(S) /\ Len(B) = n - c
  <2>1. \A i \in 1 .. n - c : c + i \in 1 .. n
    OBVIOUS
  <2> QED
    BY <2>1
<1>3. A \o B = [i \in 1 .. n |-> IF i <= c THEN A[i] ELSE B[i - c]]
  <2> HIDE DEF A, B
  <2>1. c + (n - c) = n
    OBVIOUS
  <2>2. PICK C : C = A \o B
    OBVIOUS
  <2>3. A \in Seq(S) /\ B \in Seq(S)
    BY <1>1, <1>2
  <2>4. /\ C \in Seq(S) /\ Len(C) = Len(A) + Len(B)
        /\ \A i \in 1 .. Len(A) + Len(B) : C[i] = IF i <= Len(A) THEN A[i] ELSE B[i - Len(A)]
    BY <2>2, <2>3, ConcatProperties, Zenon
  <2>5. Len(A) + Len(B) = n /\ Len(A) = c
    BY <1>1, <1>2, <2>1
  <2>6. /\ C \in Seq(S) /\ Len(C) = n
        /\ \A i \in 1 .. n : C[i] = IF i <= c THEN A[i] ELSE B[i - c]
    BY <2>4, <2>5, Zenon
  <2>7. C = [i \in 1 .. n |-> C[i]]
    BY <2>6
  <2> QED
    BY <2>2, <2>6, <2>7
<1>4. \A i \in 1 .. n : (IF i <= c THEN A[i] ELSE B[i - c]) = p[i]
  <2>1. \A i \in 1 .. n : /\ i <= c => i \in 1 .. c
                          /\ ~ (i <= c) => i - c \in 1 .. n - c /\ c + (i - c) = i
    OBVIOUS
  <2> QED
    BY <2>1
<1>5. p = [i \in 1 .. n |-> p[i]]
  OBVIOUS
<1> HIDE DEF A, B
<1>6. A \o B = p
  BY <1>3, <1>4, <1>5
<1> QED
  BY <1>1, <1>2, <1>6 DEF A, B

\* Linked as they are, the stored and the free nodes are all nodes, each once.
LEMMA LinkedNodes ==
  ASSUME NEW n \in Nat \ {0}, NEW Q, HasNodes(Q, n), Null \notin 1 .. n
  PROVE  LET stored == nodes(Q, Q.read, Q.queue_current_msg)
             free   == nodes(Q, Q.free_msg, n + 1)
         IN  /\ NoDup(stored \o free)
             /\ ToSet(stored \o free) = 1 .. n
             /\ Len(stored) = Q.queue_current_msg
             /\ stored # <<>> => Last(stored) = Q.write
<1>1. PICK next \in [1 .. n -> NodeOrNull(n)], ptr \in [1 .. n -> Msg \cup {NoMsg}],
           free \in NodeOrNull(n), read \in NodeOrNull(n), write \in NodeOrNull(n),
           c \in 0 .. n :
             Q = NodeFields(next, ptr, free, read, write, c)
               /\ \E p : Linked(next, free, read, write, c, n, p)
  BY NodeForm
<1>2. PICK p : Linked(next, free, read, write, c, n, p)
  BY <1>1
<1>3. /\ Q.read = read /\ Q.queue_current_msg = c /\ Q.next = next /\ Q.free_msg = free
      /\ Q.write = write
  BY <1>1, Fields
<1>p. p \in [1 .. n -> 1 .. n]
  BY <1>2 DEF Linked, IsOrder
<1>i. /\ \A i, j \in 1 .. n : p[i] = p[j] => i = j
      /\ \A x \in 1 .. n : \E i \in 1 .. n : p[i] = x
  BY <1>2 DEF Linked, IsOrder
<1>n. \A i \in 1 .. n - 1 : i # c => next[p[i]] = p[i + 1]
  BY <1>2 DEF Linked
<1>e. /\ c < n => next[p[n]] = Null
      /\ c = n => free = Null
      /\ c # n => free = p[c + 1]
      /\ c > 0 => read = p[1] /\ write = p[c]
  BY <1>2 DEF Linked
<1> DEFINE A == [i \in 1 .. c |-> p[i]]
           B == [i \in 1 .. n - c |-> p[c + i]]
<1>4. /\ A \in [1 .. c -> 1 .. n] /\ B \in [1 .. n - c -> 1 .. n] /\ A \o B = p
      /\ Len(A) = c /\ A \in Seq(1 .. n)
  BY <1>p, TwoParts
<1>a. \A i \in 1 .. c : A[i] = p[i]
  OBVIOUS
<1>b. \A i \in 1 .. n - c : B[i] = p[c + i]
  OBVIOUS
<1> HIDE DEF A, B
<1>5. nodes(Q, read, c) = A
  <2>1. (c > 0 => read = A[1]) /\ (c = 0 => read = Null \/ c = 0) /\ ~ (c < c)
    BY <1>e, <1>a
  <2>2. ASSUME NEW i \in 1 .. c - 1 PROVE next[A[i]] = A[i + 1]
    <3>1. /\ i \in 1 .. n - 1 /\ i # c
          /\ i \in 1 .. c /\ i + 1 \in 1 .. c
      OBVIOUS
    <3> QED
      BY <1>n, <1>a, <3>1
  <2>3. c \in Nat /\ c \in 0 .. c
    OBVIOUS
  <2>4. Chain(Q, read, c, c, A)
    BY <1>3, <2>1, <2>2 DEF Chain
  <2> QED
    BY <1>4, <2>3, <2>4, NodesOf
<1>6. nodes(Q, free, n + 1) = B
  <2> DEFINE l == n - c
  <2>1. n + 1 \in Nat /\ l \in 0 .. n + 1
    OBVIOUS
  <2>2. (l > 0 => free = B[1]) /\ (l = 0 => free = Null)
    BY <1>e, <1>b
  <2>3. ASSUME NEW i \in 1 .. l - 1 PROVE next[B[i]] = B[i + 1]
    <3>1. /\ c + i \in 1 .. n - 1 /\ c + i # c /\ (c + i) + 1 = c + (i + 1)
          /\ i \in 1 .. n - c /\ i + 1 \in 1 .. n - c
      OBVIOUS
    <3> QED
      BY <1>n, <1>b, <3>1
  <2>4. l > 0 => next[B[l]] = Null
    <3>1. l > 0 => c < n /\ l \in 1 .. n - c /\ c + l = n
      OBVIOUS
    <3> QED
      BY <1>e, <1>b, <3>1
  <2>5. B \in [1 .. l -> 1 .. n]
    BY <1>4
  <2> HIDE DEF l
  <2>6. Chain(Q, free, n + 1, l, B)
    BY <1>3, <2>2, <2>3, <2>4 DEF Chain
  <2> QED
    BY <2>1, <2>5, <2>6, NodesOf
<1>7. NoDup(p) /\ ToSet(p) = 1 .. n
  <2>1. DOMAIN p = 1 .. n
    BY <1>p
  <2>2. NoDup(p)
    BY <2>1, <1>i DEF NoDup
  <2>3. \A i \in 1 .. n : p[i] \in 1 .. n
    BY <1>p
  <2>4. ToSet(p) = {p[i] : i \in 1 .. n}
    BY <2>1 DEF ToSet
  <2>5. ToSet(p) \subseteq 1 .. n
    BY <2>3, <2>4
  <2>6. \A x \in 1 .. n : \E i \in 1 .. n : p[i] = x
    BY <1>i
  <2>7. 1 .. n \subseteq ToSet(p)
    BY <2>4, <2>6, Zenon
  <2> QED
    BY <2>2, <2>5, <2>7, Zenon
<1>8. Len(A) = c /\ (A # <<>> => Last(A) = write)
  <2>1. A # <<>> => c > 0
    BY <1>4
  <2>2. c > 0 => A[c] = write
    BY <1>e, <1>a
  <2> QED
    BY <1>4, <2>1, <2>2 DEF Last
<1> QED
  BY <1>3, <1>4, <1>5, <1>6, <1>7, <1>8

LEMMA NodesInvOK ==
  ASSUME NodesInv
  PROVE  NodesOK
<1> SUFFICES ASSUME NEW q \in SizeQueue
             PROVE  LET stored == stored_nodes(q)
                        free   == free_nodes(q)
                    IN  /\ NoDup(stored \o free)
                        /\ ToSet(stored \o free) = 1 .. QSize[q]
                        /\ Len(stored) = size_q[q].queue_current_msg
                        /\ stored # <<>> => Last(stored) = size_q[q].write
  BY DEF NodesOK
<1>1. PICK n, Q : n = QSize[q] /\ Q = size_q[q]
  OBVIOUS
<1>2. n \in Nat \ {0} /\ Null \notin 1 .. n /\ HasNodes(Q, n)
  BY <1>1, IpcObjects, QueueSizeAssumption DEF NodesInv
<1>3. stored_nodes(q) = nodes(Q, Q.read, Q.queue_current_msg) /\ free_nodes(q) = nodes(Q, Q.free_msg, n + 1)
  BY <1>1 DEF stored_nodes, free_nodes
<1> QED
  BY <1>1, <1>2, <1>3, LinkedNodes

-----------------------------------------------------------------------------
(* Byte queues.  A place is named by its distance from head: around(h, d, B)  *)
(* is the place d bytes behind h in a buffer of B bytes.                     *)

around(h, d, B) == IF h + d < B THEN h + d ELSE h + d - B

Mult(x) == \E i \in Nat : x = i * HeaderSz

LEMMA Header == HeaderSz \in Nat \ {0}
BY BufQueueAssumption

LEMMA MultSum ==
  ASSUME NEW x, NEW y, Mult(x), Mult(y)
  PROVE  x \in Nat /\ Mult(x + y) /\ (y <= x => Mult(x - y)) /\ (y < x => y + HeaderSz <= x)
<1>1. PICK i \in Nat, j \in Nat : x = i * HeaderSz /\ y = j * HeaderSz
  BY DEF Mult
<1>2. PICK h \in Nat \ {0} : h = HeaderSz
  BY Header
<1>3. x = i * h /\ y = j * h /\ x \in Nat /\ y \in Nat
  BY <1>1, <1>2
<1>4. i + j \in Nat /\ x + y = (i + j) * h
  BY <1>3
<1>5. Mult(x + y)
  BY <1>2, <1>4 DEF Mult
<1>6. ASSUME y <= x PROVE Mult(x - y)
  <2>1. j <= i
    <3>1. SUFFICES ASSUME i < j PROVE FALSE
      OBVIOUS
    <3>2. PICK l \in Nat : j = i + 1 + l
      <4>1. j - i - 1 \in Nat /\ j = i + 1 + (j - i - 1)
        BY <3>1
      <4> QED
        BY <4>1
    <3>3. y = x + h + l * h /\ l * h \in Nat
      BY <1>3, <3>2
    <3> QED
      BY <1>3, <1>6, <3>3
  <2>2. i - j \in Nat /\ x - y = (i - j) * h
    BY <1>3, <2>1
  <2> QED
    BY <1>2, <2>2 DEF Mult
<1>7. ASSUME y < x PROVE y + h <= x
  <2>1. j < i
    <3>1. SUFFICES ASSUME i <= j PROVE FALSE
      OBVIOUS
    <3>2. PICK l \in Nat : j = i + l
      <4>1. j - i \in Nat /\ j = i + (j - i)
        BY <3>1
      <4> QED
        BY <4>1
    <3>3. y = x + l * h /\ l * h \in Nat
      BY <1>3, <3>2
    <3> QED
      BY <1>3, <1>7, <3>3
  <2>2. PICK l \in Nat : i = j + 1 + l
    <3>1. i - j - 1 \in Nat /\ i = j + 1 + (i - j - 1)
      BY <2>1
    <3> QED
      BY <3>1
  <2>3. x = y + h + l * h /\ l * h \in Nat
    BY <1>3, <2>2
  <2> QED
    BY <1>3, <2>3
<1> QED
  BY <1>2, <1>3, <1>5, <1>6, <1>7

LEMMA MultZero == Mult(0) /\ Mult(HeaderSz)
<1>1. PICK h \in Nat \ {0} : h = HeaderSz
  BY Header
<1>2. 0 = 0 * h /\ h = 1 * h
  OBVIOUS
<1> QED
  BY <1>1, <1>2 DEF Mult

LEMMA MultSize ==
  ASSUME NEW q \in BufQueue
  PROVE  Mult(BufSize[q]) /\ BufSize[q] \in Nat \ {0}
<1>1. PICK b, h : b = BufSize[q] /\ h = HeaderSz
  OBVIOUS
<1>2. h \in Nat \ {0} /\ b \in Nat \ {0} /\ b % h = 0
  BY <1>1, BufQueueAssumption
<1>3. b \div h \in Nat /\ b = (b \div h) * h
  BY <1>2
<1> QED
  BY <1>1, <1>2, <1>3 DEF Mult

\* Round is the next multiple.
LEMMA RoundFacts ==
  ASSUME NEW n \in Nat
  PROVE  Mult(Round(n)) /\ Round(n) \in Nat /\ n <= Round(n) /\ Round(n) < n + HeaderSz
<1>1. PICK h \in Nat \ {0} : h = HeaderSz
  BY Header
<1>2. PICK x \in Nat : x = n + h - 1
  OBVIOUS
<1>3. PICK i : i = x \div h
  OBVIOUS
<1>4. i \in Nat /\ i * h \in Nat /\ i * h <= x /\ x < i * h + h
  BY <1>3
<1>5. Round(n) = i * h
  BY <1>1, <1>2, <1>3 DEF Round
<1>6. n <= i * h /\ i * h < n + h
  BY <1>2, <1>4
<1> QED
  BY <1>1, <1>4, <1>5, <1>6 DEF Mult

LEMMA RoundIs ==
  ASSUME NEW n \in Nat, NEW r, Mult(r), n <= r, r < n + HeaderSz
  PROVE  Round(n) = r
<1>1. PICK R, h : R = Round(n) /\ h = HeaderSz
  OBVIOUS
<1>2. Mult(R) /\ R \in Nat /\ n <= R /\ R < n + h /\ h \in Nat /\ r \in Nat
  BY <1>1, RoundFacts, Header, MultSum
<1>3. (R < r => R + h <= r) /\ (r < R => r + h <= R)
  BY <1>1, <1>2, MultSum
<1> QED
  BY <1>1, <1>2, <1>3

LEMMA RoundUpTo ==
  ASSUME NEW n \in Nat, NEW x, Mult(x)
  PROVE  /\ x \in Nat
         /\ n <= x => Round(n) <= x
         /\ x < n => Round(n - x) = Round(n) - x
<1>1. PICK R, h : R = Round(n) /\ h = HeaderSz
  OBVIOUS
<1>2. Mult(R) /\ R \in Nat /\ n <= R /\ R < n + h /\ h \in Nat /\ x \in Nat
  BY <1>1, RoundFacts, Header, MultSum
<1>3. x < R => x + h <= R
  BY <1>1, <1>2, MultSum
<1>4. n <= x => R <= x
  BY <1>2, <1>3
<1>5. ASSUME x < n PROVE Round(n - x) = R - x
  <2>1. PICK y, r : y = n - x /\ r = R - x
    OBVIOUS
  <2>2. y \in Nat /\ y <= r /\ r < y + h /\ x <= R
    BY <1>2, <1>5, <2>1
  <2>3. Mult(r)
    BY <1>2, <2>1, <2>2, MultSum
  <2> QED
    BY <1>1, <2>1, <2>2, <2>3, RoundIs
<1> QED
  BY <1>1, <1>2, <1>4, <1>5

LEMMA AroundFacts ==
  ASSUME NEW B \in Nat \ {0}, NEW h \in 0 .. B - 1, NEW d \in 0 .. B
  PROVE  /\ around(h, d, B) \in 0 .. B - 1
         /\ around(h, 0, B) = h
BY DEF around

LEMMA AroundOnce ==
  ASSUME NEW B \in Nat \ {0}, NEW h \in 0 .. B - 1, NEW d \in 0 .. B - 1, NEW e \in 0 .. B - 1,
         around(h, d, B) = around(h, e, B)
  PROVE  d = e
BY DEF around

LEMMA AroundTwice ==
  ASSUME NEW B \in Nat \ {0}, NEW h \in 0 .. B - 1, NEW d \in 0 .. B, NEW e \in Nat, d + e <= B
  PROVE  around(around(h, d, B), e, B) = around(h, d + e, B)
BY DEF around

\* The mod of the model is around.
LEMMA AroundMod ==
  ASSUME NEW B \in Nat \ {0}, NEW h \in 0 .. B - 1, NEW d \in 0 .. B
  PROVE  (h + d) % B = around(h, d, B)
BY RingPlace DEF around

\* Where a message of n bytes behind a header at h lies, and where it ends.
LEMMA Places ==
  ASSUME NEW B \in Nat \ {0}, Mult(B), NEW h \in 0 .. B - 1, Mult(h), NEW n \in Nat,
         HeaderSz + n <= B, NEW Q, Q.bufsz = B
  PROVE  /\ \A i \in 1 .. n : place(Q, h, i) = around(h, HeaderSz + i - 1, B)
         /\ end_of_message(Q, h, n) = around(h, HeaderSz + Round(n), B)
         /\ HeaderSz + Round(n) <= B
<1>1. PICK z, r : z = HeaderSz /\ r = Round(n)
  OBVIOUS
<1>2. z \in Nat \ {0} /\ Mult(z) /\ r \in Nat /\ Mult(r) /\ n <= r /\ r < n + z
  BY <1>1, Header, MultZero, RoundFacts
<1>3. z <= B /\ h + z <= B
  <2>1. h < B => h + z <= B
    BY <1>1, MultSum
  <2> QED
    BY <1>1, <1>2, <2>1
<1>4. PICK body : body = around(h, z, B)
  OBVIOUS
<1>5. /\ body = IF h + z = B THEN 0 ELSE h + z
      /\ body \in 0 .. B - 1
  BY <1>2, <1>3, <1>4 DEF around
<1>6. Mult(body)
  <2>1. Mult(h + z) /\ Mult(0)
    BY <1>2, MultSum, MultZero
  <2> QED
    BY <1>5, <2>1
<1>7. wrap(Q, h + z) = body
  BY <1>2, <1>3, <1>5 DEF wrap
<1>8. z + r <= B
  <2>1. PICK x : x = B - z
    OBVIOUS
  <2>2. Mult(x)
    BY <1>2, <1>3, <2>1, MultSum
  <2>3. n <= x => r <= x
    BY <1>1, <2>2, RoundUpTo
  <2> QED
    BY <1>1, <1>2, <1>3, <2>1, <2>3
<1>9. ASSUME NEW i \in 1 .. n PROVE place(Q, h, i) = around(h, z + i - 1, B)
  <2>1. PICK e : e = i - 1
    OBVIOUS
  <2>2. e \in Nat /\ e \in 0 .. B /\ z \in 0 .. B /\ z + e <= B /\ body + i - 1 = body + e
        /\ z + i - 1 = z + e
    BY <1>1, <1>2, <1>3, <1>5, <2>1
  <2>3. place(Q, h, i) = (body + e) % B
    BY <1>1, <1>7, <2>2 DEF place
  <2>4. (body + e) % B = around(body, e, B)
    BY <1>5, <2>2, AroundMod
  <2>5. around(body, e, B) = around(h, z + e, B)
    BY <1>4, <2>2, AroundTwice
  <2> QED
    BY <2>2, <2>3, <2>4, <2>5
<1>10. end_of_message(Q, h, n) = around(h, z + r, B)
  <2>1. around(h, z + r, B) = around(body, r, B)
    <3>1. z \in 0 .. B /\ z + r <= B /\ r \in Nat
      BY <1>2, <1>3, <1>8
    <3> QED
      BY <1>4, <3>1, AroundTwice
  <2>2. PICK rem : rem = B - body
    OBVIOUS
  <2>3. rem \in Nat /\ Mult(rem)
    BY <1>5, <1>6, <2>2, MultSum
  <2>4. end_of_message(Q, h, n) = wrap(Q, IF rem < n THEN Round(n - rem) ELSE body + r)
    BY <1>1, <1>7, <2>2 DEF end_of_message
  <2>5. CASE rem < n
    <3>1. Round(n - rem) = r - rem
      BY <1>1, <2>3, <2>5, RoundUpTo
    <3>2. wrap(Q, r - rem) = r - rem /\ around(body, r, B) = r - rem
      BY <1>2, <1>5, <1>8, <2>2, <2>3, <2>5 DEF wrap, around
    <3> QED
      BY <2>1, <2>4, <2>5, <3>1, <3>2
  <2>6. CASE ~ (rem < n)
    <3>1. r <= rem
      <4>1. n <= rem
        BY <2>3, <2>6
      <4> QED
        BY <1>1, <2>3, <4>1, RoundUpTo
    <3>2. wrap(Q, body + r) = around(body, r, B)
      BY <1>2, <1>5, <2>2, <3>1 DEF wrap, around
    <3> QED
      BY <2>1, <2>4, <2>6, <3>2
  <2> QED
    BY <2>5, <2>6
<1> QED
  BY <1>1, <1>4, <1>6, <1>8, <1>9, <1>10

LEMMA AroundMult ==
  ASSUME NEW B \in Nat \ {0}, Mult(B), NEW h \in 0 .. B - 1, Mult(h), NEW d \in 0 .. B, Mult(d)
  PROVE  Mult(around(h, d, B))
<1>1. PICK x : x = h + d
  OBVIOUS
<1>2. Mult(x)
  BY <1>1, MultSum
<1>3. CASE h + d < B
  BY <1>1, <1>2, <1>3 DEF around
<1>4. CASE ~ (h + d < B)
  <2>1. B <= x
    BY <1>1, <1>4
  <2>2. Mult(x - B)
    BY <1>2, <2>1, MultSum
  <2> QED
    BY <1>1, <1>4, <2>2 DEF around
<1> QED
  BY <1>3, <1>4

\* The messages of a queue lie in it one behind the other, from head on.  S is the set of
\* the distances of their headers from head; u bytes are used.
next_header(Q, B, s) == s + HeaderSz + Round(size_at(Q, around(Q.head, s, B)))

Messages(Q, B, u, S) ==
  /\ \A s \in S : s \in Nat /\ s < u
  /\ \A s \in S : size_at(Q, around(Q.head, s, B)) \in Nat
  /\ \A s \in S : next_header(Q, B, s) \in S \cup {u}
  /\ \A s, x \in S : ~ (s < x /\ x < next_header(Q, B, s))
  /\ 0 \in S \cup {u}
  /\ \A s \in S \cup {u} : s = 0 \/ \E x \in S : next_header(Q, B, x) = s
  /\ \A s \in S : Mult(s)

Headers(Q, B, S) ==
  \A i \in 0 .. B - 1 : has_header(Q, i) <=> \E s \in S : around(Q.head, s, B) = i

BufferFields(buffer, B, fr, head, tail) ==
  [buffer |-> buffer, bufsz |-> B, frbufsz |-> fr, head |-> head, tail |-> tail]

IsBuffer(Q, B) ==
  /\ Q = BufferFields(Q.buffer, B, Q.frbufsz, Q.head, Q.tail)
  /\ Q.buffer = [i \in 0 .. B - 1 |-> Q.buffer[i]]
  /\ Q.frbufsz \in 0 .. B /\ Mult(Q.frbufsz)
  /\ Q.head \in 0 .. B - 1 /\ Mult(Q.head)
  /\ Q.tail = around(Q.head, B - Q.frbufsz, B)
  /\ \E S : Messages(Q, B, B - Q.frbufsz, S) /\ Headers(Q, B, S)

BufferInv ==
  /\ buf_q = [q \in BufQueue |-> buf_q[q]]
  /\ \A q \in BufQueue : /\ IsBuffer(buf_q[q], BufSize[q])
                         /\ buf_q[q].frbufsz # BufSize[q] => NobodyWaits(q)

\* An empty queue.
LEMMA NewBufferOK ==
  ASSUME NEW q \in BufQueue
  PROVE  IsBuffer(NewBuffer(q), BufSize[q]) /\ NewBuffer(q).frbufsz = BufSize[q]
<1>1. PICK B, Q : B = BufSize[q] /\ Q = NewBuffer(q)
  OBVIOUS
<1>2. B \in Nat \ {0} /\ Mult(B) /\ Mult(0)
  BY <1>1, MultSize, MultZero
<1>3. PICK buffer : buffer = [i \in 0 .. B - 1 |-> <<>>]
  OBVIOUS
<1>4. Q = BufferFields(buffer, B, B, 0, 0)
  BY <1>1, <1>3 DEF NewBuffer, BufferFields
<1>5. Q.buffer = buffer /\ Q.frbufsz = B /\ Q.head = 0 /\ Q.tail = 0
  BY <1>4 DEF BufferFields
<1>6. Q = BufferFields(Q.buffer, B, Q.frbufsz, Q.head, Q.tail)
  BY <1>4, <1>5
<1>7. Q.buffer = [i \in 0 .. B - 1 |-> Q.buffer[i]]
  BY <1>3, <1>5
<1>8. 0 = around(0, B - B, B) /\ B \in 0 .. B /\ 0 \in 0 .. B - 1 /\ B - B = 0
  BY <1>2 DEF around
<1>9. Messages(Q, B, 0, {})
  BY DEF Messages
<1>10. Headers(Q, B, {})
  <2>1. \A i \in 0 .. B - 1 : buffer[i] = <<>>
    BY <1>3
  <2> QED
    BY <1>5, <2>1 DEF Headers, has_header
<1> QED
  BY <1>1, <1>2, <1>5, <1>6, <1>7, <1>8, <1>9, <1>10 DEF IsBuffer

Less(S, d) == {s - d : s \in S \ {0}}

SameSizes(Q, Q1, B, T) ==
  \A s \in T : size_at(Q1, around(Q.head, s, B)) = size_at(Q, around(Q.head, s, B))

\* One more message behind the last one.
LEMMA OneMoreMessage ==
  ASSUME NEW Q, NEW Q1, NEW B, NEW u \in Nat, NEW S, Messages(Q, B, u, S), Q1.head = Q.head,
         Mult(u), NEW n \in Nat, size_at(Q1, around(Q.head, u, B)) = n,
         \A s \in S : size_at(Q1, around(Q.head, s, B)) = size_at(Q, around(Q.head, s, B))
  PROVE  Messages(Q1, B, u + (HeaderSz + Round(n)), S \cup {u})
<1>1. PICK S1, u1 : S1 = S \cup {u} /\ u1 = u + (HeaderSz + Round(n))
  OBVIOUS
<1>2. /\ \A s \in S : s \in Nat /\ s < u
      /\ \A s \in S : size_at(Q, around(Q.head, s, B)) \in Nat
      /\ \A s \in S : next_header(Q, B, s) \in S \cup {u}
      /\ \A s, x \in S : ~ (s < x /\ x < next_header(Q, B, s))
      /\ 0 \in S \cup {u}
      /\ \A s \in S \cup {u} : s = 0 \/ \E x \in S : next_header(Q, B, x) = s
  BY DEF Messages
<1>3. \A s \in S : next_header(Q1, B, s) = next_header(Q, B, s)
  BY DEF next_header
<1>4. next_header(Q1, B, u) = u1 /\ u1 \in Nat /\ u < u1
  <2>1. PICK z, r : z = HeaderSz /\ r = Round(n)
    OBVIOUS
  <2>2. z \in Nat \ {0} /\ r \in Nat
    BY <2>1, Header, RoundFacts
  <2>3. next_header(Q1, B, u) = u + z + r /\ u1 = u + (z + r)
    BY <1>1, <2>1 DEF next_header
  <2> QED
    BY <2>2, <2>3
<1>5. \A s \in S1 : s \in Nat /\ s < u1 /\ (s \in S => s < u)
  BY <1>1, <1>2, <1>4
<1>6. \A s \in S1 : size_at(Q1, around(Q1.head, s, B)) \in Nat
  BY <1>1, <1>2
<1>7. \A s \in S1 : next_header(Q1, B, s) \in S1 \cup {u1}
  BY <1>1, <1>2, <1>3, <1>4
<1>8. ASSUME NEW s \in S1, NEW x \in S1 PROVE ~ (s < x /\ x < next_header(Q1, B, s))
  <2>1. CASE s = u
    <3>1. x \in S => x < u
      BY <1>2
    <3> QED
      BY <1>1, <1>5, <2>1, <3>1
  <2>2. CASE s \in S
    <3>1. next_header(Q1, B, s) \in S \cup {u} /\ next_header(Q1, B, s) <= u /\ u \in Nat
      BY <1>2, <1>3, <2>2
    <3>2. CASE x = u
      <4>1. next_header(Q1, B, s) \in Nat
        BY <1>2, <3>1
      <4> QED
        BY <3>1, <3>2, <4>1
    <3>3. CASE x \in S
      BY <1>2, <1>3, <2>2, <3>3
    <3> QED
      BY <1>1, <3>2, <3>3
  <2> QED
    BY <1>1, <2>1, <2>2
<1>9. 0 \in S1 \cup {u1}
  BY <1>1, <1>2
<1>10. \A s \in S1 \cup {u1} : s = 0 \/ \E x \in S1 : next_header(Q1, B, x) = s
  <2>1. \A s \in S1 : s = 0 \/ \E x \in S : next_header(Q1, B, x) = s
    BY <1>1, <1>2, <1>3
  <2> QED
    BY <1>1, <1>4, <2>1
<1>11. \A s \in S1 : Mult(s)
  BY <1>1 DEF Messages
<1> QED
  BY <1>1, <1>5, <1>6, <1>7, <1>8, <1>9, <1>10, <1>11 DEF Messages

\* The first message is gone, and head is behind it.
LEMMA OneMessageLess ==
  ASSUME NEW B \in Nat \ {0}, NEW Q, NEW Q1, NEW u \in 0 .. B, u # 0, NEW S, Messages(Q, B, u, S),
         Q.head \in 0 .. B - 1, NEW d, d = next_header(Q, B, 0), Mult(d), Q1.head = around(Q.head, d, B),
         SameSizes(Q, Q1, B, S \ {0})
  PROVE  /\ 0 \in S /\ d \in 1 .. u /\ \A s \in S \ {0} : s \in d .. u - 1
         /\ Messages(Q1, B, u - d, Less(S, d))
<1>1. PICK S1, u1 : S1 = {s - d : s \in S \ {0}} /\ u1 = u - d
  OBVIOUS
<1>l. S1 = Less(S, d)
  BY <1>1 DEF Less
<1>2. /\ \A s \in S : s \in Nat /\ s < u
      /\ \A s \in S : size_at(Q, around(Q.head, s, B)) \in Nat
      /\ \A s \in S : next_header(Q, B, s) \in S \cup {u}
      /\ \A s, x \in S : ~ (s < x /\ x < next_header(Q, B, s))
      /\ 0 \in S \cup {u}
      /\ \A s \in S \cup {u} : s = 0 \/ \E x \in S : next_header(Q, B, x) = s
  BY DEF Messages
<1>3. 0 \in S
  BY <1>2
<1>4. \A s \in S : next_header(Q, B, s) \in Nat /\ s < next_header(Q, B, s) /\ next_header(Q, B, s) <= u
  <2> SUFFICES ASSUME NEW s \in S
               PROVE  next_header(Q, B, s) \in Nat /\ s < next_header(Q, B, s) /\ next_header(Q, B, s) <= u
    OBVIOUS
  <2>1. PICK z, r : z = HeaderSz /\ r = Round(size_at(Q, around(Q.head, s, B)))
    OBVIOUS
  <2>2. z \in Nat \ {0} /\ r \in Nat
    BY <1>2, <2>1, Header, RoundFacts
  <2>3. next_header(Q, B, s) = s + z + r
    BY <2>1 DEF next_header
  <2>4. next_header(Q, B, s) \in S \cup {u}
    BY <1>2
  <2> QED
    BY <1>2, <2>2, <2>3, <2>4
<1>5. d \in 1 .. u
  BY <1>3, <1>4
<1>6. ASSUME NEW s \in S \ {0} PROVE s \in d .. u - 1
  <2>1. ~ (0 < s /\ s < d)
    BY <1>2, <1>3
  <2> QED
    BY <1>2, <1>5, <2>1
<1>7. ASSUME NEW s \in S \ {0}
      PROVE  /\ around(Q1.head, s - d, B) = around(Q.head, s, B)
             /\ next_header(Q1, B, s - d) = next_header(Q, B, s) - d
  <2>0. size_at(Q1, around(Q.head, s, B)) = size_at(Q, around(Q.head, s, B))
    BY DEF SameSizes
  <2>1. PICK e : e = s - d
    OBVIOUS
  <2>2. e \in Nat /\ d \in 0 .. B /\ d + e = s /\ d + e <= B
    BY <1>5, <1>6, <2>1
  <2>3. around(Q1.head, e, B) = around(Q.head, s, B)
    <3>1. around(around(Q.head, d, B), e, B) = around(Q.head, d + e, B)
      <4>1. PICK h \in 0 .. B - 1 : h = Q.head
        OBVIOUS
      <4>2. around(around(h, d, B), e, B) = around(h, d + e, B)
        BY <2>2, AroundTwice
      <4> QED
        BY <4>1, <4>2
    <3> QED
      BY <2>2, <3>1
  <2>4. PICK z, r : z = HeaderSz /\ r = Round(size_at(Q, around(Q.head, s, B)))
    OBVIOUS
  <2>5. z \in Nat /\ r \in Nat
    BY <1>2, <2>4, Header, RoundFacts
  <2>6. next_header(Q, B, s) = s + z + r
    BY <2>4 DEF next_header
  <2>7. next_header(Q1, B, e) = e + z + r
    BY <2>0, <2>3, <2>4 DEF next_header
  <2> QED
    BY <2>1, <2>2, <2>3, <2>5, <2>6, <2>7
<1>8. \A x \in S1 : \E s \in S \ {0} : x = s - d
  BY <1>1
<1>9. \A s \in S \ {0} : s - d \in S1
  BY <1>1
<1>10. \A x \in S1 : x \in Nat /\ x < u1
  <2> SUFFICES ASSUME NEW x \in S1 PROVE x \in Nat /\ x < u1
    OBVIOUS
  <2>1. PICK s \in S \ {0} : x = s - d
    BY <1>8
  <2>2. s \in d .. u - 1
    BY <1>6
  <2> QED
    BY <1>1, <1>5, <2>1, <2>2
<1>11. \A x \in S1 : size_at(Q1, around(Q1.head, x, B)) \in Nat
  <2> SUFFICES ASSUME NEW x \in S1 PROVE size_at(Q1, around(Q1.head, x, B)) \in Nat
    OBVIOUS
  <2>1. PICK s \in S \ {0} : x = s - d
    BY <1>8
  <2>2. size_at(Q1, around(Q.head, s, B)) = size_at(Q, around(Q.head, s, B))
    BY DEF SameSizes
  <2> QED
    BY <1>2, <1>7, <2>1, <2>2
<1>12. \A x \in S1 : next_header(Q1, B, x) \in S1 \cup {u1}
  <2> SUFFICES ASSUME NEW x \in S1 PROVE next_header(Q1, B, x) \in S1 \cup {u1}
    OBVIOUS
  <2>1. PICK s \in S \ {0} : x = s - d
    BY <1>8
  <2>2. PICK y : y = next_header(Q, B, s)
    OBVIOUS
  <2>3. y \in S \cup {u} /\ y # 0 /\ next_header(Q1, B, x) = y - d
    BY <1>2, <1>4, <1>7, <2>1, <2>2
  <2> QED
    BY <1>1, <1>9, <2>3
<1>13. \A x, y \in S1 : ~ (x < y /\ y < next_header(Q1, B, x))
  <2> SUFFICES ASSUME NEW x \in S1, NEW y \in S1 PROVE ~ (x < y /\ y < next_header(Q1, B, x))
    OBVIOUS
  <2>1. PICK s \in S \ {0}, t \in S \ {0} : x = s - d /\ y = t - d
    BY <1>8
  <2>2. PICK e : e = next_header(Q, B, s)
    OBVIOUS
  <2>3. next_header(Q1, B, x) = e - d /\ ~ (s < t /\ t < e) /\ e \in Nat
    BY <1>2, <1>4, <1>7, <2>1, <2>2
  <2>4. s \in Nat /\ t \in Nat /\ d \in Nat
    BY <1>2, <1>5
  <2> QED
    BY <2>1, <2>3, <2>4
<1>14. 0 \in S1 \cup {u1}
  <2>1. d \in S \cup {u} /\ d # 0 /\ d - d = 0
    BY <1>2, <1>3, <1>5
  <2> QED
    BY <1>1, <1>9, <2>1
<1>15. \A x \in S1 \cup {u1} : x = 0 \/ \E y \in S1 : next_header(Q1, B, y) = x
  <2> SUFFICES ASSUME NEW x \in S1 \cup {u1} PROVE x = 0 \/ \E y \in S1 : next_header(Q1, B, y) = x
    OBVIOUS
  <2>1. PICK s \in (S \ {0}) \cup {u} : x = s - d
    BY <1>1, <1>8
  <2>2. s \in Nat /\ s # 0 /\ s \in S \cup {u}
    BY <1>2
  <2>3. PICK t \in S : next_header(Q, B, t) = s
    BY <1>2, <2>2
  <2>4. CASE t = 0
    BY <1>5, <2>1, <2>3, <2>4
  <2>5. CASE t # 0
    <3>1. next_header(Q1, B, t - d) = s - d /\ t - d \in S1
      BY <1>7, <1>9, <2>3, <2>5
    <3> QED
      BY <2>1, <3>1
  <2> QED
    BY <2>4, <2>5
<1>m. \A x \in S1 : Mult(x)
  <2> SUFFICES ASSUME NEW x \in S1 PROVE Mult(x)
    OBVIOUS
  <2>1. PICK s \in S \ {0} : x = s - d
    BY <1>8
  <2>2. Mult(s)
    BY DEF Messages
  <2>3. d <= s
    BY <1>5, <1>6
  <2> QED
    BY <2>1, <2>2, <2>3, MultSum
<1>16. Messages(Q1, B, u1, S1)
  BY <1>10, <1>11, <1>12, <1>13, <1>14, <1>15, <1>m DEF Messages
<1> QED
  BY <1>1, <1>l, <1>3, <1>5, <1>6, <1>16

\* A message is copied behind the last one.
LEMMA StoreMessage ==
  ASSUME NEW B \in Nat \ {0}, Mult(B), NEW Q, IsBuffer(Q, B), NEW m, NEW n \in Nat,
         DOMAIN m = 1 .. n, Len(m) = n, \A j \in 1 .. n : m[j] # <<>> /\ m[j][1] # NoMsg,
         is_queue_buffer_free(Q, n)
  PROVE  IsBuffer(msg_to_end_buffer(Q, m), B)
<1>1. PICK buffer, fr, h, t : buffer = Q.buffer /\ fr = Q.frbufsz /\ h = Q.head /\ t = Q.tail
  OBVIOUS
<1>2. /\ Q = BufferFields(buffer, B, fr, h, t)
      /\ buffer = [i \in 0 .. B - 1 |-> buffer[i]]
      /\ fr \in 0 .. B /\ Mult(fr) /\ h \in 0 .. B - 1 /\ Mult(h)
      /\ t = around(h, B - fr, B)
  BY <1>1 DEF IsBuffer
<1>3. PICK S : Messages(Q, B, B - fr, S) /\ Headers(Q, B, S)
  BY <1>1 DEF IsBuffer
<1>4. Q.bufsz = B
  BY <1>2 DEF BufferFields
<1>5. PICK u, z, r : u = B - fr /\ z = HeaderSz /\ r = Round(n)
  OBVIOUS
<1>6. /\ z \in Nat \ {0} /\ z + n <= fr /\ Mult(z) /\ r \in Nat /\ Mult(r)
      /\ u \in 0 .. B - 1 /\ u + fr = B /\ Mult(u)
  <2>1. z \in Nat \ {0} /\ Mult(z) /\ r \in Nat /\ Mult(r)
    BY <1>5, Header, MultZero, RoundFacts
  <2>2. z + n <= fr
    BY <1>1, <1>5 DEF is_queue_buffer_free
  <2>3. u \in 0 .. B - 1 /\ u + fr = B
    BY <1>2, <1>5, <2>1, <2>2
  <2>4. Mult(u)
    BY <1>2, <1>5, MultSum
  <2> QED
    BY <2>1, <2>2, <2>3, <2>4
<1>7. z + r <= fr /\ Mult(z + r)
  <2>1. PICK x : x = fr - z
    OBVIOUS
  <2>2. z <= fr
    BY <1>2, <1>6
  <2>3. Mult(x)
    BY <1>2, <1>6, <2>1, <2>2, MultSum
  <2>4. n <= x => r <= x
    BY <1>5, <2>3, RoundUpTo
  <2>5. Mult(z + r)
    BY <1>6, MultSum
  <2> QED
    BY <1>2, <1>6, <2>1, <2>4, <2>5
<1>8. t = around(h, u, B) /\ t \in 0 .. B - 1 /\ Mult(t)
  <2>1. t = around(h, u, B) /\ u \in 0 .. B
    BY <1>2, <1>5, <1>6
  <2>2. t \in 0 .. B - 1
    BY <1>2, <2>1, AroundFacts
  <2>3. Mult(t)
    BY <1>2, <1>6, <2>1, AroundMult
  <2> QED
    BY <2>1, <2>2, <2>3
<1>9. /\ \A i \in 1 .. n : place(Q, t, i) = around(t, HeaderSz + i - 1, B)
      /\ end_of_message(Q, t, n) = around(t, HeaderSz + Round(n), B)
  <2>1. HeaderSz + n <= B
    BY <1>2, <1>5, <1>6
  <2> QED
    BY <1>4, <1>8, <2>1, Places
<1>10. end_of_message(Q, t, n) = around(h, u + (z + r), B)
  <2>1. PICK e \in Nat : e = z + r
    BY <1>6
  <2>2. around(around(h, u, B), e, B) = around(h, u + e, B)
    <3>1. u \in 0 .. B /\ u + e <= B
      BY <1>2, <1>6, <1>7, <2>1
    <3> QED
      BY <1>2, <3>1, AroundTwice
  <2> QED
    BY <1>5, <1>8, <1>9, <2>1, <2>2
<1>11. ASSUME NEW s \in S PROVE around(h, s, B) # t /\ \A j \in 1 .. n : around(h, s, B) # place(Q, t, j)
  <2>1. s \in Nat /\ s < u
    BY <1>3, <1>5 DEF Messages
  <2>2. s \in 0 .. B - 1 /\ s # u
    BY <1>6, <2>1
  <2>3. around(h, s, B) # t
    BY <1>2, <1>6, <1>8, <2>2, AroundOnce
  <2>4. ASSUME NEW j \in 1 .. n PROVE around(h, s, B) # place(Q, t, j)
    <3>1. PICK e : e = z + j - 1
      OBVIOUS
    <3>2. e \in Nat /\ u + e <= B /\ u + e \in 0 .. B - 1 /\ s # u + e
      <4>1. e \in Nat /\ e < z + n
        BY <1>6, <3>1
      <4>2. u \in Nat /\ u + e < B
        <5>1. fr \in Nat /\ u \in Nat /\ u + fr = B /\ z \in Nat /\ z + n <= fr
          BY <1>2, <1>6
        <5> QED
          BY <4>1, <5>1
      <4> QED
        BY <2>1, <4>1, <4>2
    <3>3. place(Q, t, j) = around(t, e, B)
      <4>1. e = HeaderSz + j - 1
        BY <1>5, <3>1
      <4>2. place(Q, t, j) = around(t, HeaderSz + j - 1, B)
        BY <1>9
      <4> QED
        BY <4>1, <4>2
    <3>4. around(around(h, u, B), e, B) = around(h, u + e, B)
      <4>1. u \in 0 .. B
        BY <1>6
      <4> QED
        BY <1>2, <3>2, <4>1, AroundTwice
    <3>5. PICK d : d = u + e
      OBVIOUS
    <3>6. around(h, s, B) # around(h, d, B)
      BY <1>2, <2>2, <3>2, <3>5, AroundOnce
    <3> QED
      BY <1>8, <3>3, <3>4, <3>5, <3>6
  <2> QED
    BY <2>3, <2>4
<1> DEFINE written(i) == {j \in DOMAIN m : place(Q, t, j) = i}
<1>12. PICK buffer1 : buffer1 = [i \in 0 .. B - 1 |->
                   IF i = t THEN <<NoMsg, Len(m)>>
                   ELSE IF written(i) = {} THEN buffer[i] ELSE m[CHOOSE j \in written(i) : TRUE]]
  OBVIOUS
<1>13. PICK Q1 : Q1 = BufferFields(buffer1, B, fr - (z + r), h, around(h, u + (z + r), B))
  OBVIOUS
<1>14. msg_to_end_buffer(Q, m) = Q1
  <2>1. DOMAIN buffer = 0 .. B - 1
    BY <1>2
  <2>2. PICK Q2 : Q2 = [Q EXCEPT !.frbufsz = fr - (z + r)]
    OBVIOUS
  <2>3. Q2 = BufferFields(buffer, B, fr - (z + r), h, t)
    BY <1>2, <2>2 DEF BufferFields
  <2>4. PICK Q3 : Q3 = [Q2 EXCEPT !.buffer = buffer1]
    OBVIOUS
  <2>5. Q3 = BufferFields(buffer1, B, fr - (z + r), h, t)
    BY <2>3, <2>4 DEF BufferFields
  <2>6. PICK e : e = end_of_message(Q, t, n)
    OBVIOUS
  <2>7. PICK Q4 : Q4 = [Q3 EXCEPT !.tail = e]
    OBVIOUS
  <2>8. Q4 = Q1
    BY <1>10, <1>13, <2>5, <2>6, <2>7 DEF BufferFields
  <2>9. msg_to_end_buffer(Q, m) = Q4
    BY <1>1, <1>5, <1>12, <2>1, <2>2, <2>4, <2>6, <2>7 DEF msg_to_end_buffer
  <2> QED
    BY <2>8, <2>9
<1>15. /\ Q1.buffer = buffer1 /\ Q1.bufsz = B /\ Q1.frbufsz = fr - (z + r) /\ Q1.head = h
       /\ Q1.tail = around(h, u + (z + r), B)
  BY <1>13 DEF BufferFields
<1>16. buffer1[t] = <<NoMsg, n>>
  BY <1>8, <1>12
<1>17. \A s \in S : buffer1[around(h, s, B)] = buffer[around(h, s, B)]
  <2> SUFFICES ASSUME NEW s \in S PROVE buffer1[around(h, s, B)] = buffer[around(h, s, B)]
    OBVIOUS
  <2>1. PICK i : i = around(h, s, B)
    OBVIOUS
  <2>2. i \in 0 .. B - 1
    <3>1. s \in Nat /\ s < u
      BY <1>3, <1>5 DEF Messages
    <3>2. s \in 0 .. B
      BY <1>6, <3>1
    <3> QED
      BY <1>2, <2>1, <3>2, AroundFacts
  <2>3. i # t /\ written(i) = {}
    BY <1>11, <2>1
  <2> HIDE DEF written
  <2> QED
    BY <1>12, <2>1, <2>2, <2>3
<1>18. \A i \in 0 .. B - 1 : i # t => \/ buffer1[i] = buffer[i]
                                    \/ /\ \E j \in 1 .. n : i = place(Q, t, j)
                                       /\ buffer1[i] # <<>> /\ buffer1[i][1] # NoMsg
  <2> SUFFICES ASSUME NEW i \in 0 .. B - 1, i # t, written(i) # {}
               PROVE  \E j \in 1 .. n : i = place(Q, t, j) /\ buffer1[i] = m[j]
    BY <1>12
  <2>1. PICK j : j = CHOOSE x \in written(i) : TRUE
    OBVIOUS
  <2>2. j \in written(i)
    BY <2>1
  <2>3. buffer1[i] = m[j]
    <3> HIDE DEF written
    <3> QED
      BY <1>12, <2>1
  <2> QED
    BY <2>2, <2>3
<1> HIDE DEF written
<1>19. Messages(Q1, B, u + (z + r), S \cup {u})
  <2>1. size_at(Q1, around(Q.head, u, B)) = n
    BY <1>1, <1>8, <1>15, <1>16 DEF size_at
  <2>2. \A s \in S : size_at(Q1, around(Q.head, s, B)) = size_at(Q, around(Q.head, s, B))
    BY <1>1, <1>15, <1>17 DEF size_at
  <2>3. Q1.head = Q.head /\ u \in Nat /\ Messages(Q, B, u, S)
    BY <1>1, <1>3, <1>5, <1>6, <1>15
  <2>4. Messages(Q1, B, u + (HeaderSz + Round(n)), S \cup {u})
    BY <1>6, <2>1, <2>2, <2>3, OneMoreMessage
  <2> QED
    BY <1>5, <2>4
<1>20. Headers(Q1, B, S \cup {u})
  <2> SUFFICES ASSUME NEW i \in 0 .. B - 1
               PROVE  has_header(Q1, i) <=> \E s \in S \cup {u} : around(h, s, B) = i
    BY <1>15 DEF Headers
  <2>1. has_header(Q, i) <=> \E s \in S : around(h, s, B) = i
    <3>1. Headers(Q, B, S)
      BY <1>3
    <3>2. has_header(Q, i) <=> \E s \in S : around(Q.head, s, B) = i
      BY <3>1 DEF Headers
    <3> QED
      BY <1>1, <3>2
  <2>2. CASE i = t
    <3>1. has_header(Q1, i)
      <4>1. PICK b : b = <<NoMsg, n>>
        OBVIOUS
      <4>2. b # <<>>
        <5>1. Len(b) = 2 /\ Len(<<>>) = 0
          BY <4>1
        <5> QED
          BY <5>1
      <4>3. b[1] = NoMsg
        BY <4>1
      <4> QED
        BY <1>15, <1>16, <2>2, <4>1, <4>2, <4>3 DEF has_header
    <3> QED
      BY <1>8, <2>2, <3>1
  <2>3. CASE i # t
    <3>1. (\E s \in S \cup {u} : around(h, s, B) = i) <=> \E s \in S : around(h, s, B) = i
      BY <1>8, <2>3
    <3>2. CASE buffer1[i] = buffer[i]
      <4>1. has_header(Q1, i) <=> has_header(Q, i)
        BY <1>1, <1>15, <3>2 DEF has_header
      <4> QED
        BY <2>1, <3>1, <4>1
    <3>3. CASE buffer1[i] # buffer[i]
      <4>1. ~ has_header(Q1, i)
        BY <1>15, <1>18, <2>3, <3>3 DEF has_header
      <4>2. ~ \E s \in S : around(h, s, B) = i
        BY <1>17, <3>3
      <4> QED
        BY <3>1, <4>1, <4>2
    <3> QED
      BY <3>2, <3>3
  <2> QED
    BY <2>2, <2>3
<1>21. PICK fr1 : fr1 = fr - (z + r)
  OBVIOUS
<1>22. fr1 \in 0 .. B /\ B - fr1 = u + (z + r) /\ Mult(fr1)
  <2>1. Mult(fr1)
    <3>1. PICK e : e = z + r
      OBVIOUS
    <3> QED
      BY <1>2, <1>7, <1>21, <3>1, MultSum
  <2>2. fr \in 0 .. B /\ u + fr = B /\ u \in Nat /\ z + r \in Nat /\ z + r <= fr
    BY <1>2, <1>6, <1>7
  <2> QED
    BY <1>21, <2>1, <2>2
<1>23. Q1.buffer = [i \in 0 .. B - 1 |-> Q1.buffer[i]]
  BY <1>12, <1>15
<1>24. Q1 = BufferFields(Q1.buffer, B, Q1.frbufsz, Q1.head, Q1.tail)
  BY <1>13, <1>15
<1>25. IsBuffer(Q1, B)
  BY <1>2, <1>15, <1>19, <1>20, <1>21, <1>22, <1>23, <1>24 DEF IsBuffer
<1> QED
  BY <1>14, <1>25

\* The first message is copied out.
LEMMA TakeMessage ==
  ASSUME NEW B \in Nat \ {0}, Mult(B), NEW Q, IsBuffer(Q, B), ~ is_buffer_empty(Q)
  PROVE  IsBuffer(buffer_to_msg(Q), B)
<1>1. PICK buffer, fr, h, t : buffer = Q.buffer /\ fr = Q.frbufsz /\ h = Q.head /\ t = Q.tail
  OBVIOUS
<1>2. /\ Q = BufferFields(buffer, B, fr, h, t)
      /\ buffer = [i \in 0 .. B - 1 |-> buffer[i]]
      /\ fr \in 0 .. B /\ Mult(fr) /\ h \in 0 .. B - 1 /\ Mult(h)
      /\ t = around(h, B - fr, B)
  BY <1>1 DEF IsBuffer
<1>3. PICK S : Messages(Q, B, B - fr, S) /\ Headers(Q, B, S)
  BY <1>1 DEF IsBuffer
<1>4. Q.bufsz = B /\ fr # B
  <2>1. Q.bufsz = B
    BY <1>2 DEF BufferFields
  <2> QED
    BY <1>1, <2>1 DEF is_buffer_empty
<1>5. PICK u, z : u = B - fr /\ z = HeaderSz
  OBVIOUS
<1>6. u \in 0 .. B /\ u # 0 /\ u + fr = B /\ z \in Nat \ {0} /\ Mult(z)
  <2>1. z \in Nat \ {0} /\ Mult(z)
    BY <1>5, Header, MultZero
  <2> QED
    BY <1>2, <1>4, <1>5, <2>1
<1>7. around(h, 0, B) = h
  BY <1>2 DEF around
<1>8. PICK d, n, r : d = next_header(Q, B, 0) /\ n = size_at(Q, h) /\ r = Round(n)
  OBVIOUS
<1>9. 0 \in S /\ n \in Nat
  <2>1. Messages(Q, B, u, S)
    BY <1>3, <1>5
  <2>2. 0 \in S
    BY <1>6, <2>1 DEF Messages
  <2>3. size_at(Q, around(Q.head, 0, B)) \in Nat
    BY <2>1, <2>2 DEF Messages
  <2> QED
    BY <1>1, <1>7, <1>8, <2>2, <2>3
<1>10. d = z + r /\ r \in Nat /\ Mult(r) /\ n <= r /\ Mult(d) /\ d # 0
  <2>1. r \in Nat /\ Mult(r) /\ n <= r
    BY <1>8, <1>9, RoundFacts
  <2>2. d = 0 + z + r
    BY <1>1, <1>5, <1>7, <1>8 DEF next_header
  <2>3. d = z + r
    BY <1>6, <2>1, <2>2
  <2>4. Mult(z + r)
    BY <1>6, <2>1, MultSum
  <2>5. d # 0
    BY <1>6, <2>1, <2>3
  <2> QED
    BY <2>1, <2>3, <2>4, <2>5
<1>11. d \in 1 .. u
  <2>1. d \in S \cup {u} /\ \A s \in S : s \in Nat /\ s < u
    BY <1>3, <1>5, <1>8, <1>9 DEF Messages
  <2>2. d \in Nat /\ d <= u
    BY <1>6, <2>1
  <2> QED
    BY <1>6, <1>10, <2>2
<1>12. /\ \A i \in 1 .. n : place(Q, h, i) = around(h, HeaderSz + i - 1, B)
       /\ end_of_message(Q, h, n) = around(h, d, B)
  <2>1. HeaderSz + n <= B
    BY <1>5, <1>6, <1>9, <1>10, <1>11
  <2>2. /\ \A i \in 1 .. n : place(Q, h, i) = around(h, HeaderSz + i - 1, B)
        /\ end_of_message(Q, h, n) = around(h, HeaderSz + Round(n), B)
    <3>1. h \in 0 .. B - 1 /\ Mult(h)
      BY <1>2
    <3>2. Q.bufsz = B
      BY <1>4
    <3> QED
      BY <1>9, <2>1, <3>1, <3>2, Places
  <2> QED
    BY <1>5, <1>8, <1>10, <2>2
<1>13. PICK read : read = {h} \cup {place(Q, h, i) : i \in 1 .. n}
  OBVIOUS
<1>14. PICK buffer1 : buffer1 = [i \in 0 .. B - 1 |-> IF i \in read THEN <<>> ELSE buffer[i]]
  OBVIOUS
<1>15. PICK Q1 : Q1 = BufferFields(buffer1, B, fr + d, around(h, d, B), t)
  OBVIOUS
<1>16. buffer_to_msg(Q) = Q1
  <2>1. DOMAIN buffer = 0 .. B - 1
    BY <1>2
  <2>2. PICK Q2 : Q2 = [Q EXCEPT !.frbufsz = fr + d]
    OBVIOUS
  <2>3. Q2 = BufferFields(buffer, B, fr + d, h, t)
    BY <1>2, <2>2 DEF BufferFields
  <2>4. PICK e : e = end_of_message(Q, h, n)
    OBVIOUS
  <2>5. PICK Q3 : Q3 = [Q2 EXCEPT !.head = e]
    OBVIOUS
  <2>6. Q3 = BufferFields(buffer, B, fr + d, around(h, d, B), t)
    BY <1>12, <2>3, <2>4, <2>5 DEF BufferFields
  <2>7. PICK Q4 : Q4 = [Q3 EXCEPT !.buffer = buffer1]
    OBVIOUS
  <2>8. Q4 = Q1
    BY <1>15, <2>6, <2>7 DEF BufferFields
  <2>9. d = HeaderSz + Round(n)
    BY <1>5, <1>8, <1>10
  <2>10. buffer_to_msg(Q) = Q4
    BY <1>1, <1>8, <1>13, <1>14, <2>1, <2>2, <2>4, <2>5, <2>7, <2>9 DEF buffer_to_msg
  <2> QED
    BY <2>8, <2>10
<1>17. /\ Q1.buffer = buffer1 /\ Q1.bufsz = B /\ Q1.frbufsz = fr + d /\ Q1.head = around(h, d, B)
       /\ Q1.tail = t
  BY <1>15 DEF BufferFields
<1>18. ASSUME NEW s \in S \ {0}, d <= s
       PROVE  around(h, s, B) \in 0 .. B - 1 /\ around(h, s, B) \notin read
  <2>1. s \in Nat /\ s < u
    BY <1>3, <1>5 DEF Messages
  <2>2. s \in 0 .. B - 1 /\ s \in 0 .. B
    BY <1>6, <2>1
  <2>3. around(h, s, B) \in 0 .. B - 1
    BY <1>2, <2>2, AroundFacts
  <2>4. around(h, s, B) # h
    <3>1. 0 \in 0 .. B - 1 /\ s # 0
      OBVIOUS
    <3> QED
      BY <1>2, <1>7, <2>2, <3>1, AroundOnce
  <2>5. ASSUME NEW j \in 1 .. n PROVE around(h, s, B) # place(Q, h, j)
    <3>1. PICK e : e = z + j - 1
      OBVIOUS
    <3>2. e \in Nat /\ e < d
      BY <1>6, <1>9, <1>10, <3>1
    <3>3. e \in 0 .. B - 1 /\ e # s
      BY <1>6, <1>18, <2>1, <3>2, <1>11
    <3>4. place(Q, h, j) = around(h, e, B)
      BY <1>5, <1>12, <3>1
    <3> QED
      BY <1>2, <2>2, <3>3, <3>4, AroundOnce
  <2> QED
    BY <1>13, <2>3, <2>4, <2>5
<1>19. \A s \in S \ {0} : s \in d .. u - 1
  <2> SUFFICES ASSUME NEW s \in S \ {0} PROVE s \in d .. u - 1
    OBVIOUS
  <2>1. s \in Nat /\ s < u /\ ~ (0 < s /\ s < d)
    BY <1>3, <1>5, <1>8, <1>9 DEF Messages
  <2> QED
    BY <1>6, <1>11, <2>1
<1>20. \A s \in S \ {0} : /\ around(h, s, B) \in 0 .. B - 1 /\ around(h, s, B) \notin read
                         /\ buffer1[around(h, s, B)] = buffer[around(h, s, B)]
  <2> SUFFICES ASSUME NEW s \in S \ {0}
               PROVE  /\ around(h, s, B) \in 0 .. B - 1 /\ around(h, s, B) \notin read
                      /\ buffer1[around(h, s, B)] = buffer[around(h, s, B)]
    OBVIOUS
  <2>1. d <= s
    BY <1>6, <1>11, <1>19
  <2>2. around(h, s, B) \in 0 .. B - 1 /\ around(h, s, B) \notin read
    BY <1>18, <2>1
  <2> QED
    BY <1>14, <2>2
<1>21. PICK S1 : S1 = {s - d : s \in S \ {0}}
  OBVIOUS
<1>22. Messages(Q1, B, u - d, S1)
  <2>1. SameSizes(Q, Q1, B, S \ {0})
    BY <1>1, <1>17, <1>20 DEF size_at, SameSizes
  <2>2. Messages(Q, B, u, S) /\ Q.head \in 0 .. B - 1 /\ Q1.head = around(Q.head, d, B)
    BY <1>1, <1>2, <1>3, <1>5, <1>17
  <2> QED
    <3>1. u \in 0 .. B /\ u # 0 /\ d = next_header(Q, B, 0) /\ Mult(d)
      BY <1>6, <1>8, <1>10
    <3>2. Messages(Q1, B, u - d, Less(S, d))
      BY <2>1, <2>2, <3>1, OneMessageLess
    <3> QED
      BY <1>21, <3>2 DEF Less
<1>23. ASSUME NEW s \in Nat, s \in d .. u PROVE around(around(h, d, B), s - d, B) = around(h, s, B)
  <2>1. PICK e : e = s - d
    OBVIOUS
  <2>2. e \in Nat /\ d + e = s /\ d \in 0 .. B /\ d + e <= B
    BY <1>6, <1>11, <1>23, <2>1
  <2>3. around(around(h, d, B), e, B) = around(h, d + e, B)
    BY <1>2, <2>2, AroundTwice
  <2> QED
    BY <2>1, <2>2, <2>3
<1>24. Headers(Q1, B, S1)
  <2> SUFFICES ASSUME NEW i \in 0 .. B - 1
               PROVE  has_header(Q1, i) <=> \E s \in S1 : around(around(h, d, B), s, B) = i
    BY <1>17 DEF Headers
  <2>1. has_header(Q, i) <=> \E s \in S : around(h, s, B) = i
    <3>1. Headers(Q, B, S)
      BY <1>3
    <3>2. has_header(Q, i) <=> \E s \in S : around(Q.head, s, B) = i
      BY <3>1 DEF Headers
    <3> QED
      BY <1>1, <3>2
  <2>2. (\E s \in S1 : around(around(h, d, B), s, B) = i)
          <=> \E s \in S \ {0} : around(h, s, B) = i
    <3>1. \A s \in S \ {0} : around(around(h, d, B), s - d, B) = around(h, s, B)
      <4>1. \A s \in S \ {0} : s \in Nat /\ s \in d .. u
        BY <1>6, <1>11, <1>19
      <4> QED
        BY <1>23, <4>1
    <3> QED
      BY <1>21, <3>1
  <2>3. CASE i \in read
    <3>1. ~ has_header(Q1, i)
      BY <1>14, <1>17, <2>3 DEF has_header
    <3> QED
      BY <1>20, <2>2, <2>3, <3>1
  <2>4. CASE i \notin read
    <3>1. has_header(Q1, i) <=> has_header(Q, i)
      BY <1>1, <1>14, <1>17, <2>4 DEF has_header
    <3>2. i # h
      BY <1>13, <2>4
    <3>3. (\E s \in S : around(h, s, B) = i) <=> \E s \in S \ {0} : around(h, s, B) = i
      BY <1>7, <3>2
    <3> QED
      BY <2>1, <2>2, <3>1, <3>3
  <2> QED
    BY <2>3, <2>4
<1>25. PICK fr1 : fr1 = fr + d
  OBVIOUS
<1>26. fr1 \in 0 .. B /\ B - fr1 = u - d /\ Mult(fr1)
  <2>1. Mult(fr1)
    BY <1>2, <1>10, <1>25, MultSum
  <2> QED
    BY <1>2, <1>6, <1>11, <1>25, <2>1
<1>27. around(h, d, B) \in 0 .. B - 1 /\ Mult(around(h, d, B))
  <2>1. d \in 0 .. B
    BY <1>6, <1>11
  <2> QED
    BY <1>2, <1>10, <2>1, AroundFacts, AroundMult
<1>28. t = around(around(h, d, B), u - d, B)
  <2>1. u \in Nat /\ u \in d .. u
    BY <1>6, <1>11
  <2> QED
    BY <1>2, <1>5, <1>23, <2>1
<1>29. Q1.buffer = [i \in 0 .. B - 1 |-> Q1.buffer[i]]
  BY <1>14, <1>17
<1>30. Q1 = BufferFields(Q1.buffer, B, Q1.frbufsz, Q1.head, Q1.tail)
  BY <1>15, <1>17
<1>31. IsBuffer(Q1, B)
  BY <1>17, <1>22, <1>24, <1>25, <1>26, <1>27, <1>28, <1>29, <1>30 DEF IsBuffer
<1> QED
  BY <1>16, <1>31

\* Each message ends where the next begins, the last at tail.
LEMMA BufferIsOK ==
  ASSUME NEW B \in Nat \ {0}, Mult(B), NEW Q, IsBuffer(Q, B)
  PROVE  LET H == {h \in DOMAIN Q.buffer : has_header(Q, h)}
         IN  /\ Q.bufsz = B /\ Q.frbufsz \in 0 .. Q.bufsz
             /\ Q.tail = (Q.head + Q.bufsz - Q.frbufsz) % Q.bufsz
             /\ {Q.head} \cup {end_of_message(Q, h, size_at(Q, h)) : h \in H} = H \cup {Q.tail}
<1>1. PICK buffer, fr, h, t, u : buffer = Q.buffer /\ fr = Q.frbufsz /\ h = Q.head /\ t = Q.tail /\ u = B - fr
  OBVIOUS
<1>2. /\ Q = BufferFields(buffer, B, fr, h, t)
      /\ buffer = [i \in 0 .. B - 1 |-> buffer[i]]
      /\ fr \in 0 .. B /\ h \in 0 .. B - 1 /\ Mult(h)
      /\ t = around(h, u, B)
  BY <1>1 DEF IsBuffer
<1>3. PICK S : Messages(Q, B, u, S) /\ Headers(Q, B, S)
  BY <1>1 DEF IsBuffer
<1>4. Q.bufsz = B /\ DOMAIN buffer = 0 .. B - 1 /\ u \in 0 .. B
  <2>1. Q.bufsz = B
    BY <1>2 DEF BufferFields
  <2>2. DOMAIN buffer = 0 .. B - 1
    BY <1>2
  <2>3. u \in 0 .. B
    <3>1. fr \in 0 .. B
      BY <1>2
    <3> QED
      BY <1>1, <3>1
  <2> QED
    BY <2>1, <2>2, <2>3
<1>5. t = (h + B - fr) % B
  <2>1. h + B - fr = h + u
    BY <1>1, <1>2
  <2> QED
    BY <1>2, <1>4, <2>1, AroundMod
<1>6. PICK H : H = {i \in 0 .. B - 1 : has_header(Q, i)}
  OBVIOUS
<1>7. PICK E : E = {end_of_message(Q, i, size_at(Q, i)) : i \in H}
  OBVIOUS
<1>8. \A s \in S : s \in 0 .. B - 1 /\ around(h, s, B) \in H
  <2> SUFFICES ASSUME NEW s \in S PROVE s \in 0 .. B - 1 /\ around(h, s, B) \in H
    OBVIOUS
  <2>1. s \in Nat /\ s < u
    BY <1>3 DEF Messages
  <2>2. s \in 0 .. B - 1 /\ s \in 0 .. B
    BY <1>4, <2>1
  <2>3. around(h, s, B) \in 0 .. B - 1
    BY <1>2, <2>2, AroundFacts
  <2>4. has_header(Q, around(h, s, B))
    BY <1>1, <1>3, <2>3 DEF Headers
  <2> QED
    BY <1>6, <2>2, <2>3, <2>4
<1>9. \A i \in H : i \in 0 .. B - 1 /\ \E s \in S : around(h, s, B) = i
  <2> SUFFICES ASSUME NEW i \in H PROVE i \in 0 .. B - 1 /\ \E s \in S : around(h, s, B) = i
    OBVIOUS
  <2>1. i \in 0 .. B - 1 /\ has_header(Q, i)
    BY <1>6
  <2>2. Headers(Q, B, S)
    BY <1>3
  <2>3. has_header(Q, i) <=> \E s \in S : around(Q.head, s, B) = i
    BY <2>1, <2>2 DEF Headers
  <2> QED
    BY <1>1, <2>1, <2>3
<1>10. ASSUME NEW s \in S
       PROVE  LET i == around(h, s, B)
              IN  end_of_message(Q, i, size_at(Q, i)) = around(h, next_header(Q, B, s), B)
  <2>1. PICK i, n, z, r : i = around(h, s, B) /\ n = size_at(Q, i) /\ z = HeaderSz /\ r = Round(n)
    OBVIOUS
  <2>2. n \in Nat /\ next_header(Q, B, s) \in S \cup {u}
    BY <1>1, <1>3, <2>1 DEF Messages
  <2>3. z \in Nat \ {0} /\ r \in Nat /\ n <= r /\ Mult(z) /\ Mult(r)
    BY <2>1, <2>2, Header, RoundFacts, MultZero
  <2>4. next_header(Q, B, s) = s + z + r
    BY <1>1, <2>1 DEF next_header
  <2>5. s \in Nat /\ s + z + r \in Nat /\ s + z + r <= B
    <3>1. next_header(Q, B, s) \in 0 .. B
      BY <1>4, <1>8, <2>2
    <3> QED
      BY <1>8, <2>3, <2>4, <3>1
  <2>6. Mult(i) /\ i \in 0 .. B - 1
    <3>1. Mult(s)
      BY <1>3 DEF Messages
    <3>2. s \in 0 .. B
      BY <1>8
    <3> QED
      BY <1>2, <2>1, <3>1, <3>2, AroundFacts, AroundMult
  <2>7. HeaderSz + n <= B
    BY <2>1, <2>2, <2>3, <2>5
  <2>8. end_of_message(Q, i, n) = around(i, z + r, B)
    BY <1>4, <2>1, <2>2, <2>6, <2>7, Places
  <2>9. PICK e : e = z + r
    OBVIOUS
  <2>10. around(around(h, s, B), e, B) = around(h, s + e, B)
    <3>1. e \in Nat /\ s \in 0 .. B /\ s + e <= B
      BY <2>3, <2>5, <2>9
    <3> QED
      BY <1>2, <3>1, AroundTwice
  <2>11. s + e = s + z + r
    BY <2>3, <2>5, <2>9
  <2> QED
    BY <2>1, <2>4, <2>8, <2>9, <2>10, <2>11
<1>11. \A i \in H : end_of_message(Q, i, size_at(Q, i)) \in H \cup {t}
  <2> SUFFICES ASSUME NEW i \in H PROVE end_of_message(Q, i, size_at(Q, i)) \in H \cup {t}
    OBVIOUS
  <2>1. PICK s \in S : around(h, s, B) = i
    BY <1>9
  <2>2. end_of_message(Q, i, size_at(Q, i)) = around(h, next_header(Q, B, s), B)
    BY <1>10, <2>1
  <2>3. next_header(Q, B, s) \in S \cup {u}
    BY <1>3 DEF Messages
  <2> QED
    BY <1>2, <1>8, <2>2, <2>3
<1>12. \A s \in S \cup {u} : around(h, s, B) \in {h} \cup E
  <2> SUFFICES ASSUME NEW s \in S \cup {u} PROVE around(h, s, B) \in {h} \cup E
    OBVIOUS
  <2>1. CASE s = 0
    <3>1. around(h, 0, B) = h
      BY <1>2 DEF around
    <3> QED
      BY <2>1, <3>1
  <2>2. CASE s # 0
    <3>1. PICK x \in S : next_header(Q, B, x) = s
      BY <1>3, <2>2 DEF Messages
    <3>2. PICK i : i = around(h, x, B)
      OBVIOUS
    <3>3. i \in H /\ end_of_message(Q, i, size_at(Q, i)) = around(h, s, B)
      BY <1>8, <1>10, <3>1, <3>2
    <3> QED
      BY <1>7, <3>3
  <2> QED
    BY <2>1, <2>2
<1>13. h \in H \cup {t}
  <2>1. 0 \in S \cup {u} /\ around(h, 0, B) = h
    <3>1. 0 \in S \cup {u}
      BY <1>3 DEF Messages
    <3> QED
      BY <1>2, <3>1 DEF around
  <2> QED
    BY <1>2, <1>8, <2>1
<1>14. E \subseteq H \cup {t}
  BY <1>7, <1>11
<1>15. H \cup {t} \subseteq {h} \cup E
  <2>1. H \subseteq {h} \cup E
    BY <1>9, <1>12
  <2>2. t \in {h} \cup E
    BY <1>2, <1>12
  <2> QED
    BY <2>1, <2>2
<1>16. {h} \cup E = H \cup {t}
  BY <1>13, <1>14, <1>15
<1> QED
  BY <1>1, <1>2, <1>4, <1>5, <1>6, <1>7, <1>16

LEMMA BufferInvOK ==
  ASSUME TaskInv, BufferInv
  PROVE  BufferOK
<1> SUFFICES ASSUME NEW q \in BufQueue, q \in k.live
             PROVE  LET Q == buf_q[q]
                        H == {h \in DOMAIN Q.buffer : has_header(Q, h)}
                    IN  /\ Q.frbufsz \in 0 .. Q.bufsz
                        /\ Q.tail = (Q.head + Q.bufsz - Q.frbufsz) % Q.bufsz
                        /\ {Q.head} \cup {end_of_message(Q, h, size_at(Q, h)) : h \in H} = H \cup {Q.tail}
                        /\ Q.frbufsz # Q.bufsz => Waiters(q) = <<>>
  BY DEF BufferOK
<1>1. PICK B, Q : B = BufSize[q] /\ Q = buf_q[q]
  OBVIOUS
<1>2. B \in Nat \ {0} /\ Mult(B) /\ IsBuffer(Q, B) /\ (Q.frbufsz # B => NobodyWaits(q))
  BY <1>1, MultSize DEF BufferInv
<1>3. PICK H : H = {h \in DOMAIN Q.buffer : has_header(Q, h)}
  OBVIOUS
<1>4. /\ Q.bufsz = B /\ Q.frbufsz \in 0 .. Q.bufsz
      /\ Q.tail = (Q.head + Q.bufsz - Q.frbufsz) % Q.bufsz
      /\ {Q.head} \cup {end_of_message(Q, h, size_at(Q, h)) : h \in H} = H \cup {Q.tail}
  BY <1>2, <1>3, BufferIsOK
<1>5. NobodyWaits(q) => Waiters(q) = <<>>
  BY EmptyList, IpcObjects DEF IpcObj
<1> QED
  BY <1>1, <1>2, <1>3, <1>4, <1>5

LEMMA BufferStep ==
  ASSUME BufferInv, NEW q \in BufQueue, Base(q), NEW R, buf_q' = [buf_q EXCEPT ![q] = R],
         IsBuffer(R, BufSize[q]), R.frbufsz # BufSize[q] => NobodyWaits(q)'
  PROVE  BufferInv'
<1>1. BufQueue \subseteq Obj
  BY IpcObjects DEF IpcObj
<1>2. buf_q' = [x \in BufQueue |-> IF x = q THEN R ELSE buf_q[x]]
  BY DEF BufferInv
<1>3. \A x \in BufQueue \ {q} : NobodyWaits(x) => NobodyWaits(x)'
  BY <1>1 DEF Base, OthersKept, NobodyWaits
<1>4. buf_q' = [x \in BufQueue |-> buf_q'[x]]
  BY <1>2
<1>5. \A x \in BufQueue : /\ IsBuffer(buf_q'[x], BufSize[x])
                          /\ buf_q'[x].frbufsz # BufSize[x] => NobodyWaits(x)'
  <2> SUFFICES ASSUME NEW x \in BufQueue
               PROVE  /\ IsBuffer(buf_q'[x], BufSize[x])
                      /\ buf_q'[x].frbufsz # BufSize[x] => NobodyWaits(x)'
    OBVIOUS
  <2>1. CASE x = q
    <3>1. buf_q'[x] = R
      BY <1>2, <2>1
    <3> QED
      BY <2>1, <3>1
  <2>2. CASE x # q
    <3>1. buf_q'[x] = buf_q[x]
      BY <1>2, <2>2
    <3>2. /\ IsBuffer(buf_q[x], BufSize[x])
          /\ buf_q[x].frbufsz # BufSize[x] => NobodyWaits(x)
      BY DEF BufferInv
    <3> QED
      BY <1>3, <2>2, <3>1, <3>2
  <2> QED
    BY <2>1, <2>2
<1> QED
  BY <1>4, <1>5 DEF BufferInv

LEMMA BufferKept ==
  ASSUME BufferInv, buf_q' = buf_q, \A q \in BufQueue : NobodyWaits(q) => NobodyWaits(q)'
  PROVE  BufferInv'
BY DEF BufferInv

LEMMA BufferEmptied ==
  ASSUME BufferInv, NEW q \in BufQueue, Base(q), buf_q' = [buf_q EXCEPT ![q] = NewBuffer(q)]
  PROVE  BufferInv'
<1>1. PICK R : R = NewBuffer(q)
  OBVIOUS
<1>2. IsBuffer(R, BufSize[q]) /\ R.frbufsz = BufSize[q] /\ buf_q' = [buf_q EXCEPT ![q] = R]
  BY <1>1, NewBufferOK
<1> QED
  BY <1>2, BufferStep

\* The bytes of a message are none of them a header.
LEMMA BytesOfMessage ==
  ASSUME NEW m \in BufMsg
  PROVE  /\ Len(m) \in Nat /\ DOMAIN m = 1 .. Len(m)
         /\ \A j \in 1 .. Len(m) : m[j] # <<>> /\ m[j][1] # NoMsg
<1>1. PICK a \in Msg, n \in Nat : m = [i \in 1 .. n |-> <<a, i>>]
  BY BufQueueAssumption DEF BufMsg, Bytes
<1>2. Len(m) = n /\ DOMAIN m = 1 .. n /\ \A j \in 1 .. n : m[j] = <<a, j>>
  BY <1>1
<1>3. a # NoMsg
  BY MsgAssumption
<1>4. ASSUME NEW j \in 1 .. n PROVE m[j] # <<>> /\ m[j][1] # NoMsg
  <2>1. PICK b : b = <<a, j>>
    OBVIOUS
  <2>2. Len(b) = 2 /\ Len(<<>>) = 0 /\ b[1] = a
    BY <2>1
  <2>3. b # <<>>
    BY <2>2
  <2> QED
    BY <1>2, <1>3, <2>1, <2>2, <2>3
<1> QED
  BY <1>2, <1>4

LEMMA BufQueueOpInv ==
  ASSUME TaskInv, NoneForDead, BufferInv, NEW q \in BufQueue, BufQueueOp(q)
  PROVE  Base(q) /\ BufferInv'
<1>a. PICK B, Q : B = BufSize[q] /\ Q = buf_q[q]
  OBVIOUS
<1>0. /\ q \in IpcObj /\ q \in Obj /\ B \in Nat \ {0} /\ Mult(B) /\ IsBuffer(Q, B)
      /\ Q.bufsz = B /\ (Q.frbufsz # B => NobodyWaits(q))
  <2>1. q \in IpcObj /\ q \in Obj
    BY IpcObjects DEF IpcObj
  <2>2. B \in Nat \ {0} /\ Mult(B)
    BY <1>a, MultSize
  <2>3. IsBuffer(Q, B) /\ (Q.frbufsz # B => NobodyWaits(q))
    BY <1>a DEF BufferInv
  <2>4. Q.bufsz = B
    BY <2>2, <2>3, BufferIsOK
  <2> QED
    BY <2>1, <2>2, <2>3, <2>4
<1>c. ASSUME NEW R, Base(q), IsBuffer(R, B), NobodyWaits(q)', buf_q' = [buf_q EXCEPT ![q] = R]
      PROVE  BufferInv'
  BY <1>a, <1>c, BufferStep
<1>1. CASE raw_queue_buffer_create(q)
  <2>1. Base(q) /\ buf_q' = [buf_q EXCEPT ![q] = NewBuffer(q)]
    BY <1>0, <1>1, CreateBase DEF raw_queue_buffer_create
  <2> QED
    BY <2>1, BufferEmptied
<1>2. ASSUME NEW m \in BufMsg, queue_buffer_store(q, m) PROVE Base(q) /\ BufferInv'
  <2>1. PICK R : R = msg_to_end_buffer(Q, m)
    OBVIOUS
  <2>2. /\ NobodyWaits(q) /\ is_queue_buffer_free(Q, Len(m)) /\ UNCHANGED <<k, sys, pc, call, loop>>
        /\ buf_q' = [buf_q EXCEPT ![q] = R]
    <3>1. Waiters(q) = <<>>
      BY <1>2 DEF queue_buffer_store
    <3>2. NobodyWaits(q)
      BY <1>0, <3>1, EmptyList
    <3>3. buf_q' = [buf_q EXCEPT ![q] = msg_to_end_buffer(buf_q[q], m)]
      BY <1>2 DEF queue_buffer_store
    <3>4. /\ is_queue_buffer_free(Q, Len(m)) /\ UNCHANGED <<k, sys, pc, call, loop>>
      BY <1>2, <1>a DEF queue_buffer_store
    <3> QED
      BY <1>a, <2>1, <3>2, <3>3, <3>4
  <2>3. Base(q) /\ NobodyWaits(q)'
    BY <1>0, <2>2, DataBase DEF NobodyWaits
  <2>4. IsBuffer(R, B)
    BY <1>0, <2>1, <2>2, BytesOfMessage, StoreMessage
  <2> QED
    BY <2>2, <2>3, <2>4, <1>c
<1>3. ASSUME NEW m \in BufMsg, queue_buffer_send(q, m) PROVE Base(q) /\ BufferInv'
  <2>1. Base(q) /\ (NobodyWaits(q) => NobodyWaits(q)') /\ buf_q' = buf_q
    BY <1>0, <1>3, SendBase DEF queue_buffer_send
  <2>2. \A x \in BufQueue : NobodyWaits(x) => NobodyWaits(x)'
    BY <2>1, IpcObjects DEF IpcObj, Base, OthersKept, NobodyWaits
  <2> QED
    BY <2>1, <2>2, BufferKept
<1>4. CASE queue_buffer_receive(q)
  <2>1. PICK R : R = buffer_to_msg(Q)
    OBVIOUS
  <2>2. /\ ~ is_buffer_empty(Q) /\ UNCHANGED <<k, sys, pc, call, loop>>
        /\ buf_q' = [buf_q EXCEPT ![q] = R]
    <3>1. buf_q' = [buf_q EXCEPT ![q] = buffer_to_msg(buf_q[q])]
      BY <1>4 DEF queue_buffer_receive
    <3>2. ~ is_buffer_empty(Q) /\ UNCHANGED <<k, sys, pc, call, loop>>
      BY <1>4, <1>a DEF queue_buffer_receive
    <3> QED
      BY <1>a, <2>1, <3>1, <3>2
  <2>3. NobodyWaits(q)
    BY <1>0, <2>2 DEF is_buffer_empty
  <2>4. Base(q) /\ NobodyWaits(q)'
    BY <1>0, <2>2, <2>3, DataBase DEF NobodyWaits
  <2>5. IsBuffer(R, B)
    BY <1>0, <2>1, <2>2, TakeMessage
  <2> QED
    BY <2>2, <2>4, <2>5, <1>c
<1>5. ASSUME NEW timeout \in Timeouts, raw_queue_buffer_receive(q, timeout)
      PROVE  Base(q) /\ BufferInv'
  <2>1. Base(q) /\ buf_q' = buf_q /\ is_buffer_empty(Q)
    BY <1>0, <1>5, <1>a, QueueWaitBase DEF raw_queue_buffer_receive
  <2>2. Q.frbufsz = B
    BY <1>0, <2>1 DEF is_buffer_empty
  <2>3. buf_q' = [buf_q EXCEPT ![q] = Q]
    BY <1>a, <2>1 DEF BufferInv
  <2> QED
    BY <1>0, <1>a, <2>1, <2>2, <2>3, BufferStep
<1>6. CASE raw_queue_buffer_flush(q)
  <2>1. Base(q) /\ buf_q' = [buf_q EXCEPT ![q] = NewBuffer(q)]
    BY <1>0, <1>6, DataBase DEF raw_queue_buffer_flush
  <2> QED
    BY <2>1, BufferEmptied
<1>7. CASE raw_queue_buffer_delete(q)
  <2>1. Base(q) /\ buf_q' = [buf_q EXCEPT ![q] = NewBuffer(q)]
    BY <1>0, <1>7, QueueDeleteBase DEF raw_queue_buffer_delete
  <2> QED
    BY <2>1, BufferEmptied
<1> QED
  BY <1>1, <1>2, <1>3, <1>4, <1>5, <1>6, <1>7 DEF BufQueueOp

-----------------------------------------------------------------------------
(* The four kinds together.                                                 *)

LEMMA EventInvOK ==
  ASSUME TaskInv, EventInv
  PROVE  NoSatisfiedWaiter
<1> SUFFICES ASSUME NEW e \in Event, NEW i \in DOMAIN Waiters(e)
             PROVE  ~ satisfied(event_wait[Waiters(e)[i]].request, flags[e])
  BY DEF NoSatisfiedWaiter
<1>1. e \in Obj
  BY IpcObjects DEF IpcObj
<1>2. Waiters(e) \in Seq(Task) /\ \A t \in Task : In(t, Waiters(e)) <=> WaitsFor(t, e)
  BY <1>1, InvFacts DEF Consistent, LinkedAs, KernelState, Waiters, WaitsFor
<1>3. PICK t \in Task : t = Waiters(e)[i] /\ In(t, Waiters(e))
  BY <1>2 DEF In
<1> QED
  BY <1>2, <1>3 DEF EventInv

LEMMA RingInvOK ==
  ASSUME TaskInv, RingInv
  PROVE  RingOK
<1> SUFFICES ASSUME NEW q \in Queue
             PROVE  LET Q == msg_q[q]
                    IN  /\ \A i \in 0 .. QSize[q] - 1 :
                             Q.slot[(Q.read + i) % QSize[q]] # NoMsg <=> i < Q.current_numbers
                        /\ Q.write = (Q.read + Q.current_numbers) % QSize[q]
                        /\ Q.current_numbers > 0 => Waiters(q) = <<>>
  BY DEF RingOK
<1>1. IsRing(msg_q[q], QSize[q]) /\ (msg_q[q].current_numbers > 0 => NobodyWaits(q))
  BY DEF RingInv
<1>2. NobodyWaits(q) => Waiters(q) = <<>>
  BY EmptyList, IpcObjects DEF IpcObj
<1> QED
  BY <1>1, <1>2 DEF IsRing

\* The inductive invariant.
IpcInv == TaskInv /\ NoneForDead /\ EventInv /\ RingInv /\ NodesInv /\ BufferInv

LEMMA IpcInitInv == IpcInit => IpcInv
<1> SUFFICES ASSUME IpcInit PROVE IpcInv
  OBVIOUS
<1>1. TaskInv /\ \A t \in Task : \A o : ~ WaitsFor(t, o)
  BY TaskInitInv DEF IpcInit, TaskInit, InitKernel, WaitsFor, Pending
<1>2. NoneForDead
  BY <1>1 DEF NoneForDead, NobodyWaits
<1>3. EventInv
  BY <1>1 DEF IpcInit, EventInit, EventInv, EventType, NotWaiting, NoRequest
<1>4. RingInv
  <2>1. msg_q = [q \in Queue |-> NewRing(q)]
    BY DEF IpcInit, QueueInit
  <2>2. \A q \in Queue : IsRing(NewRing(q), QSize[q])
    BY NewRingOK
  <2> QED
    BY <1>1, <2>1, <2>2 DEF RingInv, NobodyWaits
<1>5. NodesInv
  <2>1. size_q = [q \in SizeQueue |-> NewSizeQueue(QSize[q])]
    BY DEF IpcInit, QueueSizeInit
  <2>2. \A q \in SizeQueue : HasNodes(NewSizeQueue(QSize[q]), QSize[q])
    BY IpcObjects, NewNodes
  <2> QED
    BY <2>1, <2>2 DEF NodesInv
<1>6. BufferInv
  <2>1. buf_q = [q \in BufQueue |-> NewBuffer(q)]
    BY DEF IpcInit, QueueBufferInit
  <2>2. \A q \in BufQueue : IsBuffer(NewBuffer(q), BufSize[q])
    BY NewBufferOK
  <2> QED
    BY <1>1, <2>1, <2>2 DEF BufferInv, NobodyWaits
<1> QED
  BY <1>1, <1>2, <1>3, <1>4, <1>5, <1>6 DEF IpcInv

LEMMA KernelStepInv ==
  ASSUME IpcInv, KernelStep
  PROVE  IpcInv'
<1>1. TaskInv' /\ Calm
  BY TaskNextInv, TaskNextCalm DEF KernelStep, IpcInv
<1>2. \A t \in Task, o \in Event : WaitsFor(t, o)' => WaitsFor(t, o)
  BY <1>1 DEF Calm, StartsNoWait, WaitsFor
<1>3. \A o : NobodyWaits(o) => NobodyWaits(o)'
  BY <1>1, CalmKeeps
<1>4. NoneForDead'
  BY <1>1, <1>3 DEF IpcInv, NoneForDead, Calm
<1>5. EventInv'
  BY <1>2, EventCallsEnd DEF IpcInv, KernelStep
<1>6. RingInv' /\ NodesInv' /\ BufferInv'
  BY <1>3, RingKept, NodesKept, BufferKept DEF IpcInv, KernelStep
<1> QED
  BY <1>1, <1>4, <1>5, <1>6 DEF IpcInv

\* An operation on one object starts no wait for an object of another kind.
LEMMA OtherKinds ==
  ASSUME NEW o \in IpcObj, Base(o), NEW S, S \subseteq IpcObj, o \notin S
  PROVE  /\ \A t \in Task, s \in S : WaitsFor(t, s)' => WaitsFor(t, s)
         /\ \A s \in S : NobodyWaits(s) => NobodyWaits(s)'
<1>1. \A t \in Task, s \in S : WaitsFor(t, s)' => WaitsFor(t, s)
  BY IpcObjects DEF Base, OthersKept
<1> QED
  BY <1>1 DEF NobodyWaits

LEMMA OpStepInv ==
  ASSUME IpcInv, EventStep \/ QueueStep \/ QueueSizeStep \/ QueueBufferStep
  PROVE  IpcInv'
<1>0. /\ TaskInv /\ NoneForDead /\ EventInv /\ RingInv /\ NodesInv /\ BufferInv
      /\ Event \subseteq IpcObj /\ Queue \subseteq IpcObj /\ SizeQueue \subseteq IpcObj
      /\ BufQueue \subseteq IpcObj
  BY DEF IpcInv, IpcObj
<1>1. ASSUME NEW o \in IpcObj, Base(o), NEW S, S \subseteq IpcObj, o \notin S
      PROVE  /\ \A t \in Task, s \in S : WaitsFor(t, s)' => WaitsFor(t, s)
             /\ \A s \in S : NobodyWaits(s) => NobodyWaits(s)'
  BY <1>1, OtherKinds
<1>2. ASSUME NEW o \in IpcObj, Base(o), o \notin Event, UNCHANGED eventVars PROVE EventInv'
  BY <1>0, <1>1, <1>2, EventKept
<1>3. ASSUME NEW o \in IpcObj, Base(o), o \notin Queue, msg_q' = msg_q PROVE RingInv'
  BY <1>0, <1>1, <1>3, RingKept
<1>4. ASSUME size_q' = size_q PROVE NodesInv'
  BY <1>0, <1>4, NodesKept
<1>5. ASSUME NEW o \in IpcObj, Base(o), o \notin BufQueue, buf_q' = buf_q PROVE BufferInv'
  BY <1>0, <1>1, <1>5, BufferKept
<1>6. CASE EventStep
  <2>1. PICK o \in Event :
        /\ EventOp(o) /\ msg_q' = msg_q /\ size_q' = size_q /\ buf_q' = buf_q
        /\ o \in IpcObj /\ o \notin Queue /\ o \notin BufQueue
    BY <1>0, <1>6, IpcAssumption DEF EventStep
  <2>2. Base(o) /\ EventInv'
    BY <1>0, <2>1, EventOpInv
  <2>3. RingInv' /\ NodesInv' /\ BufferInv'
    BY <1>3, <1>4, <1>5, <2>1, <2>2
  <2> QED
    BY <2>2, <2>3 DEF IpcInv, Base
<1>7. CASE QueueStep
  <2>1. PICK o \in Queue :
        /\ QueueOp(o) /\ UNCHANGED eventVars /\ size_q' = size_q
        /\ buf_q' = buf_q /\ o \in IpcObj /\ o \notin Event /\ o \notin BufQueue
    BY <1>0, <1>7, IpcAssumption DEF QueueStep
  <2>2. Base(o) /\ RingInv'
    BY <1>0, <2>1, QueueOpInv
  <2>3. EventInv' /\ NodesInv' /\ BufferInv'
    BY <1>2, <1>4, <1>5, <2>1, <2>2
  <2> QED
    BY <2>2, <2>3 DEF IpcInv, Base
<1>8. CASE QueueSizeStep
  <2>1. PICK o \in SizeQueue :
        /\ SizeQueueOp(o) /\ UNCHANGED eventVars /\ msg_q' = msg_q
        /\ buf_q' = buf_q /\ o \in IpcObj
        /\ o \notin Event /\ o \notin Queue /\ o \notin BufQueue
    BY <1>0, <1>8, IpcAssumption DEF QueueSizeStep
  <2>2. Base(o) /\ NodesInv'
    BY <1>0, <2>1, SizeQueueOpInv
  <2>3. EventInv' /\ RingInv' /\ BufferInv'
    BY <1>2, <1>3, <1>5, <2>1, <2>2
  <2> QED
    BY <2>2, <2>3 DEF IpcInv, Base
<1>9. CASE QueueBufferStep
  <2>1. PICK o \in BufQueue :
        /\ BufQueueOp(o) /\ UNCHANGED eventVars /\ msg_q' = msg_q
        /\ size_q' = size_q /\ o \in IpcObj /\ o \notin Event /\ o \notin Queue
    BY <1>0, <1>9, IpcAssumption DEF QueueBufferStep
  <2>2. Base(o) /\ BufferInv'
    BY <1>0, <2>1, BufQueueOpInv
  <2>3. EventInv' /\ RingInv' /\ NodesInv'
    BY <1>2, <1>3, <1>4, <2>1, <2>2
  <2> QED
    BY <2>2, <2>3 DEF IpcInv, Base
<1> QED
  BY <1>6, <1>7, <1>8, <1>9

LEMMA IpcInvStep == IpcInv /\ [IpcNext]_ipcVars => IpcInv'
<1>1. ASSUME IpcInv, UNCHANGED ipcVars PROVE IpcInv'
  <2>1. UNCHANGED <<taskVars, eventVars, msg_q, size_q, buf_q>>
    BY <1>1 DEF ipcVars
  <2>2. TaskInv' /\ k' = k
    BY <1>1, <2>1, TaskNextInv DEF IpcInv, taskVars
  <2>3. \A t, o : WaitsFor(t, o)' <=> WaitsFor(t, o)
    BY <2>2 DEF WaitsFor
  <2>4. \A o : NobodyWaits(o)' <=> NobodyWaits(o)
    BY <2>3 DEF NobodyWaits
  <2>5. NoneForDead'
    BY <1>1, <2>2, <2>4 DEF IpcInv, NoneForDead
  <2>6. EventInv'
    BY <1>1, <2>1, <2>3, EventKept DEF IpcInv
  <2>7. RingInv' /\ NodesInv' /\ BufferInv'
    BY <1>1, <2>1, <2>4, RingKept, NodesKept, BufferKept DEF IpcInv
  <2> QED
    BY <2>2, <2>5, <2>6, <2>7 DEF IpcInv
<1> QED
  BY <1>1, KernelStepInv, OpStepInv DEF IpcNext

\* Between any two critical sections the rings, nodes and buffers of the queues hold
\* what their indices and counts say, nothing of them is lost, and no task waits for
\* flags or messages that are there.
THEOREM ObjectsCorrect == IpcSpec => []ObjectsOK
<1>1. IpcInv => ObjectsOK
  BY EventInvOK, RingInvOK, NodesInvOK, BufferInvOK DEF IpcInv, ObjectsOK
<1> QED
  BY <1>1, IpcInitInv, IpcInvStep, PTL DEF IpcSpec

-----------------------------------------------------------------------------
(* RawIpc implements AbsEvent.  What the wait of a task for an object looks *)
(* like from outside, without the flags and the message.                    *)

Outside == [on |-> "none", outcome |-> "none"]
ViewOf(o, outcome) == [on |-> o, outcome |-> outcome]

View(t) ==
  IF call[t] \notin IpcObj \/ k.task_state[t] = "DELETED" THEN Outside
  ELSE ViewOf(call[t], IF k.task_state[t] \in Pending THEN "waiting"
                       ELSE IF k.block_status[t] = "OK" THEN "granted" ELSE "refused")

LEMMA ObjNames == "none" \notin IpcObj /\ "sleep" \notin IpcObj /\ IpcObj \cap Mutex = {}
BY TaskAssumption, EventAssumption, QueueAssumption, QueueSizeAssumption, BufQueueAssumption,
   MsgAssumption DEF IpcObj

LEMMA ViewWaits ==
  ASSUME CallInv, NEW o \in IpcObj, NEW t \in Task
  PROVE  View(t) = ViewOf(o, "waiting") <=> WaitsFor(t, o)
<1>1. k.task_state[t] \in Pending => call[t] = k.block_obj[t] /\ k.task_state[t] # "DELETED"
  BY DEF CallInv, CallOK, Pending
<1> QED
  BY <1>1, ObjNames DEF View, ViewOf, Outside, WaitsFor

\* How the wait of one task may change in a step of the kernel.
OneView(t) ==
  \/ View(t)' = View(t)
  \/ View(t)' = Outside
  \/ \E o \in IpcObj : View(t) = ViewOf(o, "waiting") /\ View(t)' = ViewOf(o, "refused")

\* A task whose state and reason stay keeps its view.
LEMMA SameView ==
  ASSUME TaskInv, CallInv, TaskNext, ~ block_state_post_process, NEW u \in Task,
         k'.task_state[u] = k.task_state[u], k'.block_status[u] = k.block_status[u]
  PROVE  View(u)' = View(u)
<1>1. CASE call'[u] = call[u] \/ k.task_state[u] = "DELETED"
  BY <1>1 DEF View
<1>2. CASE pc[u] = "run" /\ k.task_state[u] # "DELETED" /\ call'[u] = "sleep"
  <2>1. call[u] = "none"
    BY <1>2 DEF CallInv, CallOK
  <2> QED
    BY <1>2, <2>1, ObjNames DEF View
<1> QED
  BY <1>1, <1>2, CallStep

\* The task that a step of the kernel moves leaves its wait refused or not at all.
LEMMA MovedView ==
  ASSUME TaskInv, CallInv, TaskNext, ~ block_state_post_process, NEW u \in Task
  PROVE  OneView(u)
<1>1. StartsNoWait(u) /\ Informed(u)
  BY TaskNextCalm, TaskNextTold DEF Calm, Told
<1>2. CASE k'.task_state[u] = "DELETED"
  BY <1>2 DEF OneView, View
<1>3. CASE k.task_state[u] = "DELETED" /\ k'.task_state[u] # "DELETED"
  BY <1>1, <1>3, ObjNames DEF Informed, OneView, View
<1>4. CASE /\ k.task_state[u] # "DELETED" /\ k'.task_state[u] # "DELETED"
           /\ call'[u] = call[u] /\ call[u] \in IpcObj
  <2>1. CallOK(u)
    BY <1>4 DEF CallInv
  <2>2. CASE k.task_state[u] \in Pending /\ k'.task_state[u] \in Pending
    BY <1>4, <2>2 DEF OneView, View
  <2>3. CASE k.task_state[u] \in Pending /\ k'.task_state[u] \notin Pending
    <3>1. k'.block_status[u] \in {"ABORT", "TIMEOUT"}
      BY <1>1, <1>4, <2>1, <2>3, ObjNames DEF Informed, Outcome, CallOK
    <3>2. View(u) = ViewOf(call[u], "waiting") /\ View(u)' = ViewOf(call[u], "refused")
      BY <1>4, <2>3, <3>1 DEF View
    <3> QED
      BY <1>4, <3>2 DEF OneView
  <2>4. CASE k.task_state[u] \notin Pending
    <3>1. k.task_state[u] \notin Away
      BY <1>4, <2>1, <2>4, ObjNames DEF CallOK, Away
    <3>2. k'.task_state[u] \notin Pending /\ k'.block_status[u] = k.block_status[u]
      BY <1>1, <1>4, <2>4, <3>1 DEF Informed, StartsNoWait
    <3> QED
      BY <1>4, <2>4, <3>2 DEF OneView, View
  <2> QED
    BY <2>2, <2>3, <2>4
<1>5. CASE k.task_state[u] # "DELETED" /\ call'[u] = call[u] /\ call[u] \notin IpcObj
  BY <1>5 DEF OneView, View
<1>6. CASE k.task_state[u] # "DELETED" /\ call'[u] = "sleep"
  BY <1>6, ObjNames DEF OneView, View
<1> QED
  BY <1>2, <1>3, <1>4, <1>5, <1>6, CallStep

\* A step of the kernel changes the view of at most one task.
LEMMA KernelViews ==
  ASSUME TaskInv, CallInv, TaskNext
  PROVE  /\ CallInv' /\ k'.live = k.live
         /\ \E t \in Task : OneView(t) /\ \A u \in Task \ {t} : View(u)' = View(u)
         /\ \A u \in Task : call'[u] = "none" => View(u)' = Outside
<1>1. CallInv' /\ k'.live = k.live
  BY TaskStepCall, TaskNextCalm DEF Calm
<1>2. \A u \in Task : call'[u] = "none" => View(u)' = Outside
  BY ObjNames DEF View
<1>3. CASE block_state_post_process
  <2>1. active \in Task
    BY InvFacts
  <2>2. OneView(active)
    BY <1>3, PostProcess, ObjNames DEF OneView, View
  <2>3. \A u \in Task \ {active} : View(u)' = View(u)
    BY <1>3, PostProcess DEF View
  <2> QED
    BY <1>1, <1>2, <2>1, <2>2, <2>3
<1>4. CASE ~ block_state_post_process
  <2>1. PICK t \in Task : \A u \in Task \ {t} : /\ k'.task_state[u] = k.task_state[u]
                                               /\ k'.block_status[u] = k.block_status[u]
    BY <1>4, TaskNextTold DEF Told, OneTask
  <2>2. \A u \in Task \ {t} : View(u)' = View(u)
    BY <1>4, <2>1, SameView
  <2>3. OneView(t)
    BY <1>4, MovedView
  <2> QED
    BY <1>1, <1>2, <2>2, <2>3
<1> QED
  BY <1>3, <1>4

-----------------------------------------------------------------------------
(* The ways in which an operation on o changes the kernel.                  *)

Creates(o) ==
  /\ Boot \/ Caller
  /\ o \notin k.live
  /\ k' = [k EXCEPT !.block_list[o] = <<>>, !.live = @ \cup {o}]
  /\ UNCHANGED <<sys, pc, call, loop>>

Wakes(o, T) ==
  /\ Caller /\ o \in k.live
  /\ k' = wake_waiters(k, o, T, "OK") /\ Resched /\ UNCHANGED <<sys, call, loop>>

Deletes(o) ==
  /\ TaskRuns
  /\ k' = wake_waiters([k EXCEPT !.live = @ \ {o}], o, Task, "DEL")
  /\ Resched /\ UNCHANGED <<sys, call, loop>>

Waits(o, timeout) ==
  /\ TaskRuns /\ MayStop(active) /\ o \in k.live
  /\ k' = raw_pend_object(k, o, active, timeout) /\ Block(o) /\ UNCHANGED <<sys, loop>>

\* The wait of the tasks of T that wait for o ends.
Ends(o, T, outcome) ==
  \A t \in Task : View(t)' = IF t \in T /\ WaitsFor(t, o) THEN ViewOf(o, outcome) ELSE View(t)

\* A step that leaves the tasks where they are.
LEMMA StillViews ==
  ASSUME TaskInv, CallInv, loop = NoLoop, loop' = loop,
         \/ UNCHANGED <<k, pc, call>>
         \/ /\ UNCHANGED <<pc, call>>
            /\ k'.task_state = k.task_state /\ k'.block_obj = k.block_obj
            /\ k'.block_status = k.block_status
  PROVE  CallInv' /\ \A t \in Task : View(t)' = View(t)
<1>1. /\ k'.task_state = k.task_state /\ k'.block_obj = k.block_obj
      /\ k'.block_status = k.block_status /\ UNCHANGED <<pc, call>>
  OBVIOUS
<1>2. \A t \in Task : k'.task_state[t] # "DELETED" => CallOK(t)'
  BY <1>1, CallStays
<1> QED
  BY <1>1, <1>2, NoLoopOK DEF CallInv, FreeAt, WakeLive, View

LEMMA DataViews ==
  ASSUME TaskInv, CallInv, UNCHANGED <<k, sys, pc, call, loop>>
  PROVE  CallInv' /\ \A t \in Task : View(t)' = View(t)
BY DEF CallInv, CallOK, FreeAt, WakeLive, sys, active, View

LEMMA CreateViews ==
  ASSUME TaskInv, CallInv, NEW o \in IpcObj, Creates(o)
  PROVE  /\ CallInv' /\ \A t \in Task : View(t)' = View(t)
         /\ k'.live = k.live \cup {o} /\ o \notin k.live
<1>1. /\ k'.live = k.live \cup {o}
      /\ k'.task_state = k.task_state /\ k'.block_obj = k.block_obj
      /\ k'.block_status = k.block_status /\ UNCHANGED <<pc, call>>
  BY InvFacts DEF Creates, KernelState
<1>2. loop = NoLoop /\ loop' = loop
  BY DEF Creates, Boot, Caller, TaskRuns, TaskAt, IsrRuns
<1> QED
  BY <1>1, <1>2, StillViews DEF Creates

\* The wake-ups from K, the kernel that the operation has marked.
LEMMA WakeViews ==
  ASSUME TaskInv, CallInv, Caller, NEW o \in IpcObj, NEW T, NEW status \in {"OK", "DEL"},
         NEW K, Consistent(K), K.task_state = k.task_state, K.block_obj = k.block_obj,
         K.block_status = k.block_status,
         k' = wake_waiters(K, o, T, status), Resched, UNCHANGED <<sys, call, loop>>
  PROVE  /\ CallInv' /\ k'.live = K.live
         /\ Ends(o, T, IF status = "OK" THEN "granted" ELSE "refused")
<1>1. o \in Obj /\ status \in BlockState /\ loop = NoLoop /\ loop' = NoLoop
  BY IpcObjects DEF BlockState, Caller, TaskRuns, TaskAt, IsrRuns
<1>2. /\ k'.live = K.live
      /\ \A t \in Task :
           IF t \in T /\ In(t, K.block_list[o])
           THEN /\ k.task_state[t] \in Pending
                /\ k'.task_state[t] \in Awake /\ k'.block_status[t] = status
           ELSE /\ k'.task_state[t] = k.task_state[t] /\ k'.block_obj[t] = k.block_obj[t]
                /\ k'.block_status[t] = k.block_status[t]
  BY <1>1, wake_waitersWake
<1>3. \A t \in Task : In(t, K.block_list[o]) <=> WaitsFor(t, o)
  BY <1>1 DEF Consistent, LinkedAs, WaitsFor
<1>4. ASSUME NEW t \in Task, pc'[t] \in {"run", "resched"}
      PROVE  pc[t] \in {"run", "resched"}
  BY <1>4, FromRun DEF CallInv
<1>5. ASSUME NEW t \in Task, k'.task_state[t] # "DELETED"
      PROVE  CallOK(t)'
  <2>1. CASE t \in T /\ WaitsFor(t, o)
    <3>1. CallOK(t)
      BY <2>1 DEF CallInv, WaitsFor, Pending
    <3>2. k'.task_state[t] \notin Pending \cup Timed
      BY <1>2, <1>3, <2>1 DEF Awake, Pending, Timed
    <3> QED
      BY <1>4, <3>1, <3>2 DEF CallOK
  <2>2. CASE ~ (t \in T /\ WaitsFor(t, o))
    <3>1. k'.task_state[t] = k.task_state[t] /\ k'.block_obj[t] = k.block_obj[t]
      BY <1>2, <1>3, <2>2
    <3>2. CallOK(t)
      BY <1>5, <3>1 DEF CallInv
    <3> QED
      BY <1>4, <3>1, <3>2 DEF CallOK
  <2> QED
    BY <2>1, <2>2
<1>6. CallInv'
  BY <1>1, <1>5, NoLoopOK DEF CallInv, FreeAt, WakeLive
<1>7. ASSUME NEW t \in Task
      PROVE  View(t)' = IF t \in T /\ WaitsFor(t, o)
                        THEN ViewOf(o, IF status = "OK" THEN "granted" ELSE "refused") ELSE View(t)
  <2>1. CASE t \in T /\ WaitsFor(t, o)
    <3>1. call[t] = o /\ k.task_state[t] # "DELETED"
      BY <2>1 DEF CallInv, CallOK, WaitsFor, Pending
    <3>2. k'.task_state[t] \notin Pending \cup {"DELETED"} /\ k'.block_status[t] = status
      BY <1>2, <1>3, <2>1 DEF Awake, Pending
    <3> QED
      BY <2>1, <3>1, <3>2 DEF View
  <2>2. CASE ~ (t \in T /\ WaitsFor(t, o))
    BY <1>2, <1>3, <2>2 DEF View
  <2> QED
    BY <2>1, <2>2
<1> QED
  BY <1>2, <1>6, <1>7 DEF Ends

LEMMA WakesViews ==
  ASSUME TaskInv, CallInv, NEW o \in IpcObj, NEW T, Wakes(o, T)
  PROVE  CallInv' /\ k'.live = k.live /\ Ends(o, T, "granted")
<1>1. Consistent(k)
  BY InvFacts
<1> QED
  BY <1>1, WakeViews DEF Wakes

LEMMA DeletesViews ==
  ASSUME TaskInv, CallInv, NEW o \in IpcObj, Deletes(o)
  PROVE  CallInv' /\ k'.live = k.live \ {o} /\ Ends(o, Task, "refused")
<1> DEFINE K == [k EXCEPT !.live = @ \ {o}]
<1>1. k.live \ {o} \in SUBSET Obj /\ K = [k EXCEPT !.live = k.live \ {o}]
  BY InvFacts DEF KernelState
<1>2. K.block_status = k.block_status
  BY InvFacts DEF KernelState
<1>3. /\ Consistent(K) /\ K.live = k.live \ {o} /\ K.task_state = k.task_state
      /\ K.block_obj = k.block_obj
  <2> HIDE DEF K
  <2> QED
    BY <1>1, InvFacts, NewLive
<1>4. Caller /\ k' = wake_waiters(K, o, Task, "DEL") /\ Resched /\ UNCHANGED <<sys, call, loop>>
  BY DEF Deletes, Caller
<1> HIDE DEF K
<1> QED
  BY <1>2, <1>3, <1>4, WakeViews

LEMMA WaitsViews ==
  ASSUME TaskInv, CallInv, NEW o \in IpcObj, NEW timeout \in Timeouts, Waits(o, timeout)
  PROVE  /\ CallInv' /\ k'.live = k.live
         /\ \E a \in Task : /\ a = active /\ View(a) = Outside /\ View(a)' = ViewOf(o, "waiting")
                            /\ \A t \in Task \ {a} : View(t)' = View(t)
<1>1. /\ TaskRuns /\ loop = NoLoop /\ pc[active] = "run" /\ Block(o)
      /\ k' = raw_pend_object(k, o, active, timeout) /\ UNCHANGED <<sys, loop>>
  BY DEF Waits, TaskRuns, TaskAt
<1>2. /\ active \in Task \ {Idle} /\ k.task_state[active] = "RDY" /\ o \in Obj /\ timeout \in Ticks
  BY RunningIsReady, IpcObjects, TaskAssumption DEF Waits, MayStop
<1>3. /\ Moves(k, k', active) /\ k'.task_state[active] \in Pending /\ k'.block_obj[active] = o
  BY <1>1, <1>2, InvFacts, raw_pend_objectMoves
<1>4. /\ pc' = [pc EXCEPT ![active] = "blocking"] /\ call' = [call EXCEPT ![active] = o]
      /\ k'.live = k.live
  BY <1>1, <1>3 DEF Block, Moves, OneMoves
<1>5. pc'[active] = "blocking" /\ call'[active] = o
  BY <1>2, <1>4, InvFacts
<1>6. ASSUME NEW t \in Task \ {active}
      PROVE  /\ pc'[t] = pc[t] /\ call'[t] = call[t] /\ k'.task_state[t] = k.task_state[t]
             /\ k'.block_obj[t] = k.block_obj[t] /\ k'.block_status[t] = k.block_status[t]
  BY <1>3, <1>4, InvFacts DEF Moves, OneMoves
<1>7. ASSUME NEW t \in Task, k'.task_state[t] # "DELETED"
      PROVE  CallOK(t)'
  <2>1. CASE t = active
    BY <1>3, <1>5, <2>1 DEF CallOK
  <2>2. CASE t # active
    BY <1>6, <1>7, <2>2 DEF CallInv, CallOK
  <2> QED
    BY <2>1, <2>2
<1>8. CallInv'
  BY <1>1, <1>7, NoLoopOK DEF CallInv, FreeAt, WakeLive
<1>9. View(active) = Outside
  <2>1. call[active] = "none"
    BY <1>1, <1>2 DEF CallInv, CallOK
  <2> QED
    BY <2>1, ObjNames DEF View
<1>10. View(active)' = ViewOf(o, "waiting")
  <2>1. active' = active /\ k'.task_state[active] # "DELETED"
    BY <1>3 DEF Moves, OneMoves, active, Pending
  <2> QED
    BY <1>3, <1>5, <2>1 DEF View
<1>11. \A t \in Task \ {active} : View(t)' = View(t)
  BY <1>6 DEF View
<1>12. PICK a \in Task : a = active /\ a = active'
  BY <1>2, <1>3 DEF Moves, OneMoves, active
<1> QED
  BY <1>4, <1>8, <1>9, <1>10, <1>11, <1>12

\* An operation on o changes no view of another object, and neither creates nor deletes one.
ViewsOn(o) ==
  /\ CallInv'
  /\ k'.live \ {o} = k.live \ {o}
  /\ \A t \in Task : \/ View(t)' = View(t)
                     \/ View(t).on \in {o, "none"} /\ View(t)'.on \in {o, "none"}

KernelForm(o) ==
  \/ UNCHANGED <<k, sys, pc, call, loop>>
  \/ Creates(o) \/ Deletes(o)
  \/ \E T : Wakes(o, T)
  \/ \E timeout \in Timeouts : Waits(o, timeout)

LEMMA FormViews ==
  ASSUME TaskInv, CallInv, NEW o \in IpcObj, KernelForm(o)
  PROVE  ViewsOn(o)
<1>1. CASE UNCHANGED <<k, sys, pc, call, loop>>
  BY <1>1, DataViews DEF ViewsOn
<1>2. CASE Creates(o)
  BY <1>2, CreateViews DEF ViewsOn
<1>3. \A t \in Task : WaitsFor(t, o) => View(t).on = o
  BY ViewWaits DEF ViewOf
<1>4. ASSUME NEW T, NEW outcome, Ends(o, T, outcome), NEW t \in Task
      PROVE  \/ View(t)' = View(t)
             \/ View(t).on \in {o, "none"} /\ View(t)'.on \in {o, "none"}
  BY <1>3, <1>4 DEF Ends, ViewOf
<1>5. CASE Deletes(o)
  BY <1>4, <1>5, DeletesViews DEF ViewsOn
<1>6. ASSUME NEW T, Wakes(o, T) PROVE ViewsOn(o)
  BY <1>4, <1>6, WakesViews DEF ViewsOn
<1>7. ASSUME NEW timeout \in Timeouts, Waits(o, timeout) PROVE ViewsOn(o)
  BY <1>7, WaitsViews DEF ViewsOn, ViewOf, Outside
<1> QED
  BY <1>1, <1>2, <1>5, <1>6, <1>7 DEF KernelForm

LEMMA EventForm == \A e \in Event : EventOp(e) => KernelForm(e)
<1> SUFFICES ASSUME NEW e \in Event, EventOp(e) PROVE KernelForm(e)
  OBVIOUS
<1>1. CASE /\ ~ \E f \in SetFlags : event_set_or(e, f)
           /\ ~ \E r \in Request, timeout \in Timeouts : raw_event_get(e, r, timeout)
  BY <1>1 DEF EventOp, KernelForm, Creates, Deletes, raw_event_create, raw_event_delete,
              event_take, event_set_and
<1>2. ASSUME NEW f \in SetFlags, event_set_or(e, f) PROVE KernelForm(e)
  BY <1>2 DEF event_set_or, KernelForm, Wakes
<1>3. ASSUME NEW r \in Request, NEW timeout \in Timeouts, raw_event_get(e, r, timeout)
      PROVE  KernelForm(e)
  BY <1>3 DEF raw_event_get, KernelForm, Waits
<1> QED
  BY <1>1, <1>2, <1>3

\* The three kinds of queue send to waiters, wait and are deleted in the same way.
QueueForm(q) ==
  \/ UNCHANGED <<k, sys, pc, call, loop>>
  \/ Creates(q)
  \/ \E m, all : Caller /\ q \in k.live /\ send_to_waiters(q, m, all) /\ UNCHANGED <<sys, call, loop>>
  \/ \E timeout \in Timeouts : q \in k.live /\ raw_queue_wait(q, timeout) /\ UNCHANGED <<sys, loop>>
  \/ queue_delete(q) /\ UNCHANGED <<sys, loop>>

LEMMA QueueFormKernel ==
  ASSUME NEW q, QueueForm(q)
  PROVE  KernelForm(q)
<1>1. CASE queue_delete(q) /\ UNCHANGED <<sys, loop>>
  BY <1>1 DEF queue_delete, KernelForm, Deletes
<1>2. ASSUME NEW m, NEW all, Caller, q \in k.live, send_to_waiters(q, m, all),
             UNCHANGED <<sys, call, loop>>
      PROVE  KernelForm(q)
  BY <1>2 DEF send_to_waiters, KernelForm, Wakes
<1>3. ASSUME NEW timeout \in Timeouts, q \in k.live, raw_queue_wait(q, timeout), UNCHANGED <<sys, loop>>
      PROVE  KernelForm(q)
  BY <1>3 DEF raw_queue_wait, KernelForm, Waits
<1> QED
  BY <1>1, <1>2, <1>3 DEF QueueForm, KernelForm

LEMMA QueueForms ==
  /\ \A q \in Queue : QueueOp(q) => KernelForm(q)
  /\ \A q \in SizeQueue : SizeQueueOp(q) => KernelForm(q)
  /\ \A q \in BufQueue : BufQueueOp(q) => KernelForm(q)
<1>1. ASSUME NEW q, QueueOp(q) PROVE QueueForm(q)
  BY <1>1 DEF QueueOp, QueueForm, Creates, raw_queue_create, msg_post_store, msg_post_send,
              queue_receive, raw_queue_receive, raw_queue_flush, raw_queue_delete
<1>2. ASSUME NEW q, SizeQueueOp(q) PROVE QueueForm(q)
  BY <1>2 DEF SizeQueueOp, QueueForm, Creates, raw_queue_size_create, msg_size_post_store,
              msg_size_post_send, queue_size_receive, raw_queue_size_receive,
              raw_queue_size_flush, raw_queue_size_delete
<1>3. ASSUME NEW q, BufQueueOp(q) PROVE QueueForm(q)
  BY <1>3 DEF BufQueueOp, QueueForm, Creates, raw_queue_buffer_create, queue_buffer_store,
              queue_buffer_send, queue_buffer_receive, raw_queue_buffer_receive,
              raw_queue_buffer_flush, raw_queue_buffer_delete
<1> QED
  BY <1>1, <1>2, <1>3, QueueFormKernel

-----------------------------------------------------------------------------
(* Events.                                                                  *)

EventView(v, w) ==
  IF v.on \notin Event THEN [on |-> "none"]
  ELSE IF v.outcome = "waiting"
  THEN [on |-> v.on, request |-> w.request, outcome |-> "waiting"]
  ELSE IF v.outcome = "granted"
  THEN [on |-> v.on, outcome |-> "granted", got |-> w.actual]
  ELSE [on |-> v.on, outcome |-> "refused"]

LEMMA EventViews ==
  \A t \in Task : /\ eventWaitOf(t) = EventView(View(t), event_wait[t])
                  /\ eventWaitOf(t)' = EventView(View(t)', event_wait'[t])
<1>1. Event \subseteq IpcObj /\ "none" \notin Event
  BY ObjNames DEF IpcObj
<1> QED
  BY <1>1 DEF eventWaitOf, EventView, View, ViewOf, Outside

\* The abstract wait follows the view.
LEMMA EventWaits ==
  ASSUME CallInv, NEW t \in Task, NEW e \in Event
  PROVE  /\ WaitsFor(t, e) => eventWaitOf(t) = AbsE!Waiting(e, event_wait[t].request)
         /\ AbsE!IsWaiting(t, e) <=> WaitsFor(t, e) /\ event_wait[t].request \in Request
<1>1. e \in IpcObj /\ "none" \notin Event
  BY ObjNames DEF IpcObj
<1>2. WaitsFor(t, e) => eventWaitOf(t) = AbsE!Waiting(e, event_wait[t].request)
  BY <1>1, ViewWaits, EventViews DEF EventView, ViewOf, AbsE!Waiting
<1>3. ASSUME NEW r, eventWaitOf(t) = AbsE!Waiting(e, r)
      PROVE  WaitsFor(t, e) /\ r = event_wait[t].request
  <2>1. CASE View(t).on \in Event /\ View(t).outcome = "waiting"
    <3>1. View(t).on = e /\ event_wait[t].request = r
      BY <1>3, <2>1, EventViews DEF EventView, AbsE!Waiting
    <3>2. View(t) = ViewOf(e, "waiting")
      BY <1>1, <2>1, <3>1 DEF View, ViewOf, Outside
    <3> QED
      BY <1>1, <3>1, <3>2, ViewWaits
  <2>2. CASE ~ (View(t).on \in Event /\ View(t).outcome = "waiting")
    <3>1. eventWaitOf(t).on \notin Event \/ eventWaitOf(t).outcome # "waiting"
      BY <1>1, <2>2, EventViews DEF EventView
    <3> QED
      BY <1>3, <3>1 DEF AbsE!Waiting
  <2> QED
    BY <2>1, <2>2
<1>4. AbsE!IsWaiting(t, e) <=> \E r \in Request : eventWaitOf(t) = AbsE!Waiting(e, r)
  BY DEF AbsE!IsWaiting, AbsE!Waiting
<1> QED
  BY <1>2, <1>3, <1>4

\* What a task waits for is a request of the application.
AsksInv == \A t \in Task, e \in Event : WaitsFor(t, e) => event_wait[t].request \in Request

EventAbsInv == TaskInv /\ EventType /\ AsksInv /\ CallInv

\* A step of the kernel: at most one wait ends, refused or left.
LEMMA EventKernelAbs ==
  ASSUME EventAbsInv, KernelStep
  PROVE  CallInv' /\ AsksInv' /\ [AbsE!Next]_AbsE!vars
<1> DEFINE W == [u \in Task |-> eventWaitOf(u)]
<1>1. /\ CallInv' /\ k'.live = k.live /\ flags' = flags
      /\ \A u \in Task : event_wait'[u] = event_wait[u] \/ View(u)' = Outside
  BY KernelViews DEF EventAbsInv, KernelStep, event_calls_end
<1>2. PICK t \in Task : OneView(t) /\ \A u \in Task \ {t} : View(u)' = View(u)
  BY KernelViews DEF EventAbsInv, KernelStep
<1>n. Event \subseteq IpcObj /\ "none" \notin Event
  BY ObjNames DEF IpcObj
<1>3. ASSUME NEW u \in Task, View(u)' = View(u) PROVE eventWaitOf(u)' = eventWaitOf(u)
  <2>1. CASE event_wait'[u] = event_wait[u]
    BY <1>3, <2>1, EventViews
  <2>2. CASE View(u)' = Outside
    <3>1. Outside.on \notin Event
      BY <1>n DEF Outside
    <3>2. \A w : EventView(Outside, w) = [on |-> "none"]
      BY <3>1 DEF EventView
    <3>3. View(u) = Outside
      BY <1>3, <2>2
    <3> QED
      BY <2>2, <3>2, <3>3, EventViews
  <2> QED
    BY <1>1, <2>1, <2>2
<1>4. AsksInv'
  <2> SUFFICES ASSUME NEW u \in Task, NEW e \in Event, WaitsFor(u, e)'
               PROVE  event_wait'[u].request \in Request
    BY DEF AsksInv
  <2>1. call'[u] = e
    <3>1. k'.task_state[u] \in Pending /\ k'.block_obj[u] = e
      BY DEF WaitsFor
    <3> QED
      BY <1>1, <3>1 DEF CallInv, CallOK, Pending
  <2>2. event_wait'[u] = event_wait[u]
    BY <1>n, <2>1, ObjNames DEF KernelStep, event_calls_end
  <2>3. WaitsFor(u, e)
    BY TaskNextCalm DEF Calm, StartsNoWait, WaitsFor, EventAbsInv, KernelStep
  <2> QED
    BY <2>2, <2>3 DEF EventAbsInv, AsksInv
<1>5. W' = [W EXCEPT ![t] = eventWaitOf(t)'] /\ (k.live \cap Event)' = k.live \cap Event
  BY <1>1, <1>2, <1>3
<1>6. CASE eventWaitOf(t)' = eventWaitOf(t)
  <2>1. W' = W
    BY <1>5, <1>6
  <2> QED
    BY <1>1, <1>4, <1>5, <2>1 DEF AbsE!vars
<1>7. CASE View(t)' = Outside /\ eventWaitOf(t)' # eventWaitOf(t)
  <2>1. eventWaitOf(t)' = AbsE!Outside
    BY <1>7, <1>n, EventViews DEF EventView, Outside, AbsE!Outside
  <2>2. W[t] # AbsE!Outside
    BY <1>7, <2>1
  <2> HIDE DEF W
  <2>3. AbsE!Leave(t)
    BY <1>1, <1>5, <2>1, <2>2 DEF AbsE!Leave, AbsE!Outside, W
  <2> QED
    BY <1>1, <1>4, <2>3 DEF AbsE!Next
<1>8. ASSUME NEW o \in IpcObj, View(t) = ViewOf(o, "waiting"), View(t)' = ViewOf(o, "refused"),
             eventWaitOf(t)' # eventWaitOf(t)
      PROVE  AbsE!Next
  <2>1. o \in Event
    BY <1>8, <1>n, EventViews DEF EventView, ViewOf
  <2>2. AbsE!IsWaiting(t, o)
    BY <1>8, <2>1, ViewWaits, EventWaits DEF EventAbsInv, AsksInv
  <2>3. eventWaitOf(t)' = [on |-> o, outcome |-> "refused"]
    BY <1>8, <2>1, EventViews DEF EventView, ViewOf
  <2> HIDE DEF W
  <2>4. AbsE!Refuse(t)
    BY <1>1, <1>5, <2>1, <2>2, <2>3 DEF AbsE!Refuse, W
  <2> QED
    BY <2>4 DEF AbsE!Next
<1>9. CASE View(t)' = View(t)
  BY <1>3, <1>6, <1>9
<1> QED
  BY <1>1, <1>2, <1>4, <1>6, <1>7, <1>8, <1>9 DEF OneView

\* An operation on an object of another kind.
LEMMA EventOthersAbs ==
  ASSUME EventAbsInv, NEW o \in IpcObj, o \notin Event, ViewsOn(o), OthersKept(o),
         UNCHANGED eventVars
  PROVE  AsksInv' /\ UNCHANGED AbsE!vars
<1>1. flags' = flags /\ event_wait' = event_wait /\ Event \subseteq Obj /\ "none" \notin Event
  BY IpcObjects, ObjNames DEF IpcObj, eventVars
<1>2. AsksInv'
  BY <1>1 DEF OthersKept, EventAbsInv, AsksInv
<1>3. ASSUME NEW t \in Task PROVE eventWaitOf(t)' = eventWaitOf(t)
  <2>1. CASE View(t)' = View(t)
    BY <1>1, <2>1, EventViews
  <2>2. CASE View(t).on \in {o, "none"} /\ View(t)'.on \in {o, "none"}
    <3>1. \A v, w : v.on \in {o, "none"} => EventView(v, w) = [on |-> "none"]
      BY <1>1 DEF EventView
    <3> QED
      BY <2>2, <3>1, EventViews
  <2> QED
    BY <2>1, <2>2 DEF ViewsOn
<1>4. (k.live \cap Event)' = k.live \cap Event
  BY DEF ViewsOn
<1> QED
  BY <1>1, <1>2, <1>3, <1>4 DEF AbsE!vars

\* The operations that leave the tasks where they are.
LEMMA EventStillAbs ==
  ASSUME EventAbsInv, NEW e \in Event, UNCHANGED event_wait,
         \/ \E f \in InitFlags : raw_event_create(e, f)
         \/ \E f \in KeepFlags : event_set_and(e, f)
         \/ \E r \in Request : event_take(e, r)
  PROVE  AsksInv' /\ AbsE!Next
<1> DEFINE W == [u \in Task |-> eventWaitOf(u)]
<1>0. e \in IpcObj /\ EventType /\ TaskInv /\ CallInv /\ AsksInv
  BY DEF IpcObj, EventAbsInv
<1>1. CASE UNCHANGED <<k, sys, pc, call, loop>>
  <2>1. W' = W /\ AsksInv' /\ (k.live \cap Event)' = k.live \cap Event
    BY <1>0, <1>1, DataViews, EventViews DEF AsksInv, WaitsFor
  <2> HIDE DEF W
  <2>2. ASSUME NEW f \in KeepFlags, event_set_and(e, f) PROVE AbsE!Next
    <3>1. f \in SUBSET Flag
      BY EventAssumption
    <3>2. AbsE!Clear(e, f)
      BY <2>1, <2>2 DEF AbsE!Clear, event_set_and, W
    <3> QED
      BY <3>1, <3>2 DEF AbsE!Next
  <2>3. ASSUME NEW r \in Request, event_take(e, r) PROVE AbsE!Next
    <3>1. AbsE!Take(e, r)
      BY <2>1, <2>3 DEF AbsE!Take, event_take, W
    <3> QED
      BY <3>1 DEF AbsE!Next
  <2>4. ASSUME NEW f \in InitFlags, raw_event_create(e, f) PROVE FALSE
    <3>1. Creates(e)
      BY <2>4 DEF raw_event_create, Creates
    <3> QED
      BY <1>0, <1>1, <3>1, CreateViews
  <2> QED
    BY <2>1, <2>2, <2>3, <2>4
<1>2. ASSUME NEW f \in InitFlags, raw_event_create(e, f) PROVE AsksInv' /\ AbsE!Next
  <2>1. Creates(e)
    BY <1>2 DEF raw_event_create, Creates
  <2>2. W' = W /\ k'.live = k.live \cup {e} /\ e \notin k.live /\ CallInv'
    BY <1>0, <2>1, CreateViews, EventViews
  <2>3. k'.task_state = k.task_state /\ k'.block_obj = k.block_obj
    BY <2>1, InvFacts, <1>0 DEF Creates, KernelState
  <2>4. AsksInv'
    BY <1>0, <2>3 DEF AsksInv, WaitsFor
  <2>5. f \in SUBSET Flag
    BY EventAssumption
  <2> HIDE DEF W
  <2>6. AbsE!Create(e, f)
    BY <1>2, <2>2 DEF AbsE!Create, raw_event_create, W
  <2> QED
    BY <2>4, <2>5, <2>6 DEF AbsE!Next
<1> QED
  BY <1>1, <1>2 DEF event_set_and, event_take

\* A set releases, in one step, the tasks whose request is satisfied.
LEMMA event_set_orAbs ==
  ASSUME EventAbsInv, NEW e \in Event, NEW f \in SetFlags, event_set_or(e, f)
  PROVE  AsksInv' /\ AbsE!Next
<1> DEFINE W == [u \in Task |-> eventWaitOf(u)]
           now == flags[e] \cup f
           released == {t \in ToSet(Waiters(e)) : satisfied(event_wait[t].request, now)}
           released1 == {t \in Task : AbsE!IsWaiting(t, e) /\ satisfied(W[t].request, now)}
<1>0. e \in IpcObj /\ e \in Obj /\ EventType /\ TaskInv /\ CallInv /\ AsksInv
  BY IpcObjects DEF IpcObj, EventAbsInv
<1>1. Waiters(e) \in Seq(Task) /\ \A t \in Task : In(t, Waiters(e)) <=> WaitsFor(t, e)
  BY <1>0, InvFacts DEF Consistent, LinkedAs, KernelState, Waiters, WaitsFor
<1>2. \A t : t \in ToSet(Waiters(e)) <=> t \in Task /\ WaitsFor(t, e)
  BY <1>1 DEF In, ToSet
<1>3. \A t : t \in released <=> /\ t \in Task /\ WaitsFor(t, e)
                                /\ satisfied(event_wait[t].request, now)
  BY <1>2
<1>4. ASSUME NEW t \in Task, WaitsFor(t, e)
      PROVE  W[t].request = event_wait[t].request /\ AbsE!IsWaiting(t, e)
  <2>1. eventWaitOf(t) = AbsE!Waiting(e, event_wait[t].request) /\ AbsE!IsWaiting(t, e)
    BY <1>0, <1>4, EventWaits DEF AsksInv
  <2> QED
    BY <2>1 DEF AbsE!Waiting
<1>5. released1 = released
  BY <1>0, <1>3, <1>4, EventWaits
<1>6. \A t \in released : W[t].request = event_wait[t].request
  BY <1>3, <1>4
<1>7. /\ Wakes(e, released)
      /\ flags' = [flags EXCEPT ![e] = now \ UNION {consumed(event_wait[t].request) : t \in released}]
      /\ event_wait' = [t \in Task |-> IF t \in released
                          THEN [event_wait[t] EXCEPT !.actual = now] ELSE event_wait[t]]
  BY DEF event_set_or, Wakes
<1>8. now \in SUBSET Flag /\ f \in SUBSET Flag
  BY <1>0, EventAssumption DEF EventType
<1> HIDE DEF now, released, released1
<1>9. k'.live = k.live /\ CallInv' /\ Ends(e, released, "granted")
  BY <1>0, <1>7, WakesViews
<1>10. ASSUME NEW t \in Task
       PROVE  eventWaitOf(t)' = IF t \in released THEN [on |-> e, outcome |-> "granted", got |-> now]
                                ELSE eventWaitOf(t)
  <2>1. CASE t \in released
    <3>1. View(t)' = ViewOf(e, "granted")
      BY <1>3, <1>9, <2>1 DEF Ends
    <3>2. event_wait'[t].actual = now
      BY <1>0, <1>7, <2>1 DEF EventType
    <3> QED
      BY <2>1, <3>1, <3>2, EventViews DEF EventView, ViewOf
  <2>2. CASE t \notin released
    <3>1. View(t)' = View(t) /\ event_wait'[t] = event_wait[t]
      BY <1>7, <1>9, <2>2 DEF Ends
    <3> QED
      BY <2>2, <3>1, EventViews
  <2> QED
    BY <2>1, <2>2
<1>11. AsksInv'
  <2>1. \A t \in Task, s \in Event : WaitsFor(t, s)' => WaitsFor(t, s)
    <3>1. Consistent(k) /\ loop = NoLoop /\ "OK" \in BlockState
      BY <1>0, <1>7, InvFacts DEF Wakes, Caller, TaskRuns, TaskAt, IsrRuns, BlockState
    <3> QED
      BY <1>0, <1>7, <3>1, WakeStep, IpcObjects DEF Wakes, IpcObj
  <2>2. \A t \in Task : event_wait'[t].request = event_wait[t].request
    BY <1>0, <1>7 DEF EventType
  <2> QED
    BY <1>0, <2>1, <2>2 DEF AsksInv
<1>12. {consumed(event_wait[t].request) : t \in released} = {consumed(W[t].request) : t \in released}
  BY <1>6
<1>13. W' = [t \in Task |-> IF t \in released THEN [on |-> e, outcome |-> "granted", got |-> now]
                           ELSE W[t]]
  BY <1>10
<1>14. /\ e \in k.live /\ (k.live \cap Event)' = k.live \cap Event
       /\ flags' = [flags EXCEPT ![e] = now \ UNION {consumed(W[t].request) : t \in released}]
  BY <1>7, <1>9, <1>12 DEF Wakes
<1>15. PICK R : R = released1 /\ R = released
  BY <1>5
<1>16. AbsE!Set(e, f)
  <2>1. R = {t \in Task : AbsE!IsWaiting(t, e) /\ satisfied(W[t].request, flags[e] \cup f)}
    BY <1>15 DEF released1, now
  <2> HIDE DEF W
  <2> QED
    BY <1>13, <1>14, <1>15, <2>1 DEF AbsE!Set, now, W
<1> QED
  BY <1>8, <1>11, <1>16 DEF AbsE!Next

LEMMA raw_event_getAbs ==
  ASSUME EventAbsInv, NEW e \in Event, NEW r \in Request, NEW timeout \in Timeouts,
         raw_event_get(e, r, timeout)
  PROVE  AsksInv' /\ AbsE!Next
<1> DEFINE W == [u \in Task |-> eventWaitOf(u)]
<1>0. /\ e \in IpcObj /\ EventType /\ TaskInv /\ CallInv /\ AsksInv
      /\ Event \subseteq Obj /\ "none" \notin Event
  BY IpcObjects, ObjNames DEF IpcObj, EventAbsInv
<1>1. /\ Waits(e, timeout) /\ e \in k.live /\ ~ satisfied(r, flags[e]) /\ flags' = flags
      /\ event_wait' = [event_wait EXCEPT ![active] = [request |-> r, actual |-> {}]]
  BY DEF raw_event_get, Waits
<1>2. PICK a \in Task : /\ a = active /\ View(a) = Outside /\ View(a)' = ViewOf(e, "waiting")
                        /\ \A t \in Task \ {a} : View(t)' = View(t)
  BY <1>0, <1>1, WaitsViews
<1>3. k'.live = k.live
  BY <1>0, <1>1, WaitsViews
<1>4. event_wait'[a].request = r /\ \A t \in Task \ {a} : event_wait'[t] = event_wait[t]
  BY <1>0, <1>1, <1>2 DEF EventType
<1>5. AsksInv'
  <2>1. \A t \in Task, s \in Obj : WaitsFor(t, s)' => WaitsFor(t, s) \/ t = a
    BY <1>0, <1>1, <1>2, WaitStep, IpcObjects DEF Waits
  <2> QED
    BY <1>0, <1>4, <2>1 DEF AsksInv
<1>6. eventWaitOf(a) = AbsE!Outside
  <2>1. Outside.on \notin Event
    BY <1>0 DEF Outside
  <2>2. eventWaitOf(a) = EventView(Outside, event_wait[a])
    BY <1>2, EventViews
  <2> QED
    BY <2>1, <2>2 DEF EventView, AbsE!Outside
<1>7. eventWaitOf(a)' = AbsE!Waiting(e, r)
  BY <1>2, <1>4, EventViews DEF EventView, ViewOf, AbsE!Waiting
<1>8. \A t \in Task \ {a} : eventWaitOf(t)' = eventWaitOf(t)
  BY <1>2, <1>4, EventViews
<1>9. W' = [W EXCEPT ![a] = AbsE!Waiting(e, r)] /\ W[a] = AbsE!Outside
  BY <1>6, <1>7, <1>8
<1> HIDE DEF W
<1>10. AbsE!Begin(a, e, r)
  BY <1>1, <1>3, <1>9 DEF AbsE!Begin, AbsE!Outside, AbsE!Waiting, W
<1> QED
  BY <1>5, <1>10 DEF AbsE!Next

LEMMA raw_event_deleteAbs ==
  ASSUME EventAbsInv, NEW e \in Event, raw_event_delete(e)
  PROVE  AsksInv' /\ AbsE!Next
<1> DEFINE W == [u \in Task |-> eventWaitOf(u)]
           refused == [on |-> e, outcome |-> "refused"]
<1>0. e \in IpcObj /\ TaskInv /\ CallInv /\ AsksInv
  BY DEF IpcObj, EventAbsInv
<1>1. /\ Deletes(e) /\ e \in k.live /\ event_wait' = event_wait
      /\ flags' = [flags EXCEPT ![e] = {}]
  BY DEF raw_event_delete, Deletes
<1>2. k'.live = k.live \ {e} /\ Ends(e, Task, "refused")
  BY <1>0, <1>1, DeletesViews
<1>3. ASSUME NEW t \in Task
      PROVE  eventWaitOf(t)' = IF AbsE!IsWaiting(t, e) THEN refused ELSE eventWaitOf(t)
  <2>1. AbsE!IsWaiting(t, e) <=> WaitsFor(t, e)
    BY <1>0, EventWaits DEF AsksInv
  <2>2. CASE WaitsFor(t, e)
    <3>1. View(t)' = ViewOf(e, "refused")
      BY <1>2, <2>2 DEF Ends
    <3> QED
      BY <2>1, <2>2, <3>1, EventViews DEF EventView, ViewOf
  <2>3. CASE ~ WaitsFor(t, e)
    <3>1. View(t)' = View(t)
      BY <1>2, <2>3 DEF Ends
    <3> QED
      BY <1>1, <2>1, <2>3, <3>1, EventViews
  <2> QED
    BY <2>2, <2>3
<1>4. AsksInv'
  <2>1. \A t \in Task, s \in Obj : WaitsFor(t, s)' => WaitsFor(t, s)
    BY <1>0, <1>1, DeleteStep, IpcObjects DEF Deletes
  <2> QED
    BY <1>0, <1>1, <2>1, IpcObjects DEF AsksInv, IpcObj
<1>5. /\ W' = [t \in Task |-> IF AbsE!IsWaiting(t, e) THEN refused ELSE W[t]]
      /\ (k.live \cap Event)' = (k.live \cap Event) \ {e}
  BY <1>2, <1>3
<1> HIDE DEF W
<1>6. AbsE!Delete(e)
  BY <1>1, <1>5 DEF AbsE!Delete, W
<1> QED
  BY <1>4, <1>6 DEF AbsE!Next

LEMMA EventOpAbs ==
  ASSUME EventAbsInv, NEW e \in Event, EventOp(e)
  PROVE  AsksInv' /\ AbsE!Next
<1>1. ASSUME NEW f \in SetFlags, event_set_or(e, f) PROVE AsksInv' /\ AbsE!Next
  BY <1>1, event_set_orAbs
<1>2. ASSUME NEW r \in Request, NEW timeout \in Timeouts, raw_event_get(e, r, timeout)
      PROVE  AsksInv' /\ AbsE!Next
  BY <1>2, raw_event_getAbs
<1>3. ASSUME NEW f \in InitFlags, raw_event_create(e, f) PROVE AsksInv' /\ AbsE!Next
  <2>1. event_wait' = event_wait
    BY <1>3 DEF raw_event_create
  <2> QED
    BY <1>3, <2>1, EventStillAbs
<1>4. ASSUME NEW f \in KeepFlags, event_set_and(e, f) PROVE AsksInv' /\ AbsE!Next
  <2>1. event_wait' = event_wait
    BY <1>4 DEF event_set_and
  <2> QED
    BY <1>4, <2>1, EventStillAbs
<1>5. ASSUME NEW r \in Request, event_take(e, r) PROVE AsksInv' /\ AbsE!Next
  <2>1. event_wait' = event_wait
    BY <1>5 DEF event_take
  <2> QED
    BY <1>5, <2>1, EventStillAbs
<1> QED
  BY <1>1, <1>2, <1>3, <1>4, <1>5, raw_event_deleteAbs DEF EventOp

\* Whatever the kind of the object: an operation changes the views of its waiters only.
LEMMA OpViews ==
  ASSUME IpcInv, CallInv
  PROVE  /\ \A o \in Event : EventOp(o) => ViewsOn(o) /\ OthersKept(o)
         /\ \A o \in Queue : QueueOp(o) => ViewsOn(o) /\ OthersKept(o)
         /\ \A o \in SizeQueue : SizeQueueOp(o) => ViewsOn(o) /\ OthersKept(o)
         /\ \A o \in BufQueue : BufQueueOp(o) => ViewsOn(o) /\ OthersKept(o)
<1>0. /\ TaskInv /\ NoneForDead /\ EventInv /\ RingInv /\ NodesInv /\ BufferInv
      /\ Event \subseteq IpcObj /\ Queue \subseteq IpcObj
      /\ SizeQueue \subseteq IpcObj /\ BufQueue \subseteq IpcObj
  BY DEF IpcInv, IpcObj
<1>1. ASSUME NEW o \in Event, EventOp(o) PROVE ViewsOn(o) /\ OthersKept(o)
  BY <1>0, <1>1, EventForm, FormViews, EventOpInv DEF Base
<1>2. ASSUME NEW o \in Queue, QueueOp(o) PROVE ViewsOn(o) /\ OthersKept(o)
  BY <1>0, <1>2, QueueForms, FormViews, QueueOpInv DEF Base
<1>3. ASSUME NEW o \in SizeQueue, SizeQueueOp(o) PROVE ViewsOn(o) /\ OthersKept(o)
  BY <1>0, <1>3, QueueForms, FormViews, SizeQueueOpInv DEF Base
<1>4. ASSUME NEW o \in BufQueue, BufQueueOp(o) PROVE ViewsOn(o) /\ OthersKept(o)
  BY <1>0, <1>4, QueueForms, FormViews, BufQueueOpInv DEF Base
<1> QED
  BY <1>1, <1>2, <1>3, <1>4

EventRefines == IpcInv /\ CallInv /\ AsksInv

LEMMA IpcInitAbsEvent == IpcInit => EventRefines /\ AbsE!Init
<1> SUFFICES ASSUME IpcInit PROVE EventRefines /\ AbsE!Init
  OBVIOUS
<1>1. /\ pc = [t \in Task |-> "run"] /\ call = [t \in Task |-> "none"] /\ loop = NoLoop
      /\ flags = [e \in Event |-> {}] /\ k.live = {}
      /\ k.task_state = [t \in Task |-> IF t = Idle THEN "RDY" ELSE "DELETED"]
  BY DEF IpcInit, EventInit, TaskInit, InitKernel
<1>2. CallInv /\ AsksInv
  BY <1>1 DEF CallInv, CallOK, FreeAt, WakeLive, NoLoop, Pending, Timed, AsksInv, WaitsFor
<1>3. "none" \notin Event
  BY ObjNames DEF IpcObj
<1>4. AbsE!Init
  BY <1>1, <1>3 DEF AbsE!Init, AbsE!Outside, eventWaitOf
<1> QED
  BY <1>2, <1>4, IpcInitInv DEF EventRefines

LEMMA IpcNextAbsEvent ==
  EventRefines /\ [IpcNext]_ipcVars => EventRefines' /\ [AbsE!Next]_AbsE!vars
<1> SUFFICES ASSUME EventRefines, [IpcNext]_ipcVars
             PROVE  EventRefines' /\ [AbsE!Next]_AbsE!vars
  OBVIOUS
<1>0. IpcInv /\ CallInv /\ EventAbsInv /\ IpcInv'
  BY IpcInvStep DEF EventRefines, EventAbsInv, IpcInv, EventInv
<1>1. ASSUME NEW o \in IpcObj, o \notin Event, ViewsOn(o), OthersKept(o), UNCHANGED eventVars
      PROVE  CallInv' /\ AsksInv' /\ [AbsE!Next]_AbsE!vars
  BY <1>0, <1>1, EventOthersAbs DEF ViewsOn
<1>2. CASE UNCHANGED ipcVars
  <2>1. UNCHANGED <<k, sys, pc, call, loop, flags, event_wait>>
    BY <1>2 DEF ipcVars, taskVars, eventVars
  <2>2. AsksInv'
    BY <1>0, <2>1 DEF EventAbsInv, AsksInv, WaitsFor
  <2>3. CallInv' /\ UNCHANGED AbsE!vars
    BY <1>0, <2>1, DataViews DEF EventAbsInv, AbsE!vars, eventWaitOf
  <2> QED
    BY <1>0, <2>2, <2>3 DEF EventRefines
<1>3. CASE KernelStep
  BY <1>0, <1>3, EventKernelAbs DEF EventRefines
<1>4. CASE EventStep
  <2>1. PICK e \in Event : EventOp(e)
    BY <1>4 DEF EventStep
  <2> QED
    BY <1>0, <2>1, OpViews, EventOpAbs DEF ViewsOn, EventRefines
<1>5. CASE QueueStep
  <2>1. PICK o \in Queue : QueueOp(o) /\ UNCHANGED eventVars /\ o \in IpcObj /\ o \notin Event
    BY <1>5, IpcAssumption DEF QueueStep, IpcObj
  <2> QED
    BY <1>0, <1>1, <2>1, OpViews DEF EventRefines
<1>6. CASE QueueSizeStep
  <2>1. PICK o \in SizeQueue : SizeQueueOp(o) /\ UNCHANGED eventVars /\ o \in IpcObj /\ o \notin Event
    BY <1>6, IpcAssumption DEF QueueSizeStep, IpcObj
  <2> QED
    BY <1>0, <1>1, <2>1, OpViews DEF EventRefines
<1>7. CASE QueueBufferStep
  <2>1. PICK o \in BufQueue : BufQueueOp(o) /\ UNCHANGED eventVars /\ o \in IpcObj /\ o \notin Event
    BY <1>7, IpcAssumption DEF QueueBufferStep, IpcObj
  <2> QED
    BY <1>0, <1>1, <2>1, OpViews DEF EventRefines
<1> QED
  BY <1>2, <1>3, <1>4, <1>5, <1>6, <1>7 DEF IpcNext

\* The events of the kernel do what AbsEvent promises: a set releases, in one step, all
\* the tasks whose request is satisfied at that moment, also when some of them clear the
\* flags that release the others, and every other wait ends refused.
THEOREM EventRefinesAbs == IpcSpec => ImplementsAbsEvent
<1> QED
  BY IpcInitAbsEvent, IpcNextAbsEvent, PTL DEF IpcSpec, ImplementsAbsEvent, AbsE!Spec
=============================================================================
