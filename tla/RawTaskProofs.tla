--------------------------- MODULE RawTaskProofs ---------------------------
(***************************************************************************)
(* TaskInv is preserved by every step of the kernel, for every set of      *)
(* tasks, priorities, mutexes and arguments.  ListsOK, HighestOK and, in a  *)
(* system without mutexes, NoFault follow; so does LockHolds.               *)
(***************************************************************************)
EXTENDS RawTask, RawKernelProofs

LEMMA InvFacts ==
  ASSUME TaskInv
  PROVE  /\ Consistent(k) /\ k \in KernelState /\ active \in Task
         /\ pc \in [Task -> Place] /\ call \in [Task -> Call] /\ loop \in Loop
         /\ raw_sched_lock \in Nat /\ raw_int_nesting \in Nat
         /\ \A t \in Task : k.task_state[t] # "RDY" => t # Idle
<1>1. Consistent(k) /\ k \in KernelState
  BY DEF TaskInv, Consistent
<1>2. active \in Task
  BY <1>1 DEF KernelState, active
<1>3. /\ pc \in [Task -> Place] /\ call \in [Task -> Call] /\ loop \in Loop
      /\ raw_sched_lock \in Nat /\ raw_int_nesting \in Nat
  BY TaskAssumption DEF TaskInv, TaskTypeOK
<1> QED
  BY <1>1, <1>2, <1>3, PendingNotIdle

LEMMA NoLoopOK == NoLoop \in Loop /\ NoLoop.op = "none"
BY DEF NoLoop, Loop

\* The task that executes its own code is ready, and is not the idle task.
LEMMA RunningIsReady ==
  ASSUME TaskInv, TaskRuns
  PROVE  k.task_state[active] = "RDY" /\ active \in Task \ {Idle}
BY InvFacts, TaskAssumption DEF TaskInv, StoppedTaskLeaves, TaskRuns, TaskAt

-----------------------------------------------------------------------------
(* What is common to the steps that concern one task: it is enough that a  *)
(* task that stops does so with the scheduler unlocked and with the next   *)
(* choice of a task ahead.                                                 *)

Ahead == raw_int_nesting > 0 \/ pc'[active] \in {"resched", "blocking"}

\* The step leaves the processor and the scheduler lock alone.
Preserved ==
  TaskInv' /\ k'.raw_task_active = k.raw_task_active /\ raw_sched_lock' = raw_sched_lock

\* No task starts to wait for an object, and the objects stay as they are.
StartsNoWait(t) ==
  k'.task_state[t] \in Pending => k.task_state[t] \in Pending /\ k'.block_obj[t] = k.block_obj[t]
Calm == k'.live = k.live /\ \A t \in Task : StartsNoWait(t)

\* The states of a task that has not been told how its wait ended.
Away == Pending \cup Timed \cup {"DELETED"}

\* A task leaves a wait for an object with the reason in block_status, and the
\* reason stays until the task has read it; only a timeout, an abort or, while
\* raw_task_delete frees mutexes, the release of one end a wait here.
Outcome(s) ==
  {"ABORT", "TIMEOUT"} \cup (IF s \in Mutex /\ loop.op = "free" THEN {"OK"} ELSE {})
Informed(t) ==
  /\ k.task_state[t] \notin Away /\ k'.task_state[t] # "DELETED"
       => k'.block_status[t] = k.block_status[t]
  /\ k.task_state[t] \in Pending /\ k'.task_state[t] \notin Pending \cup {"DELETED"}
       => k'.block_status[t] \in Outcome(k.block_obj[t])
  /\ k.task_state[t] \in Timed /\ k'.task_state[t] \notin Away
       => k'.block_status[t] # "STALE"
  /\ k.task_state[t] = "DELETED" /\ k'.task_state[t] # "DELETED"
       => raw_task_create(t) /\ pc'[t] = "run" /\ call'[t] = "none" /\ k'.block_obj[t] = NoObj
  /\ k.task_state[t] # "DELETED" /\ k'.task_state[t] \notin Pending \cup {"DELETED"}
       => Forgets(k, k', t)
  /\ k'.task_state[t] \in Timed \ Pending
       => k.task_state[t] \in Timed \ Pending \/ call'[t] = "sleep"
  /\ k'.task_state[t] = "DELETED"
       => \/ k.task_state[t] = "DELETED"
          \/ loop.op = "free" /\ loop.obj = NoObj /\ loop.task = t
OneTask ==
  \E t \in Task : \A u \in Task \ {t} : /\ k'.task_state[u] = k.task_state[u]
                                       /\ k'.block_status[u] = k.block_status[u]
Told == OneTask /\ \A t \in Task : Informed(t)

\* A suspended task stays so, or is deleted.
StaysSuspended ==
  \A t \in Task : k.task_state[t] \in Suspended => k'.task_state[t] \in Suspended \cup {"DELETED"}

LEMMA OneTaskMoves ==
  ASSUME TaskInv, NEW t \in Task, OneMoves(k, k', t), UNCHANGED sys,
         pc' \in [Task -> Place], call' \in [Task -> Call],
         loop' \in Loop, LoopOK',
         pc'[active] = pc[active] \/ Ahead,
         t = active /\ k.task_state[t] = "RDY" /\ k'.task_state[t] # "RDY"
           => raw_sched_lock = 0 /\ Ahead
  PROVE  /\ Preserved /\ TicksKept(k, k')
         /\ StartsNoWait(t) => Calm
         /\ Informed(t) => Told
         /\ (k.task_state[t] \in Suspended => k'.task_state[t] \in Suspended \cup {"DELETED"})
              => StaysSuspended
<1>1. Consistent(k') /\ k' \in KernelState /\ active' = active
  BY DEF OneMoves, Consistent, active
<1>2. TaskTypeOK'
  BY <1>1 DEF TaskTypeOK, TaskInv, sys
<1>3. StoppedTaskLeaves'
  <2>1. SUFFICES ASSUME k'.task_state[active] # "RDY"
                 PROVE  raw_sched_lock = 0 /\ Ahead
    BY <1>1 DEF StoppedTaskLeaves, sys, Ahead
  <2>2. CASE k.task_state[active] = "RDY"
    <3>1. t = active
      BY <2>1, <2>2, InvFacts DEF OneMoves
    <3> QED
      BY <2>1, <2>2, <3>1
  <2>3. CASE k.task_state[active] # "RDY"
    BY <2>3 DEF TaskInv, StoppedTaskLeaves, Ahead
  <2> QED
    BY <2>2, <2>3
<1>4. Preserved
  BY <1>1, <1>2, <1>3 DEF TaskInv, sys, Preserved, OneMoves
<1>5. \A u \in Task \ {t} : /\ StartsNoWait(u) /\ Informed(u)
                            /\ k'.task_state[u] = k.task_state[u]
  BY DEF OneMoves, StartsNoWait, Informed, Away, Forgets
<1> QED
  BY <1>4, <1>5 DEF OneMoves, Calm, StaysSuspended, Told, OneTask

\* ... and when no mutex changes hands.
LEMMA OneTaskStep ==
  ASSUME TaskInv, NEW t \in Task, Moves(k, k', t), UNCHANGED sys,
         pc' \in [Task -> Place], call' \in [Task -> Call],
         loop' \in Loop, LoopOK',
         pc'[active] = pc[active] \/ Ahead,
         t = active /\ k.task_state[t] = "RDY" /\ k'.task_state[t] # "RDY"
           => raw_sched_lock = 0 /\ Ahead
  PROVE  /\ Preserved /\ SameHeld(k, k') /\ TicksKept(k, k')
         /\ StartsNoWait(t) => Calm
         /\ Informed(t) => Told
         /\ (k.task_state[t] \in Suspended => k'.task_state[t] \in Suspended \cup {"DELETED"})
              => StaysSuspended
<1>1. OneMoves(k, k', t) /\ SameHeld(k, k')
  BY DEF Moves
<1> QED
  BY <1>1, OneTaskMoves

\* A step after which every task is in the state it was in.
LEMMA NoTaskChanges ==
  ASSUME TaskInv, StatesKept(k, k'), UNCHANGED sys,
         pc' \in [Task -> Place], call' \in [Task -> Call],
         loop' \in Loop, LoopOK',
         pc'[active] = pc[active] \/ Ahead
  PROVE  Preserved /\ Calm /\ Told /\ TicksKept(k, k') /\ StaysSuspended
<1>1. /\ active \in Task /\ OneMoves(k, k', active)
      /\ k'.task_state = k.task_state /\ k'.block_obj = k.block_obj
      /\ k'.block_status = k.block_status
  BY InvFacts DEF StatesKept, OneMoves
<1>2. StartsNoWait(active) /\ Informed(active)
  BY <1>1 DEF StartsNoWait, Informed, Away, Forgets
<1> QED
  BY <1>1, <1>2, OneTaskMoves

LEMMA NoTaskMoves ==
  ASSUME TaskInv, SameStates(k, k'), UNCHANGED sys,
         pc' \in [Task -> Place], call' \in [Task -> Call],
         loop' \in Loop, LoopOK',
         pc'[active] = pc[active] \/ Ahead
  PROVE  Preserved /\ SameHeld(k, k') /\ Calm /\ Told /\ TicksKept(k, k') /\ StaysSuspended
BY NoTaskChanges DEF SameStates

\* The variables beside k in a call that ends with raw_sched().
LEMMA ReschedOK ==
  ASSUME TaskInv, Resched
  PROVE  pc' \in [Task -> Place] /\ Ahead
BY InvFacts DEF Resched, Ahead, Place

LEMMA StepLoop ==
  ASSUME TaskInv, loop = NoLoop, loop' = loop
  PROVE  loop' \in Loop /\ LoopOK'
BY NoLoopOK DEF LoopOK

-----------------------------------------------------------------------------
(* raw_sched.c, raw_system.c.                                               *)

LEMMA raw_os_startInv == TaskInv /\ raw_os_start => TaskInv'
<1>1. SUFFICES ASSUME TaskInv, raw_os_start PROVE TaskInv'
  OBVIOUS
<1>2. /\ Consistent(k') /\ k' \in KernelState
      /\ k'.task_state[active'] = "RDY"
  BY <1>1, InvFacts, get_ready_taskPicks DEF raw_os_start, active, Consistent
<1>3. TaskTypeOK' /\ StoppedTaskLeaves'
  BY <1>1, <1>2 DEF TaskTypeOK, TaskInv, raw_os_start, StoppedTaskLeaves
<1>4. raw_sched_lock' = 0 /\ LoopOK'
  BY <1>1 DEF TaskInv, raw_os_start, LoopOK, MayStop
<1> QED
  BY <1>1, <1>2, <1>3, <1>4 DEF TaskInv, raw_os_start

LEMMA raw_schedInv == TaskInv /\ raw_sched => TaskInv'
<1>1. SUFFICES ASSUME TaskInv, raw_sched PROVE TaskInv'
  OBVIOUS
<1>2. /\ loop = NoLoop /\ raw_os_active
      /\ pc' = [pc EXCEPT ![active] = IF @ = "resched" THEN "run" ELSE "woken"]
      /\ k' = IF raw_sched_lock > 0 THEN k ELSE get_ready_task(k)
  BY <1>1 DEF raw_sched, TaskAt
<1>3. Consistent(k') /\ k' \in KernelState /\ k'.task_state[active'] = "RDY"
  <2>1. CASE raw_sched_lock > 0
    BY <1>1, <1>2, <2>1, InvFacts DEF TaskInv, StoppedTaskLeaves, active
  <2>2. CASE ~ (raw_sched_lock > 0)
    BY <1>1, <1>2, <2>2, InvFacts, get_ready_taskPicks DEF active, Consistent
  <2> QED
    BY <2>1, <2>2
<1>4. pc' \in [Task -> Place] /\ call' = call
  BY <1>1, <1>2, InvFacts DEF Place, raw_sched
<1>5. TaskTypeOK' /\ StoppedTaskLeaves'
  BY <1>1, <1>3, <1>4 DEF TaskTypeOK, TaskInv, raw_sched, sys, StoppedTaskLeaves
<1>6. LoopOK'
  BY <1>1, <1>2, StepLoop DEF raw_sched
<1> QED
  BY <1>1, <1>2, <1>3, <1>5, <1>6 DEF TaskInv, raw_sched, sys

LEMMA block_state_post_processInv == TaskInv /\ block_state_post_process => TaskInv'
<1>1. SUFFICES ASSUME TaskInv, block_state_post_process PROVE TaskInv'
  OBVIOUS
<1>2. /\ loop' = loop /\ loop = NoLoop /\ UNCHANGED sys
      /\ pc[active] = "woken" /\ pc' = [pc EXCEPT ![active] = "run"]
      /\ call' = [call EXCEPT ![active] = "none"]
      /\ k' = [k EXCEPT !.block_status[active] = "STALE"]
      /\ raw_int_nesting = 0
  BY <1>1 DEF block_state_post_process, TaskAt
<1>3. Moves(k, k', active) /\ k'.task_state = k.task_state
  BY <1>1, <1>2, InvFacts, SetStatus DEF BlockState
<1>4. /\ pc' \in [Task -> Place] /\ call' \in [Task -> Call]
      /\ loop' \in Loop /\ LoopOK'
  BY <1>1, <1>2, InvFacts, StepLoop DEF Place, Call
<1>5. k.task_state[active] = "RDY"
  BY <1>1, <1>2 DEF TaskInv, StoppedTaskLeaves
<1>6. Consistent(k') /\ k' \in KernelState /\ active' = active /\ k'.task_state = k.task_state
  BY <1>3 DEF Moves, OneMoves, Consistent, active
<1>7. StoppedTaskLeaves'
  BY <1>5, <1>6 DEF StoppedTaskLeaves
<1>8. TaskTypeOK'
  BY <1>1, <1>2, <1>4, <1>6 DEF TaskTypeOK, TaskInv, sys
<1> QED
  BY <1>1, <1>2, <1>4, <1>6, <1>7, <1>8 DEF TaskInv, sys

LEMMA InterruptInv == TaskInv /\ (raw_enter_interrupt \/ raw_finish_int) => TaskInv'
<1>1. CASE TaskInv /\ raw_enter_interrupt
  <2>1. /\ UNCHANGED <<k, raw_os_active, raw_sched_lock, pc, call, slice_due, loop>>
        /\ loop = NoLoop /\ raw_int_nesting' = raw_int_nesting + 1
        /\ raw_int_nesting < MaxNest /\ raw_int_nesting \in 0 .. MaxNest /\ MaxNest \in Nat
    BY <1>1, TaskAssumption DEF raw_enter_interrupt, TaskInv, TaskTypeOK
  <2>2. raw_int_nesting' \in 0 .. MaxNest /\ raw_int_nesting' > 0
    BY <2>1
  <2>3. TaskTypeOK' /\ StoppedTaskLeaves' /\ LoopOK'
    BY <1>1, <2>1, <2>2, StepLoop
    DEF TaskInv, TaskTypeOK, StoppedTaskLeaves, active
  <2> QED
    BY <1>1, <2>1, <2>3 DEF TaskInv, active, raw_enter_interrupt
<1>2. CASE TaskInv /\ raw_finish_int
  <2>1. /\ UNCHANGED <<raw_os_active, raw_sched_lock, pc, call, slice_due, loop>>
        /\ loop = NoLoop /\ raw_int_nesting' = raw_int_nesting - 1
        /\ raw_int_nesting > 0 /\ raw_int_nesting \in 0 .. MaxNest /\ MaxNest \in Nat
        /\ k' = IF raw_int_nesting' > 0 \/ raw_sched_lock > 0 THEN k ELSE get_ready_task(k)
        /\ raw_sched_lock \in Nat
    BY <1>2, InvFacts, TaskAssumption DEF raw_finish_int, IsrRuns, TaskInv, TaskTypeOK
  <2>2. raw_int_nesting' \in 0 .. MaxNest
    BY <2>1
  <2>3. Consistent(k') /\ k' \in KernelState /\ StoppedTaskLeaves'
    <3>1. CASE raw_int_nesting' > 0 \/ raw_sched_lock > 0
      BY <1>2, <2>1, <3>1, InvFacts DEF TaskInv, StoppedTaskLeaves, active
    <3>2. CASE ~ (raw_int_nesting' > 0 \/ raw_sched_lock > 0)
      BY <1>2, <2>1, <3>2, InvFacts, get_ready_taskPicks
      DEF StoppedTaskLeaves, active, Consistent
    <3> QED
      BY <3>1, <3>2
  <2>4. TaskTypeOK' /\ LoopOK'
    BY <1>2, <2>1, <2>2, <2>3, StepLoop DEF TaskInv, TaskTypeOK
  <2> QED
    BY <1>2, <2>1, <2>3, <2>4 DEF TaskInv
<1> QED
  BY <1>1, <1>2

LEMMA SchedLockInv == TaskInv /\ (raw_disable_sche \/ raw_enable_sche) => TaskInv'
<1>1. SUFFICES ASSUME TaskInv, raw_disable_sche \/ raw_enable_sche PROVE TaskInv'
  OBVIOUS
<1>2. /\ TaskRuns /\ raw_os_active /\ loop = NoLoop
      /\ UNCHANGED <<k, raw_os_active, raw_int_nesting, call, slice_due, loop>>
  BY <1>1 DEF raw_disable_sche, raw_enable_sche, TaskRuns, TaskAt
<1>3. raw_sched_lock' \in 0 .. MaxLock
  BY <1>1, TaskAssumption DEF raw_disable_sche, raw_enable_sche, TaskInv, TaskTypeOK
<1>4. pc' \in [Task -> Place]
  BY <1>1, ReschedOK, InvFacts DEF raw_disable_sche, raw_enable_sche
<1>5. k'.task_state[active'] = "RDY"
  BY <1>1, <1>2, RunningIsReady DEF active
<1> QED
  BY <1>1, <1>2, <1>3, <1>4, <1>5, StepLoop
  DEF TaskInv, TaskTypeOK, StoppedTaskLeaves

-----------------------------------------------------------------------------
(* raw_task.c.                                                              *)

LEMMA raw_task_createInv ==
  ASSUME TaskInv, NEW t \in Task, raw_task_create(t)
  PROVE  /\ Preserved /\ Calm /\ Told /\ TicksKept(k, k') /\ StaysSuspended
         /\ SameHeld([k EXCEPT !.bpriority[t] = InitPrio[t], !.mtxlist[t] = NoObj], k')
         /\ k.task_state[t] = "DELETED" /\ k'.task_state[t] \in Awake /\ k'.block_obj[t] = NoObj
<1> DEFINE K0 == [k EXCEPT !.bpriority[t] = InitPrio[t], !.mtxlist[t] = NoObj]
           K1 == [k EXCEPT
               !.task_state[t]    = IF t \in AutoStart THEN "RDY" ELSE "SUSPENDED",
               !.suspend_count[t] = IF t \in AutoStart THEN 0 ELSE 1,
               !.priority[t]      = InitPrio[t],
               !.bpriority[t]     = InitPrio[t],
               !.sched_fifo       = @ \ {t},
               !.time_total[t]    = InitSlice[t],
               !.time_slice[t]    = InitSlice[t],
               !.block_status[t]  = "STALE",
               !.block_obj[t]     = NoObj,
               !.mtxlist[t]       = NoObj]
           A == add_ready_list_end(K1, t)
<1>1. /\ t # Idle /\ k.task_state[t] = "DELETED" /\ loop = NoLoop /\ loop' = loop
      /\ k' = IF t \in AutoStart THEN A ELSE K1
      /\ call' = [call EXCEPT ![t] = "none"] /\ UNCHANGED sys
      /\ pc' = [u \in Task |-> IF u = t THEN "run"
                               ELSE IF u = active /\ raw_os_active /\ t \in AutoStart
                                    THEN "resched" ELSE pc[u]]
  BY DEF raw_task_create, Boot, TaskRuns, TaskAt
<1>3. /\ InitPrio[t] \in Prio /\ InitSlice[t] \in 1 .. TimeTotal
      /\ InitSlice[t] \in 0 .. TimeTotal
  BY TaskAssumption, KernelAssumption DEF Prio
<1>2. /\ K0 \in KernelState /\ SameQueue(k, K0) /\ SameTicks(k, K0)
      /\ K0.block_list = k.block_list /\ K0.task_state = k.task_state
      /\ K0.priority = k.priority /\ K0.block_obj = k.block_obj /\ K0.fault = k.fault
      /\ K0.block_status = k.block_status /\ K0.raw_task_active = k.raw_task_active
      /\ K0.live = k.live /\ K0.mtxtsk = k.mtxtsk
  <2>1. /\ k.bpriority \in [Task -> Prio] /\ k.mtxlist \in [Task -> Mutex \cup {NoObj}]
        /\ k \in KernelState
    BY InvFacts DEF KernelState
  <2>2. /\ [k.bpriority EXCEPT ![t] = InitPrio[t]] \in [Task -> Prio]
        /\ [k.mtxlist EXCEPT ![t] = NoObj] \in [Task -> Mutex \cup {NoObj}]
    BY <1>3, <2>1
  <2>3. K0 \in KernelState
    BY <2>1, <2>2 DEF KernelState
  <2> QED
    BY <2>1, <2>3 DEF KernelState, SameQueue, SameTicks
<1>a. SameHeld(K0, K1)
  <2>1. /\ K1.mtxtsk = k.mtxtsk /\ K1.mtxnext = k.mtxnext /\ K1.owner_nested = k.owner_nested
        /\ K1.mtxlist = [k.mtxlist EXCEPT ![t] = NoObj]
        /\ K1.bpriority = [k.bpriority EXCEPT ![t] = InitPrio[t]]
    BY InvFacts DEF KernelState
  <2>2. /\ K0.mtxtsk = k.mtxtsk /\ K0.mtxnext = k.mtxnext /\ K0.owner_nested = k.owner_nested
        /\ K0.mtxlist = [k.mtxlist EXCEPT ![t] = NoObj]
        /\ K0.bpriority = [k.bpriority EXCEPT ![t] = InitPrio[t]]
    BY InvFacts DEF KernelState
  <2> QED
    BY <2>1, <2>2, Zenon DEF SameHeld
<1> HIDE DEF K0
<1>b. StatesKept(k, K0)
  BY <1>2, InvFacts, OtherFields, TicksCompose DEF Consistent, IdleOK, StatesKept, SameTicks
<1>c. Consistent(K0) /\ Links(K0, K0, t, "off", NoObj, "off")
  BY <1>1, <1>b, LinksStart DEF StatesKept, ready_link, tick_link, waits_for, Pending, Timed
<1>4. /\ SameQueue(k, K1)
      /\ K1.block_list = k.block_list /\ SameTicks(k, K1)
      /\ K1.raw_task_active = k.raw_task_active /\ K1.fault = k.fault
      /\ K1.live = k.live
      /\ \A u \in Task \ {t} : /\ K1.task_state[u] = k.task_state[u]
                                /\ K1.priority[u] = k.priority[u]
                                /\ K1.block_obj[u] = k.block_obj[u]
                                /\ K1.block_status[u] = k.block_status[u]
      /\ K1.task_state[t] = (IF t \in AutoStart THEN "RDY" ELSE "SUSPENDED")
      /\ K1.block_obj[t] = NoObj
  <2>1. /\ K1.task_state = [k.task_state EXCEPT ![t] = IF t \in AutoStart THEN "RDY" ELSE "SUSPENDED"]
        /\ K1.priority = [k.priority EXCEPT ![t] = InitPrio[t]]
        /\ K1.block_obj = [k.block_obj EXCEPT ![t] = NoObj]
        /\ K1.block_status = [k.block_status EXCEPT ![t] = "STALE"]
    BY SMTT(30), InvFacts DEF KernelState
  <2>2. /\ K1.task_ready_list = k.task_ready_list /\ K1.task_bit_map = k.task_bit_map
        /\ K1.highest_priority = k.highest_priority
        /\ K1.block_list = k.block_list
        /\ K1.tick_head = k.tick_head /\ K1.tick_match = k.tick_match
        /\ K1.raw_tick_count = k.raw_tick_count
        /\ K1.raw_task_active = k.raw_task_active /\ K1.fault = k.fault
        /\ K1.live = k.live
    BY ZenonT(40), InvFacts DEF KernelState
  <2>3. /\ k.task_state \in [Task -> TaskState] /\ k.priority \in [Task -> Prio]
        /\ k.block_obj \in [Task -> Obj \cup {NoObj}]
        /\ k.block_status \in [Task -> BlockState]
    BY InvFacts DEF KernelState
  <2> HIDE DEF K1
  <2> QED
    BY <2>1, <2>2, <2>3 DEF SameQueue, SameTicks
<1>5. K1 \in KernelState
  <2>1. /\ K1.task_state \in [Task -> TaskState] /\ K1.suspend_count \in [Task -> Nat]
        /\ K1.priority \in [Task -> Prio] /\ K1.bpriority \in [Task -> Prio]
        /\ K1.sched_fifo \in SUBSET Task
        /\ K1.time_total \in [Task -> 1 .. TimeTotal]
        /\ K1.time_slice \in [Task -> 0 .. TimeTotal]
        /\ K1.block_status \in [Task -> BlockState]
        /\ K1.block_obj \in [Task -> Obj \cup {NoObj}]
        /\ K1.mtxlist \in [Task -> Mutex \cup {NoObj}]
    <3>1. {"RDY", "SUSPENDED"} \subseteq TaskState /\ "STALE" \in BlockState
      BY DEF TaskState, Suspended, BlockState
    <3>2. /\ k.task_state \in [Task -> TaskState] /\ k.suspend_count \in [Task -> Nat]
          /\ k.priority \in [Task -> Prio] /\ k.bpriority \in [Task -> Prio]
          /\ k.sched_fifo \in SUBSET Task
          /\ k.time_total \in [Task -> 1 .. TimeTotal]
          /\ k.time_slice \in [Task -> 0 .. TimeTotal]
          /\ k.block_status \in [Task -> BlockState]
          /\ k.block_obj \in [Task -> Obj \cup {NoObj}]
          /\ k.mtxlist \in [Task -> Mutex \cup {NoObj}]
      BY ZenonT(60), InvFacts DEF KernelState
    <3>3. /\ K1.task_state = [k.task_state EXCEPT ![t] = IF t \in AutoStart THEN "RDY" ELSE "SUSPENDED"]
          /\ K1.suspend_count = [k.suspend_count EXCEPT ![t] = IF t \in AutoStart THEN 0 ELSE 1]
          /\ K1.priority = [k.priority EXCEPT ![t] = InitPrio[t]]
          /\ K1.bpriority = [k.bpriority EXCEPT ![t] = InitPrio[t]]
          /\ K1.sched_fifo = k.sched_fifo \ {t}
          /\ K1.time_total = [k.time_total EXCEPT ![t] = InitSlice[t]]
          /\ K1.time_slice = [k.time_slice EXCEPT ![t] = InitSlice[t]]
          /\ K1.block_status = [k.block_status EXCEPT ![t] = "STALE"]
          /\ K1.block_obj = [k.block_obj EXCEPT ![t] = NoObj]
          /\ K1.mtxlist = [k.mtxlist EXCEPT ![t] = NoObj]
      BY ZenonT(40), InvFacts DEF KernelState
    <3> HIDE DEF K1
    <3> QED
      BY <1>3, <3>1, <3>2, <3>3
  <2>2. K1 = [k EXCEPT !.task_state = K1.task_state, !.suspend_count = K1.suspend_count,
                       !.priority = K1.priority, !.bpriority = K1.bpriority,
                       !.sched_fifo = K1.sched_fifo, !.time_total = K1.time_total,
                       !.time_slice = K1.time_slice, !.block_status = K1.block_status,
                       !.block_obj = K1.block_obj, !.mtxlist = K1.mtxlist]
    BY ZenonT(60), InvFacts DEF KernelState
  <2> HIDE DEF K1
  <2>3. [k EXCEPT !.task_state = K1.task_state, !.suspend_count = K1.suspend_count,
                !.priority = K1.priority, !.bpriority = K1.bpriority,
                !.sched_fifo = K1.sched_fifo, !.time_total = K1.time_total,
                !.time_slice = K1.time_slice, !.block_status = K1.block_status,
                !.block_obj = K1.block_obj, !.mtxlist = K1.mtxlist] \in KernelState
    BY <2>1, InvFacts DEF KernelState
  <2> QED
    BY <2>2, <2>3, Zenon
<1> HIDE DEF K1
<1>6. Links(K0, K1, t, "off", NoObj, "off")
  <2>1. SameQueue(K0, K1) /\ SameTicks(K0, K1)
    BY <1>2, <1>4 DEF SameQueue, SameTicks
  <2> QED
    BY <1>2, <1>4, <1>5, <1>a, <1>c, <2>1, WriteFields
<1>7. /\ Links(K0, A, t, "on", NoObj, "off") /\ A.task_state[t] = K1.task_state[t]
      /\ A.block_obj = K1.block_obj
  BY <1>6, <1>c, add_ready_listLinked DEF SameTasks
<1> HIDE DEF A
<1>8. Links(K0, k', t, ready_link(k', t), NoObj, "off")
  BY <1>1, <1>4, <1>6, <1>7 DEF ready_link
<1>9. k'.task_state[t] \in {"RDY", "SUSPENDED"}
  BY <1>1, <1>4, <1>7
<1>10. tick_link(k', t) = "off" /\ waits_for(k', t) = NoObj /\ k'.task_state[t] \notin Pending
  BY <1>9 DEF tick_link, waits_for, Timed, Pending
<1>d. Moves(K0, k', t)
  BY <1>1, <1>8, <1>10, <1>c, LinksEnd
<1>11. OneMoves(k, k', t) /\ SameHeld(K0, k')
  BY <1>b, <1>d, TicksCompose DEF Moves, OneMoves, StatesKept
<1>e. k'.block_obj[t] = NoObj
  <2>1. K1.block_obj[t] = NoObj
    BY <1>4
  <2> QED
    BY <1>1, <1>7, <2>1 DEF SameTasks
<1>12. pc' \in [Task -> Place] /\ call' \in [Task -> Call]
  BY <1>1, InvFacts DEF Place, Call
<1>13. t = active \/ pc'[active] = pc[active] \/ Ahead
  BY SMTT(40), <1>1, InvFacts DEF Ahead
<1>14. t # active
  BY <1>1, RunningIsReady DEF raw_task_create, Boot, TaskInv, active
<1>15. StartsNoWait(t) /\ Informed(t)
  BY <1>1, <1>9, <1>10, <1>12, <1>e, InvFacts
  DEF StartsNoWait, Informed, Away, Pending, Timed, Forgets
<1>17. k.task_state[t] \notin Suspended
  BY <1>1 DEF Suspended
<1>16. Preserved /\ Calm /\ Told /\ TicksKept(k, k') /\ StaysSuspended
  BY SMTT(40), <1>17, <1>1, <1>11, <1>12, <1>13, <1>14, <1>15, InvFacts, StepLoop, OneTaskMoves
<1> QED
  BY <1>1, <1>9, <1>11, <1>16, <1>e DEF K0, Awake

\* The task gives up the processor, or goes on the tick list.
LEMMA raw_sleepInv ==
  ASSUME TaskInv, NEW dly \in Delays, raw_sleep(dly)
  PROVE  Preserved /\ SameHeld(k, k') /\ Calm /\ Told /\ TicksKept(k, k') /\ StaysSuspended
<1>1. /\ TaskRuns /\ loop = NoLoop /\ loop' = loop /\ UNCHANGED sys
      /\ k.task_state[active] = "RDY" /\ active \in Task \ {Idle} /\ dly \in Ticks
      /\ loop' \in Loop /\ LoopOK'
  BY RunningIsReady, StepLoop, TaskAssumption DEF raw_sleep, TaskRuns, TaskAt
<1>2. CASE dly = 0
  <2>1. SameStates(k, k') /\ Resched /\ call' = call
    BY <1>1, <1>2, InvFacts, move_to_ready_list_endKeeps DEF raw_sleep
  <2> QED
    BY <1>1, <2>1, InvFacts, ReschedOK, NoTaskMoves
<1>3. CASE dly # 0
  <2> DEFINE D == [k EXCEPT !.task_state[active] = "DLY"]
             T == tick_list_insert(D, active, dly)
             R == remove_ready_list(T, active)
  <2>1. k' = R /\ raw_sched_lock = 0 /\ Block("sleep")
    BY <1>3, InvFacts DEF raw_sleep, MayStop
  <2>2. Links(k, k, active, "on", NoObj, "off")
    BY <1>1, InvFacts, LinksStart DEF ready_link, tick_link, waits_for, Pending, Timed
  <2>3. /\ Links(k, D, active, "on", NoObj, "off") /\ D.task_state[active] = "DLY"
        /\ D.block_status = k.block_status /\ D.block_obj = k.block_obj
    BY <1>1, <2>2, WriteState DEF TaskState, Timed
  <2> HIDE DEF D
  <2>4. Links(k, T, active, "on", NoObj, "on") /\ SameTasks(D, T)
    BY <1>1, <1>3, <2>3, tick_list_insertLinked
  <2> HIDE DEF T
  <2>5. /\ Links(k, R, active, "off", NoObj, "on")
        /\ R.task_state = D.task_state /\ R.block_status = k.block_status
        /\ R.block_obj = k.block_obj
    BY <1>1, <2>3, <2>4, InvFacts, remove_ready_listLinked DEF SameTasks
  <2> HIDE DEF R
  <2>6. /\ ready_link(R, active) = "off" /\ tick_link(R, active) = "on"
        /\ waits_for(R, active) = NoObj /\ R.task_state[active] \notin Pending
    BY <2>3, <2>5 DEF ready_link, tick_link, waits_for, Timed, Pending
  <2>7. Moves(k, k', active)
    BY <1>1, <2>1, <2>5, <2>6, InvFacts, LinksEnd
  <2>8. pc' \in [Task -> Place] /\ call' \in [Task -> Call] /\ Ahead
    BY <2>1, InvFacts DEF Block, Place, Call, Ahead
  <2>9. StartsNoWait(active) /\ Informed(active)
    BY <1>1, <2>1, <2>3, <2>5, <2>6, InvFacts
    DEF StartsNoWait, Informed, Block, Pending, Timed, Forgets
  <2>10. k.task_state[active] \notin Suspended
    BY <1>1 DEF Suspended
  <2> QED
    BY <1>1, <2>1, <2>7, <2>8, <2>9, <2>10, OneTaskStep
<1> QED
  BY <1>2, <1>3

\* A task that sleeps is in a state with a deadline.
LEMMA SleepState ==
  ASSUME TaskInv, NEW dly \in Delays, raw_sleep(dly), dly # 0
  PROVE  k'.task_state[active] = "DLY"
<1> DEFINE D == [k EXCEPT !.task_state[active] = "DLY"]
           T == tick_list_insert(D, active, dly)
<1>1. k' = remove_ready_list(T, active)
  BY InvFacts DEF raw_sleep
<1>2. D.task_state[active] = "DLY"
  BY InvFacts DEF KernelState
<1> HIDE DEF D
<1>3. T.task_state = D.task_state
  BY DEF tick_list_insert
<1> HIDE DEF T
<1>4. remove_ready_list(T, active).task_state = T.task_state
  BY DEF remove_ready_list, Fault
<1> QED
  BY <1>1, <1>2, <1>3, <1>4

\* A suspended task stays on its block list and on the tick list.
LEMMA raw_task_suspendInv ==
  ASSUME TaskInv, NEW t \in Task, raw_task_suspend(t)
  PROVE  Preserved /\ SameHeld(k, k') /\ Calm /\ Told /\ TicksKept(k, k') /\ StaysSuspended
<1> DEFINE s  == SuspendedState(k.task_state[t])
           C  == [k EXCEPT !.suspend_count[t] = 1]
           K1 == [C EXCEPT !.task_state[t] = s]
           R  == remove_ready_list(K1, t)
<1>1. /\ t # Idle /\ MayStop(t) /\ loop = NoLoop /\ loop' = loop /\ UNCHANGED sys
      /\ call' = call /\ Resched /\ loop' \in Loop /\ LoopOK'
      /\ k.task_state[t] \notin Suspended \cup {"DELETED"}
  BY StepLoop DEF raw_task_suspend, Caller, TaskRuns, TaskAt, IsrRuns
<1>2. k' = IF k.task_state[t] = "RDY" THEN R ELSE K1
  BY InvFacts DEF raw_task_suspend, KernelState
<1>3. k.task_state[t] \in {"RDY", "DLY", "PEND", "PEND_TIMEOUT"}
  <2>1. k.task_state[t] \in TaskState
    BY InvFacts DEF KernelState
  <2> QED
    BY <1>1, <2>1 DEF TaskState, Pending, Timed, Suspended
<1>4. /\ s \in Suspended /\ s \in TaskState
      /\ s \in Timed <=> k.task_state[t] \in Timed
      /\ s \in Pending <=> k.task_state[t] \in Pending
  BY <1>3 DEF SuspendedState, TaskState, Pending, Timed, Suspended
<1> DEFINE r == ready_link(k, t)
           o == waits_for(k, t)
           x == tick_link(k, t)
<1>5. Links(k, k, t, r, o, x)
  BY InvFacts, LinksStart
<1>6. C \in KernelState /\ SameQueue(k, C) /\ SameTasks(k, C)
      /\ C.block_list = k.block_list /\ SameTicks(k, C)
  BY InvFacts DEF KernelState, SameQueue, SameTasks, SameHeld, SameTicks
<1> HIDE DEF C, s, r, o, x
<1>7. Links(k, C, t, r, o, x)
  BY <1>5, <1>6, WriteFields DEF SameTasks
<1>8. /\ Links(k, K1, t, r, o, x) /\ K1.task_state[t] = s
      /\ K1.block_obj = k.block_obj /\ K1.block_status = k.block_status
  BY <1>4, <1>6, <1>7, WriteState DEF SameTasks
<1> HIDE DEF K1
<1>9. /\ Links(k, R, t, "off", o, x)
      /\ R.task_state[t] = s /\ R.block_obj = k.block_obj /\ R.block_status = k.block_status
  BY <1>1, <1>8, InvFacts, remove_ready_listLinked DEF SameTasks
<1> HIDE DEF R
<1>10. /\ Links(k, k', t, "off", o, x)
       /\ k'.task_state[t] = s /\ k'.block_obj = k.block_obj
       /\ k'.block_status = k.block_status
  BY <1>2, <1>8, <1>9 DEF r, ready_link
<1>11. /\ ready_link(k', t) = "off" /\ waits_for(k', t) = o /\ tick_link(k', t) = x
       /\ k'.task_state[t] \in Pending => o \in Obj
  <2>1. k.task_state[t] \in Pending => k.block_obj[t] \in Obj
    BY InvFacts DEF Consistent, LinkedAs
  <2>2. s # "RDY"
    BY <1>4 DEF Suspended
  <2> QED
    BY <1>4, <1>10, <2>1, <2>2 DEF ready_link, waits_for, tick_link, o, x
<1>12. Moves(k, k', t)
  BY <1>1, <1>10, <1>11, InvFacts, LinksEnd
<1>13. t = active => raw_sched_lock = 0
  BY <1>1 DEF MayStop
<1>14. StartsNoWait(t) /\ Informed(t)
  BY <1>1, <1>4, <1>10 DEF StartsNoWait, Informed, Suspended, Pending, Away, Forgets
<1> QED
  BY <1>1, <1>12, <1>13, <1>14, InvFacts, ReschedOK, OneTaskStep

LEMMA raw_task_suspend_againInv ==
  ASSUME TaskInv, NEW t \in Task, raw_task_suspend_again(t)
  PROVE  Preserved /\ SameHeld(k, k') /\ Calm /\ Told /\ TicksKept(k, k') /\ StaysSuspended
<1> DEFINE n == (k.suspend_count[t] + 1) % ByteMod
<1>1. /\ loop = NoLoop /\ loop' = loop /\ UNCHANGED sys /\ call' = call
      /\ pc' = pc \/ Resched
      /\ k' = [k EXCEPT !.suspend_count[t] = n]
      /\ loop' \in Loop /\ LoopOK'
  BY StepLoop, InvFacts
  DEF raw_task_suspend_again, Caller, TaskRuns, TaskAt, IsrRuns, KernelState
<1>2. n \in Nat
  <2>1. k.suspend_count[t] \in Nat
    BY InvFacts DEF KernelState
  <2> QED
    BY <2>1, TaskAssumption
<1> HIDE DEF n
<1>3. /\ k' \in KernelState /\ SameQueue(k, k') /\ SameTasks(k, k')
      /\ k'.block_list = k.block_list /\ SameTicks(k, k')
  BY <1>1, <1>2, InvFacts DEF KernelState, SameQueue, SameTasks, SameHeld, SameTicks
<1>4. SameStates(k, k')
  BY <1>3, InvFacts, WriteOther
<1> QED
  BY <1>1, <1>4, InvFacts, ReschedOK, NoTaskMoves

\* The last resume puts a task that waits for nothing on the ready list; any
\* other task only loses the suspension.
LEMMA raw_task_resumeInv ==
  ASSUME TaskInv, NEW t \in Task, raw_task_resume(t)
  PROVE  /\ Preserved /\ SameHeld(k, k') /\ Calm /\ Told /\ TicksKept(k, k')
         /\ \A u \in Task \ {t} : k'.task_state[u] = k.task_state[u]
<1> DEFINE n  == (k.suspend_count[t] + ByteMod - 1) % ByteMod
           s  == ResumedState(k.task_state[t])
           K1 == [k EXCEPT !.suspend_count[t] = n]
           K2 == [K1 EXCEPT !.task_state[t] = s]
           R  == add_ready_list(K2, t)
<1>1. /\ loop = NoLoop /\ loop' = loop /\ UNCHANGED sys
      /\ call' = call /\ Resched /\ loop' \in Loop /\ LoopOK'
      /\ k.task_state[t] \in Suspended
  BY StepLoop DEF raw_task_resume, Caller, TaskRuns, TaskAt, IsrRuns
<1>2. t \in Task \ {Idle} /\ k.task_state[t] # "RDY"
  BY <1>1, InvFacts DEF Suspended
<1>3. /\ s \in TaskState \ {"DELETED"} /\ (s = "RDY" <=> k.task_state[t] = "SUSPENDED")
      /\ s \in Timed <=> k.task_state[t] \in Timed
      /\ s \in Pending <=> k.task_state[t] \in Pending
  BY <1>1 DEF ResumedState, TaskState, Pending, Timed, Suspended
<1>4. n \in Nat
  <2>1. k.suspend_count[t] \in Nat
    BY InvFacts DEF KernelState
  <2> QED
    BY <2>1, TaskAssumption
<1> HIDE DEF n
<1>5. /\ K1 \in KernelState /\ SameQueue(k, K1) /\ SameTasks(k, K1)
      /\ K1.block_list = k.block_list /\ SameTicks(k, K1)
  BY <1>4, InvFacts DEF KernelState, SameQueue, SameTasks, SameHeld, SameTicks
<1>6. K1.task_state[t] = k.task_state[t] /\ K2.task_state[t] = s
      /\ K1.suspend_count[t] = n
  BY InvFacts DEF KernelState
<1>7. k' = IF n # 0 THEN K1 ELSE IF s = "RDY" THEN R ELSE K2
  BY <1>6 DEF raw_task_resume, n
<1> HIDE DEF s
<1>8. SameStates(k, K1) /\ SameTasks(k, K1)
  BY <1>5, InvFacts, WriteOther
<1> HIDE DEF K1
<1> DEFINE o == waits_for(k, t)
           x == tick_link(k, t)
<1>9. Links(k, k, t, "off", o, x)
  BY <1>2, InvFacts, LinksStart DEF ready_link
<1>10. Links(k, K1, t, "off", o, x)
  BY <1>5, <1>9, WriteFields DEF SameTasks
<1>11. /\ Links(k, K2, t, "off", o, x) /\ K2.task_state[t] = s
       /\ K2.block_obj = k.block_obj /\ K2.block_status = k.block_status
  BY <1>3, <1>8, <1>10, WriteState DEF SameTasks
<1> HIDE DEF K2
<1>12. /\ Links(k, R, t, "on", o, x) /\ R.task_state[t] = s
       /\ R.block_obj = k.block_obj /\ R.block_status = k.block_status
  BY <1>11, InvFacts, add_ready_listLinked DEF SameTasks
<1> HIDE DEF R
<1>13. CASE n # 0
  BY <1>1, <1>7, <1>8, <1>13, InvFacts, ReschedOK, NoTaskMoves DEF SameStates, StatesKept
<1>14. CASE n = 0
  <2>1. /\ Links(k, k', t, IF s = "RDY" THEN "on" ELSE "off", o, x)
        /\ k'.task_state[t] = s /\ k'.block_obj = k.block_obj
        /\ k'.block_status = k.block_status
    BY <1>7, <1>11, <1>12, <1>14
  <2>2. k.task_state[t] \in Pending => k.block_obj[t] \in Obj
    BY InvFacts DEF Consistent, LinkedAs
  <2>3. /\ waits_for(k', t) = o /\ tick_link(k', t) = x
        /\ ready_link(k', t) = IF s = "RDY" THEN "on" ELSE "off"
        /\ k'.task_state[t] \in Pending => o \in Obj
    BY <1>3, <2>1, <2>2 DEF waits_for, tick_link, ready_link
  <2> HIDE DEF o, x
  <2>4. Moves(k, k', t)
    BY <1>2, <2>1, <2>3, InvFacts, LinksEnd
  <2>5. StartsNoWait(t) /\ Informed(t)
    BY <1>1, <1>3, <2>1 DEF StartsNoWait, Informed, Suspended, Away, Forgets
  <2> QED
    BY <1>1, <1>2, <2>4, <2>5, InvFacts, ReschedOK, OneTaskStep DEF Moves, OneMoves
<1> QED
  BY <1>13, <1>14

LEMMA raw_task_priority_changeInv ==
  ASSUME TaskInv, NEW t \in Task, NEW p \in 0 .. PrioMax - 2, raw_task_priority_change(t, p)
  PROVE  /\ Preserved /\ Calm /\ Told /\ TicksKept(k, k') /\ StaysSuspended
         /\ SameHeld([k EXCEPT !.bpriority[t] = p], k') /\ k'.task_state = k.task_state
<1> DEFINE K1 == [k EXCEPT !.bpriority[t] = p]
           q  == chg_pri_mutex(k, t, p)
<1>1. /\ loop = NoLoop /\ loop' = loop /\ UNCHANGED sys /\ call' = call
      /\ pc' = pc \/ Resched
      /\ k.priority[t] < IdlePrio
      /\ k' = change_internal_task_priority(K1, t, q)
      /\ loop' \in Loop /\ LoopOK'
  BY StepLoop DEF raw_task_priority_change, TaskRuns, TaskAt
<1>2. p \in Prio
  BY KernelAssumption DEF Prio
<1>3. t \in Task \ {Idle}
  <2>1. k.priority[Idle] = IdlePrio /\ IdlePrio \in Nat
    BY InvFacts, PrioFacts DEF Consistent, IdleOK
  <2> QED
    BY <1>1, <2>1
<1>4. q \in Prio
  BY <1>2, InvFacts, LentIsPrio DEF chg_pri_mutex
<1> HIDE DEF q
<1>5. /\ K1 \in KernelState /\ SameQueue(k, K1) /\ SameTicks(k, K1)
      /\ K1.block_list = k.block_list /\ K1.task_state = k.task_state
      /\ K1.priority = k.priority /\ K1.block_obj = k.block_obj /\ K1.fault = k.fault
      /\ K1.block_status = k.block_status /\ K1.raw_task_active = k.raw_task_active
      /\ K1.live = k.live /\ K1.mtxtsk = k.mtxtsk
  BY <1>2, InvFacts DEF KernelState, SameQueue, SameTicks
<1> HIDE DEF K1
<1>6. StatesKept(k, K1)
  BY <1>5, InvFacts, OtherFields, TicksCompose DEF Consistent, IdleOK, StatesKept, SameTicks
<1>7. SameStates(K1, k')
  BY <1>1, <1>3, <1>4, <1>6, change_internal_task_priorityKeeps DEF StatesKept
<1>8. StatesKept(k, k') /\ SameHeld(K1, k')
  BY <1>6, <1>7, TicksCompose DEF StatesKept, SameStates
<1>9. Preserved /\ Calm /\ Told /\ TicksKept(k, k') /\ StaysSuspended
  BY <1>1, <1>8, InvFacts, ReschedOK, NoTaskChanges
<1> QED
  BY <1>8, <1>9 DEF K1, StatesKept

LEMMA raw_task_wait_abortInv ==
  ASSUME TaskInv, NEW t \in Task, raw_task_wait_abort(t)
  PROVE  /\ Preserved /\ SameHeld(k, k') /\ Calm /\ Told /\ TicksKept(k, k')
         /\ \A u \in Task \ {t} : k'.task_state[u] = k.task_state[u]
<1>1. /\ loop = NoLoop /\ loop' = loop /\ UNCHANGED sys /\ call' = call /\ Resched
      /\ loop' \in Loop /\ LoopOK'
  BY StepLoop DEF raw_task_wait_abort, TaskRuns, TaskAt
<1>2. /\ Moves(k, k', t) /\ (k' = k \/ k'.task_state[t] = "RDY")
      /\ IF k.task_state[t] \in Pending \cup Timed THEN k'.block_status[t] = "ABORT"
         ELSE k'.block_status = k.block_status
      /\ k.task_state[t] # "DELETED" /\ Forgets(k, k', t)
  BY InvFacts, wait_abortMoves DEF raw_task_wait_abort
<1>3. StartsNoWait(t) /\ Informed(t)
  BY <1>2 DEF StartsNoWait, Informed, Outcome, Pending, Timed, Away
<1> QED
  BY <1>1, <1>2, <1>3, InvFacts, ReschedOK, OneTaskStep DEF Moves, OneMoves

LEMMA raw_task_time_slice_changeInv ==
  ASSUME TaskInv, NEW t \in Task, NEW n \in 1 .. TimeTotal, raw_task_time_slice_change(t, n)
  PROVE  Preserved /\ SameHeld(k, k') /\ Calm /\ Told /\ TicksKept(k, k') /\ StaysSuspended
<1>1. /\ loop = NoLoop /\ loop' = loop /\ UNCHANGED sys /\ call' = call /\ pc' = pc
      /\ k' = [k EXCEPT !.time_total[t] = n, !.time_slice[t] = n]
      /\ loop' \in Loop /\ LoopOK'
  BY StepLoop DEF raw_task_time_slice_change, TaskRuns, TaskAt
<1>2. n \in 0 .. TimeTotal
  BY KernelAssumption
<1>3. /\ k' \in KernelState /\ SameQueue(k, k') /\ SameTasks(k, k')
      /\ k'.block_list = k.block_list /\ SameTicks(k, k')
  BY <1>1, <1>2, InvFacts DEF KernelState, SameQueue, SameTasks, SameHeld, SameTicks
<1>4. SameStates(k, k')
  BY <1>3, InvFacts, WriteOther
<1> QED
  BY <1>1, <1>4, InvFacts, NoTaskMoves

LEMMA raw_set_sched_wayInv ==
  ASSUME TaskInv, NEW t \in Task, raw_set_sched_way(t)
  PROVE  Preserved /\ SameHeld(k, k') /\ Calm /\ Told /\ TicksKept(k, k') /\ StaysSuspended
<1>1. /\ loop = NoLoop /\ loop' = loop /\ UNCHANGED sys /\ call' = call /\ pc' = pc
      /\ loop' \in Loop /\ LoopOK'
  BY StepLoop DEF raw_set_sched_way, TaskRuns, TaskAt
<1>2. PICK policy \in {{}, {t}} : k' = [k EXCEPT !.sched_fifo = (@ \ {t}) \cup policy]
  BY DEF raw_set_sched_way
<1>3. /\ k' \in KernelState /\ SameQueue(k, k') /\ SameTasks(k, k')
      /\ k'.block_list = k.block_list /\ SameTicks(k, k')
  BY <1>2, InvFacts DEF KernelState, SameQueue, SameTasks, SameHeld, SameTicks
<1>4. SameStates(k, k')
  BY <1>3, InvFacts, WriteOther
<1> QED
  BY <1>1, <1>4, InvFacts, NoTaskMoves

LEMMA raw_task_deleteInv ==
  ASSUME TaskInv, NEW t \in Task, raw_task_delete(t)
  PROVE  Preserved /\ SameHeld(k, k') /\ Calm /\ Told /\ TicksKept(k, k') /\ StaysSuspended
<1>1. /\ t # Idle /\ MayStop(t) /\ k' = k /\ UNCHANGED sys /\ pc' = pc /\ call' = call
      /\ loop' = [NoLoop EXCEPT !.op = "free", !.task = t, !.obj = k.mtxlist[t]]
  BY DEF raw_task_delete
<1>2. k.mtxlist[t] \in Mutex \cup {NoObj}
  BY InvFacts DEF KernelState
<1>3. /\ loop'.op = "free" /\ loop'.task = t /\ loop'.obj = k.mtxlist[t]
      /\ loop' \in Loop
  BY <1>1, <1>2, KernelAssumption DEF NoLoop, Loop
<1>4. LoopOK'
  BY <1>1, <1>2, <1>3 DEF LoopOK, MayStop, sys, active
<1>5. SameStates(k, k')
  BY <1>1, InvFacts, SameCompose
<1> QED
  BY <1>1, <1>3, <1>4, <1>5, InvFacts, NoTaskMoves

\* The mutex becomes free, or goes to the first task that waits for it.
FreeOne ==
  LET m == loop.obj
      t == Head(k.block_list[m])
  IN  /\ k.block_list[m] = <<>> =>
           /\ SameHeld([k EXCEPT !.mtxtsk[m] = NoTask], k') /\ StatesKept(k, k')
      /\ k.block_list[m] # <<>> =>
           /\ t \in Task \ {Idle} /\ SameHeld(push_mutex(k, t, m), k')
           /\ k.task_state[t] \in Pending /\ k.block_obj[t] = m
           /\ OneMoves(k, k', t)
           /\ k'.task_state[t] \in Awake /\ k'.block_status[t] = "OK"

LEMMA FreeMutexInv ==
  ASSUME TaskInv, FreeMutex
  PROVE  Preserved /\ FreeOne /\ Calm /\ Told /\ TicksKept(k, k') /\ StaysSuspended
<1> DEFINE m == loop.obj
<1>1. /\ loop.op = "free" /\ m \in Mutex
      /\ k' = free_one_mutex(k, m) /\ UNCHANGED sys /\ pc' = pc /\ call' = call
      /\ loop' = [loop EXCEPT !.obj = k.mtxnext[m]]
      /\ loop.task \in Task \ {Idle} /\ MayStop(loop.task)
  BY DEF FreeMutex, TaskInv, LoopOK
<1>2. k.mtxnext[m] \in Mutex \cup {NoObj}
  BY <1>1, InvFacts DEF KernelState
<1>3. /\ loop'.op = "free" /\ loop'.task = loop.task /\ loop'.obj = k.mtxnext[m]
      /\ loop' \in Loop
  BY <1>1, <1>2, InvFacts, KernelAssumption DEF Loop
<1> DEFINE t == Head(k.block_list[m])
<1>4. /\ k.block_list[m] = <<>> => /\ StatesKept(k, k')
                                   /\ SameHeld([k EXCEPT !.mtxtsk[m] = NoTask], k')
      /\ k.block_list[m] # <<>> =>
           /\ t \in Task \ {Idle} /\ OneMoves(k, k', t)
           /\ SameHeld(push_mutex(k, t, m), k')
           /\ k.task_state[t] \in Pending /\ k.block_obj[t] = m
           /\ k'.block_status[t] = "OK" /\ k'.task_state[t] \in Awake
           /\ k'.block_obj[t] = NoObj
           /\ k.task_state[t] \in Suspended => k'.task_state[t] = "SUSPENDED"
  <2>1. Consistent(k) /\ m \in Mutex /\ k' = free_one_mutex(k, m)
    BY <1>1, InvFacts
  <2> HIDE DEF m
  <2> QED
    BY <2>1, free_one_mutexMoves
<1> HIDE DEF t
<1>5. k'.raw_task_active = k.raw_task_active
  BY <1>4 DEF StatesKept, OneMoves
<1>6. LoopOK'
  BY <1>1, <1>2, <1>3, <1>5 DEF LoopOK, MayStop, sys, active
<1>7. CASE k.block_list[m] = <<>>
  BY <1>1, <1>3, <1>4, <1>6, <1>7, InvFacts, NoTaskChanges DEF FreeOne
<1>8. CASE k.block_list[m] # <<>>
  <2>1. /\ k.task_state[t] # "RDY" /\ StartsNoWait(t)
        /\ k.task_state[t] \in Suspended => k'.task_state[t] \in Suspended
    BY <1>4, <1>8 DEF Pending, Awake, Suspended, StartsNoWait
  <2>2. Informed(t)
    BY <1>1, <1>4, <1>8 DEF Informed, Outcome, Pending, Timed, Away, Awake, Forgets
  <2>3. Preserved /\ Calm /\ Told /\ TicksKept(k, k') /\ StaysSuspended
    BY <1>1, <1>3, <1>4, <1>6, <1>8, <2>1, <2>2, InvFacts, OneTaskMoves
  <2> QED
    BY <1>4, <1>8, <2>3 DEF FreeOne, t
<1> QED
  BY <1>7, <1>8

LEMMA FinishDeleteInv ==
  ASSUME TaskInv, FinishDelete
  PROVE  /\ Preserved /\ SameHeld(k, k') /\ Calm /\ Told /\ TicksKept(k, k') /\ StaysSuspended
         /\ k'.task_state[loop.task] = "DELETED"
<1> DEFINE t == loop.task
           s == k.task_state[t]
           Gone(K) == [K EXCEPT !.task_state[t] = "DELETED"]
           R == remove_ready_list(k, t)
           T == tick_list_remove(k, t)
           U == unlink_blocked(T, t)
<1>1. /\ loop.op = "free" /\ t \in Task \ {Idle} /\ MayStop(t)
      /\ loop.obj = NoObj /\ loop.task = t
      /\ loop' = NoLoop /\ UNCHANGED sys /\ call' = call
      /\ IF s = "DELETED" THEN pc' = pc ELSE Resched
  BY DEF FinishDelete, TaskInv, LoopOK
<1>2. k' = CASE s = "RDY" -> Gone(R)
             [] s = "SUSPENDED" -> Gone(k)
             [] s \in {"DLY", "DLY_SUSPENDED"} -> Gone(T)
             [] s \in Pending -> mutex_state_change(Gone(U), t)
             [] OTHER -> k
  BY DEF FinishDelete
<1> HIDE DEF t
<1>3. Links(k, k, t, ready_link(k, t), waits_for(k, t), tick_link(k, t))
  BY <1>1, InvFacts, LinksStart
<1>4. Links(k, T, t, ready_link(k, t), waits_for(k, t), "off") /\ T.block_obj = k.block_obj
  BY <1>1, <1>3, tick_list_removeLinked DEF SameTasks
<1>5. Links(k, R, t, "off", waits_for(k, t), tick_link(k, t))
  BY <1>1, <1>3, InvFacts, remove_ready_listLinked
<1> HIDE DEF R, T
<1>6. s \in TaskState
  BY <1>1, InvFacts DEF KernelState
<1>7. Moves(k, k', t) /\ (s = "DELETED" => k' = k) /\ k'.task_state[t] = "DELETED"
  <2>1. CASE s = "RDY"
    <3>1. Links(k, R, t, "off", NoObj, "off")
      BY <1>5, <2>1 DEF waits_for, tick_link, Pending, Timed
    <3>2. k' = Gone(R)
      BY <1>2, <2>1 DEF Pending
    <3> QED
      BY <1>1, <2>1, <3>1, <3>2, InvFacts, DeleteUnlinked
  <2>2. CASE s = "SUSPENDED"
    <3>1. Links(k, k, t, "off", NoObj, "off")
      BY <1>3, <2>2 DEF waits_for, tick_link, ready_link, Pending, Timed
    <3>2. k' = Gone(k)
      BY <1>2, <2>2 DEF Pending
    <3> QED
      BY <1>1, <2>2, <3>1, <3>2, InvFacts, DeleteUnlinked
  <2>3. CASE s \in {"DLY", "DLY_SUSPENDED"}
    <3>1. Links(k, T, t, "off", NoObj, "off")
      BY <1>4, <2>3 DEF waits_for, ready_link, Pending
    <3>2. k' = Gone(T)
      BY <1>2, <2>3 DEF Pending
    <3> QED
      BY <1>1, <2>3, <3>1, <3>2, InvFacts, DeleteUnlinked
  <2>4. CASE s \in Pending
    <3>1. Links(k, T, t, "off", T.block_obj[t], "off")
      BY <1>4, <2>4 DEF waits_for, ready_link, Pending
    <3>2. Links(k, U, t, "off", NoObj, "off")
      BY <1>1, <3>1, unlink_blockedLinked
    <3>3. k' = mutex_state_change(Gone(U), t)
      BY <1>2, <2>4 DEF Pending
    <3> HIDE DEF U
    <3>4. Moves(k, Gone(U), t) /\ Gone(U).task_state[t] = "DELETED"
      BY <1>1, <3>2, InvFacts, DeleteUnlinked
    <3> HIDE DEF Gone
    <3>5. SameStates(Gone(U), k')
      BY <1>1, <3>3, <3>4, mutex_state_changeKeeps DEF Moves, OneMoves
    <3> QED
      BY <2>4, <3>4, <3>5, MovesCompose DEF SameStates, StatesKept, Pending
  <2>5. CASE s = "DELETED"
    <3>1. k' = k
      BY <1>2, <2>5 DEF Pending
    <3> QED
      BY <2>5, <3>1, InvFacts, SameCompose, MovesCompose DEF Pending
  <2> QED
    BY <1>6, <2>1, <2>2, <2>3, <2>4, <2>5 DEF TaskState, Timed, Pending, Suspended
<1>8. loop' \in Loop /\ LoopOK'
  BY <1>1, NoLoopOK DEF LoopOK
<1>9. pc' \in [Task -> Place] /\ (pc' = pc \/ Ahead) /\ (s # "DELETED" => Ahead)
  BY <1>1, InvFacts, ReschedOK
<1>10. t = active => raw_sched_lock = 0
  BY <1>1 DEF MayStop
<1>11. s = "RDY" => s # "DELETED"
  OBVIOUS
<1>12. StartsNoWait(t) /\ Informed(t)
  BY <1>1, <1>7 DEF StartsNoWait, Informed, Pending, Timed, Away, Forgets
<1> QED
  BY <1>1, <1>7, <1>8, <1>9, <1>10, <1>11, <1>12, InvFacts, OneTaskStep

-----------------------------------------------------------------------------
(* raw_system.c, raw_tick.c: the tick interrupt.                            *)

\* Where only raw_tick_count changes.
LEMMA ClockStep ==
  ASSUME TaskInv, NEW n \in Ticks, k' = [k EXCEPT !.raw_tick_count = n],
         UNCHANGED <<sys, pc, call>>, loop' \in Loop, LoopOK'
  PROVE  Preserved /\ SameHeld(k, k') /\ Calm /\ Told /\ StaysSuspended
<1>1. /\ k' \in KernelState /\ SameQueue(k, k')
      /\ k'.block_list = k.block_list /\ k'.tick_head = k.tick_head
      /\ k'.task_state = k.task_state /\ k'.priority = k.priority
      /\ k'.block_obj = k.block_obj /\ k'.block_status = k.block_status
      /\ k'.fault = k.fault /\ SameHeld(k, k') /\ k'.live = k.live
      /\ k'.raw_task_active = k.raw_task_active
  BY InvFacts DEF KernelState, SameQueue, SameHeld
<1>2. Consistent(k') /\ active' = active
  BY <1>1, InvFacts, OtherFields DEF Consistent, IdleOK, SameHeld, active
<1>3. TaskTypeOK' /\ StoppedTaskLeaves'
  BY <1>1, <1>2 DEF TaskTypeOK, TaskInv, sys, StoppedTaskLeaves
<1>4. Preserved
  BY <1>1, <1>2, <1>3 DEF TaskInv, sys, Preserved
<1> QED
  BY <1>1, <1>4, InvFacts
  DEF SameHeld, Calm, StartsNoWait, Told, OneTask, Informed, Away, StaysSuspended, Forgets

LEMMA raw_time_tickInv ==
  ASSUME TaskInv, raw_time_tick
  PROVE  Preserved /\ SameHeld(k, k') /\ Calm /\ Told /\ StaysSuspended
<1> DEFINE n == (k.raw_tick_count + 1) % TickMod
<1>1. /\ raw_int_nesting > 0 /\ UNCHANGED <<sys, pc, call>>
      /\ k' = [k EXCEPT !.raw_tick_count = n]
      /\ loop' = [NoLoop EXCEPT !.op = "tick"]
  BY InvFacts DEF raw_time_tick, IsrRuns, KernelState
<1>2. n \in Ticks
  <2>1. k.raw_tick_count \in Ticks
    BY InvFacts DEF KernelState
  <2> QED
    BY <2>1, KernelAssumption DEF Ticks
<1> HIDE DEF n
<1>3. loop' \in Loop /\ LoopOK'
  BY <1>1 DEF NoLoop, Loop, LoopOK, sys
<1> QED
  BY <1>1, <1>2, <1>3, ClockStep

LEMMA raw_system_time_setInv ==
  ASSUME TaskInv, NEW time \in Ticks, raw_system_time_set(time)
  PROVE  Preserved /\ SameHeld(k, k') /\ Calm /\ Told /\ StaysSuspended
<1>1. /\ loop = NoLoop /\ loop' = loop /\ UNCHANGED <<sys, pc, call>>
      /\ k' = [k EXCEPT !.raw_tick_count = time]
      /\ loop' \in Loop /\ LoopOK'
  BY StepLoop DEF raw_system_time_set, TaskRuns, TaskAt
<1> QED
  BY <1>1, ClockStep

\* The head of the tick list is a task that waits with a timeout.
LEMMA FirstTimed ==
  ASSUME TaskInv, Due
  PROVE  /\ Head(k.tick_head) \in Task
         /\ k.task_state[Head(k.tick_head)] \in Timed
<1>1. k.tick_head \in Seq(Task) /\ k.tick_head # <<>>
  BY InvFacts DEF Due, KernelState
<1>2. Head(k.tick_head) \in Task /\ In(Head(k.tick_head), k.tick_head)
  BY <1>1, LinkedNonEmpty
<1> QED
  BY <1>2, InvFacts DEF Consistent, LinkedAs

LEMMA tick_list_updateInv ==
  ASSUME TaskInv, tick_list_update
  PROVE  Preserved /\ SameHeld(k, k') /\ Calm /\ Told /\ TicksKept(k, k') /\ StaysSuspended
<1> DEFINE t == Head(k.tick_head)
<1>1. /\ UNCHANGED sys /\ pc' = pc /\ call' = call /\ loop' = loop
      /\ k' = tick_expire(k, t) /\ Due
  BY DEF tick_list_update
<1>2. /\ t \in Task /\ k.task_state[t] \in Timed /\ k.task_state[t] # "RDY"
  BY <1>1, FirstTimed DEF Timed
<1> HIDE DEF t
<1>3. /\ Moves(k, k', t) /\ k'.task_state[t] \in Awake
      /\ k.task_state[t] \in Suspended => k'.task_state[t] = "SUSPENDED"
      /\ k'.block_status[t] = IF k.task_state[t] \in Pending THEN "TIMEOUT" ELSE "OK"
      /\ Forgets(k, k', t)
  BY <1>1, <1>2, InvFacts, tick_expireMoves
<1>4. loop' \in Loop /\ LoopOK'
  BY <1>1, <1>3, InvFacts DEF TaskInv, LoopOK, MayStop, sys, active, Moves, OneMoves
<1>5. /\ StartsNoWait(t) /\ (k.task_state[t] \in Suspended => k'.task_state[t] \in Suspended)
      /\ Informed(t)
  BY <1>2, <1>3 DEF StartsNoWait, Informed, Outcome, Awake, Pending, Timed, Away, Suspended
<1> QED
  BY <1>1, <1>2, <1>3, <1>4, <1>5, InvFacts, OneTaskStep

LEMMA tick_list_doneInv ==
  ASSUME TaskInv, tick_list_done
  PROVE  Preserved /\ SameHeld(k, k') /\ Calm /\ Told /\ TicksKept(k, k') /\ StaysSuspended
<1>1. /\ UNCHANGED <<k, raw_os_active, raw_sched_lock, raw_int_nesting, pc, call>>
      /\ loop' = NoLoop /\ slice_due' = slice_due \cup {raw_int_nesting}
  BY DEF tick_list_done
<1>2. slice_due' \subseteq 0 .. MaxNest
  BY <1>1, TaskAssumption DEF TaskInv, TaskTypeOK
<1>3. loop' \in Loop /\ LoopOK'
  BY <1>1, NoLoopOK DEF LoopOK
<1> QED
  BY <1>1, <1>2, <1>3, TicksCompose, InvFacts
  DEF TaskInv, TaskTypeOK, StoppedTaskLeaves, active, Preserved, Calm,
      SameHeld, StartsNoWait, StaysSuspended, Told, OneTask, Informed, Away, Forgets

LEMMA time_slice_stepInv ==
  ASSUME TaskInv, time_slice_step
  PROVE  Preserved /\ SameHeld(k, k') /\ Calm /\ Told /\ TicksKept(k, k') /\ StaysSuspended
<1>1. /\ loop = NoLoop /\ loop' = loop
      /\ UNCHANGED <<raw_os_active, raw_sched_lock, raw_int_nesting, pc, call>>
      /\ k' = calculate_time_slice(k, k.priority[active])
      /\ slice_due' = slice_due \ {raw_int_nesting}
      /\ loop' \in Loop /\ LoopOK'
  BY StepLoop DEF time_slice_step
<1>2. k.priority[active] \in Prio
  BY InvFacts DEF KernelState
<1>3. SameStates(k, k')
  BY <1>1, <1>2, InvFacts, calculate_time_sliceKeeps
<1>4. Consistent(k') /\ k' \in KernelState /\ k'.task_state = k.task_state /\ active' = active
  BY <1>3 DEF SameStates, StatesKept, Consistent, active
<1>5. TaskTypeOK' /\ StoppedTaskLeaves'
  BY <1>1, <1>4 DEF TaskInv, TaskTypeOK, StoppedTaskLeaves
<1> QED
  BY <1>1, <1>3, <1>4, <1>5, InvFacts
  DEF TaskInv, Preserved, SameStates, StatesKept, Calm, StartsNoWait, Told, OneTask, Informed, Away,
      Forgets, StaysSuspended

-----------------------------------------------------------------------------
(* The invariant of the kernel.                                             *)

\* The steps that choose a task or end a call change no state of a task.
LEMMA ChoiceCalm ==
  ASSUME TaskInv,
         raw_os_start \/ raw_sched \/ block_state_post_process \/ raw_enter_interrupt
           \/ raw_finish_int \/ raw_disable_sche \/ raw_enable_sche
  PROVE  /\ Calm /\ StaysSuspended /\ TicksKept(k, k')
         /\ block_state_post_process \/ Told
<1>1. k' \in {k, get_ready_task(k), [k EXCEPT !.block_status[active] = "STALE"]}
  BY DEF raw_os_start, raw_sched, block_state_post_process, raw_enter_interrupt,
         raw_finish_int, raw_disable_sche, raw_enable_sche
<1>2. /\ k'.task_state = k.task_state /\ k'.block_obj = k.block_obj /\ k'.live = k.live
      /\ SameTicks(k, k')
  BY <1>1, InvFacts DEF get_ready_task, KernelState, SameTicks
<1>3. ~ block_state_post_process => k'.block_status = k.block_status
  BY InvFacts DEF get_ready_task, KernelState,
         raw_os_start, raw_sched, raw_enter_interrupt, raw_finish_int, raw_disable_sche,
         raw_enable_sche
<1> QED
  BY <1>2, <1>3, TicksCompose, InvFacts
  DEF Calm, StartsNoWait, StaysSuspended, Told, OneTask, Informed, Away, Forgets

LEMMA KernelNextInv ==
  ASSUME TaskInv, KernelNext
  PROVE  \/ Preserved /\ Calm /\ Told /\ (TicksKept(k, k') \/ NewTime # {})
         \/ /\ TaskInv' /\ Calm /\ TicksKept(k, k') /\ (block_state_post_process \/ Told)
            /\ raw_os_start \/ raw_sched \/ block_state_post_process \/ raw_enter_interrupt
               \/ raw_finish_int \/ raw_disable_sche \/ raw_enable_sche
<1>1. ASSUME NEW t \in Suspendable,
             raw_task_suspend(t) \/ raw_task_suspend_again(t) \/ raw_task_resume(t)
      PROVE  Preserved /\ Calm /\ Told /\ TicksKept(k, k')
  BY <1>1, TaskAssumption, raw_task_suspendInv, raw_task_suspend_againInv, raw_task_resumeInv
<1>2. ASSUME NEW tp \in NewPrio, raw_task_priority_change(tp[1], tp[2])
      PROVE  Preserved /\ Calm /\ Told /\ TicksKept(k, k')
  BY <1>2, TaskAssumption, raw_task_priority_changeInv
<1>3. ASSUME NEW ts \in NewSlice, raw_task_time_slice_change(ts[1], ts[2])
      PROVE  Preserved /\ Calm /\ Told /\ TicksKept(k, k')
  BY <1>3, TaskAssumption, raw_task_time_slice_changeInv
<1>4. ASSUME tick_list_update \/ time_slice_step \/ FreeMutex \/ FinishDelete
      PROVE  Preserved /\ Calm /\ Told /\ TicksKept(k, k')
  BY <1>4, tick_list_updateInv, time_slice_stepInv, FreeMutexInv, FinishDeleteInv
<1>11. ASSUME raw_os_start \/ raw_sched \/ block_state_post_process
              \/ raw_enter_interrupt \/ raw_finish_int
              \/ raw_disable_sche \/ raw_enable_sche
       PROVE  /\ TaskInv' /\ Calm /\ TicksKept(k, k')
              /\ block_state_post_process \/ Told
  BY <1>11, raw_os_startInv, raw_schedInv, block_state_post_processInv, InterruptInv,
     SchedLockInv, ChoiceCalm
<1>5. ASSUME NEW t \in Task, raw_task_create(t) PROVE Preserved /\ Calm /\ Told /\ TicksKept(k, k')
  BY <1>5, raw_task_createInv
<1>6. ASSUME NEW dly \in Delays, raw_sleep(dly) PROVE Preserved /\ Calm /\ Told /\ TicksKept(k, k')
  BY <1>6, raw_sleepInv
<1>7. ASSUME NEW t \in Deletable, raw_task_delete(t) PROVE Preserved /\ Calm /\ Told /\ TicksKept(k, k')
  BY <1>7, TaskAssumption, raw_task_deleteInv
<1>8. ASSUME NEW t \in Abortable, raw_task_wait_abort(t) PROVE Preserved /\ Calm /\ Told /\ TicksKept(k, k')
  BY <1>8, TaskAssumption, raw_task_wait_abortInv
<1>9. ASSUME NEW t \in NewSchedWay, raw_set_sched_way(t) PROVE Preserved /\ Calm /\ Told /\ TicksKept(k, k')
  BY <1>9, TaskAssumption, raw_set_sched_wayInv
<1>10. ASSUME NEW time \in NewTime, raw_system_time_set(time) PROVE Preserved /\ Calm /\ Told
  BY <1>10, TaskAssumption, raw_system_time_setInv
<1> QED
  BY <1>1, <1>2, <1>3, <1>4, <1>5, <1>6, <1>7, <1>8, <1>9, <1>10, <1>11 DEF KernelNext

LEMMA TaskNextInv == TaskInv /\ [TaskNext]_taskVars => TaskInv'
<1>1. ASSUME TaskInv, KernelNext PROVE TaskInv'
  BY <1>1, KernelNextInv DEF Preserved
<1>2. ASSUME TaskInv, raw_time_tick PROVE TaskInv'
  BY <1>2, raw_time_tickInv DEF Preserved
<1>3. ASSUME TaskInv, tick_list_done PROVE TaskInv'
  BY <1>3, tick_list_doneInv DEF Preserved
<1>4. ASSUME TaskInv, UNCHANGED taskVars PROVE TaskInv'
  BY <1>4 DEF TaskInv, TaskTypeOK, StoppedTaskLeaves, LoopOK, MayStop, active, taskVars, sys
<1> QED
  BY <1>1, <1>2, <1>3, <1>4 DEF TaskNext

LEMMA TaskNextCalm == TaskInv /\ TaskNext => Calm
BY KernelNextInv, raw_time_tickInv, tick_list_doneInv DEF TaskNext

LEMMA TaskInitInv == TaskInit => TaskInv
<1>1. SUFFICES ASSUME TaskInit PROVE TaskInv
  OBVIOUS
<1>2. /\ k = InitKernel /\ raw_os_active = FALSE /\ raw_sched_lock = 0 /\ raw_int_nesting = 0
      /\ pc = [t \in Task |-> "run"] /\ call = [t \in Task |-> "none"]
      /\ slice_due = {} /\ loop = NoLoop
  BY <1>1 DEF TaskInit
<1>3. /\ k.task_ready_list = [p \in Prio |-> IF p = IdlePrio THEN <<Idle>> ELSE <<>>]
      /\ k.task_bit_map = {IdlePrio} /\ k.highest_priority = IdlePrio
      /\ k.task_state = [t \in Task |-> IF t = Idle THEN "RDY" ELSE "DELETED"]
      /\ k.priority = [t \in Task |-> IF t = Idle THEN IdlePrio ELSE InitPrio[t]]
      /\ k.block_list = [o \in Obj |-> <<>>] /\ k.tick_head = <<>>
      /\ k.mtxtsk = [m \in Mutex |-> NoTask] /\ k.fault = FALSE
      /\ k.raw_task_active = Idle
  BY <1>2 DEF InitKernel
<1>4. <<Idle>> \in Seq(Task) /\ \A t \in Task : In(t, <<Idle>>) <=> t = Idle
  BY KernelAssumption DEF In
<1>5. /\ <<>> \in Seq(Task) /\ \A t \in Task : ~ In(t, <<>>)
      /\ NoDup(<<>>) /\ NoDup(<<Idle>>) /\ <<Idle>> # <<>>
  BY DEF In, NoDup
<1>6. k \in KernelState
  <2>1. /\ {"RDY", "DELETED"} \subseteq TaskState /\ "STALE" \in BlockState
        /\ InitPrio \in [Task -> Prio] /\ 0 \in Ticks
        /\ InitSlice \in [Task -> 1 .. TimeTotal] /\ InitSlice \in [Task -> 0 .. TimeTotal]
    BY KernelAssumption, TaskAssumption DEF TaskState, BlockState, Prio, Ticks
  <2> QED
    BY <1>2, <1>4, <1>5, <2>1, PrioFacts, KernelAssumption DEF InitKernel, KernelState
<1>7. IndexOK(k) /\ Once(k) /\ BlockSorted(k) /\ IdleOK(k)
  BY <1>3, <1>4, <1>5, PrioFacts, KernelAssumption
  DEF IndexOK, Once, ReadyOnce, BlockOnce, BlockSorted, Sorted, IdleOK
<1>8. \A t \in Task : LinkedAs(k, t)
  BY <1>3, <1>4, <1>5, PrioFacts DEF LinkedAs, Pending, Timed
<1>9. TaskTypeOK
  <2>1. pc \in [Task -> Place] /\ call \in [Task -> Call]
    BY <1>2 DEF Place, Call
  <2>2. 0 \in 0 .. MaxLock /\ 0 \in 0 .. MaxNest
    BY TaskAssumption
  <2> QED
    BY <1>2, <1>6, <2>1, <2>2, NoLoopOK DEF TaskTypeOK
<1>10. active = Idle /\ k.task_state[active] = "RDY"
  BY <1>3, KernelAssumption DEF active
<1>11. LoopOK
  BY <1>2, NoLoopOK DEF LoopOK
<1> QED
  BY <1>2, <1>3, <1>6, <1>7, <1>8, <1>9, <1>10, <1>11
  DEF TaskInv, Consistent, StoppedTaskLeaves

\* Whatever the tasks call, and wherever an interrupt comes in, the kernel is in
\* a consistent state between two critical sections.
THEOREM TaskInvariant == TaskSpec => []TaskInv
BY TaskInitInv, TaskNextInv, PTL DEF TaskSpec

\* The fields of the kernel and of the task blocks stay in their types.
THEOREM TypesCorrect == TaskSpec => []TaskTypeOK
<1>1. TaskInv => TaskTypeOK
  BY DEF TaskInv
<1> QED
  BY <1>1, TaskInvariant, PTL

\* The lists hold the blocks that task_state and block_obj say, once each.
THEOREM ListsCorrect == TaskSpec => []ListsOK
<1>1. TaskInv => ListsOK
  BY DEF TaskInv, Consistent, ListsOK
<1> QED
  BY <1>1, TaskInvariant, PTL

\* get_ready_task finds a task, and none is more urgent.
THEOREM HighestCorrect == TaskSpec => []HighestOK
<1>1. TaskInv => HighestOK
  BY DEF TaskInv, Consistent, HighestOK
<1> QED
  BY <1>1, TaskInvariant, PTL

\* Without mutexes port_system_error_process is never called: the switches on
\* task_state are exhaustive and the ready queue never runs empty.
THEOREM NeverFaults ==
  ASSUME Mutex = {}
  PROVE  TaskSpec => []NoFault
<1>1. TaskInv => NoFault
  BY DEF TaskInv, Consistent, NoFault
<1> QED
  BY <1>1, TaskInvariant, PTL

\* A call without a loop is one critical section: only the release of the
\* mutexes of a deleted task and the tick handler take several.
LEMMA OneSection ==
  ASSUME raw_sched \/ block_state_post_process \/ raw_enter_interrupt \/ raw_finish_int
           \/ raw_disable_sche \/ raw_enable_sche \/ time_slice_step
           \/ (\E dly \in Delays : raw_sleep(dly))
           \/ (\E t \in Task : raw_task_create(t))
           \/ (\E t \in Suspendable :
                 raw_task_suspend(t) \/ raw_task_suspend_again(t) \/ raw_task_resume(t))
           \/ (\E t \in Abortable : raw_task_wait_abort(t))
           \/ (\E tp \in NewPrio : raw_task_priority_change(tp[1], tp[2]))
           \/ (\E ts \in NewSlice : raw_task_time_slice_change(ts[1], ts[2]))
           \/ (\E t \in NewSchedWay : raw_set_sched_way(t))
           \/ (\E time \in NewTime : raw_system_time_set(time))
  PROVE  loop = NoLoop /\ loop' = NoLoop
<1>1. CASE raw_sched \/ block_state_post_process \/ raw_enter_interrupt \/ raw_finish_int
             \/ raw_disable_sche \/ raw_enable_sche \/ time_slice_step
  BY <1>1 DEF raw_sched, block_state_post_process, raw_enter_interrupt, raw_finish_int,
              raw_disable_sche, raw_enable_sche, time_slice_step, TaskRuns, TaskAt, IsrRuns
<1>2. ASSUME NEW dly \in Delays, raw_sleep(dly)
      PROVE  loop = NoLoop /\ loop' = NoLoop
  <2>1. TaskRuns /\ loop' = loop
    BY <1>2 DEF raw_sleep
  <2> QED
    BY <2>1 DEF TaskRuns, TaskAt
<1>3. ASSUME NEW t \in Task, raw_task_create(t)
      PROVE  loop = NoLoop /\ loop' = NoLoop
  <2>1. (Boot \/ TaskRuns) /\ loop' = loop
    BY <1>3 DEF raw_task_create
  <2> QED
    BY <2>1 DEF Boot, TaskRuns, TaskAt
<1>4. ASSUME NEW t \in Suspendable,
             raw_task_suspend(t) \/ raw_task_suspend_again(t) \/ raw_task_resume(t)
      PROVE  loop = NoLoop /\ loop' = NoLoop
  <2>1. Caller /\ UNCHANGED <<sys, call, loop>>
    BY <1>4 DEF raw_task_suspend, raw_task_suspend_again, raw_task_resume
  <2> QED
    BY <2>1 DEF Caller, TaskRuns, TaskAt, IsrRuns
<1>5. CASE \E t \in Abortable : raw_task_wait_abort(t)
  BY <1>5 DEF raw_task_wait_abort, TaskRuns, TaskAt
<1>6. CASE \/ \E tp \in NewPrio : raw_task_priority_change(tp[1], tp[2])
           \/ \E ts \in NewSlice : raw_task_time_slice_change(ts[1], ts[2])
  BY <1>6 DEF raw_task_priority_change, raw_task_time_slice_change, TaskRuns, TaskAt
<1>7. CASE \/ \E t \in NewSchedWay : raw_set_sched_way(t)
           \/ \E time \in NewTime : raw_system_time_set(time)
  BY <1>7 DEF raw_set_sched_way, raw_system_time_set, TaskRuns, TaskAt
<1> QED
  BY <1>1, <1>2, <1>3, <1>4, <1>5, <1>6, <1>7

\* The steps of which SuspensionHolds speaks: those of a critical section with a loop.
LEMMA LoopSteps ==
  ASSUME TaskNext, loop # NoLoop \/ loop' # NoLoop
  PROVE  \/ raw_os_start \/ FreeMutex \/ FinishDelete \/ tick_list_update \/ raw_time_tick
         \/ tick_list_done
         \/ \E t \in Deletable : raw_task_delete(t)
BY OneSection DEF TaskNext, KernelNext

\* What SuspensionHolds says of one step.
OnlyResumed ==
  \A t \in Task :
    k.task_state[t] \in Suspended
      => \/ k'.task_state[t] \in Suspended \cup {"DELETED"}
         \/ raw_task_resume(t) \/ raw_task_wait_abort(t)

LEMMA TaskNextSuspension ==
  ASSUME TaskInv, TaskNext
  PROVE  OnlyResumed
<1>1. CASE \/ raw_os_start \/ raw_sched \/ block_state_post_process \/ raw_enter_interrupt
           \/ raw_finish_int \/ raw_disable_sche \/ raw_enable_sche
  BY <1>1, ChoiceCalm DEF StaysSuspended, OnlyResumed
<1>2. CASE \/ FreeMutex \/ FinishDelete \/ tick_list_update \/ raw_time_tick
           \/ tick_list_done \/ time_slice_step
  BY <1>2, FreeMutexInv, FinishDeleteInv, tick_list_updateInv, raw_time_tickInv,
     tick_list_doneInv, time_slice_stepInv DEF StaysSuspended, OnlyResumed
<1>3. CASE \/ \E dly \in Delays : raw_sleep(dly)
           \/ \E t \in Task : raw_task_create(t)
           \/ \E t \in Suspendable : raw_task_suspend(t) \/ raw_task_suspend_again(t)
           \/ \E t \in Deletable : raw_task_delete(t)
  BY <1>3, TaskAssumption, raw_sleepInv, raw_task_createInv, raw_task_suspendInv,
     raw_task_suspend_againInv, raw_task_deleteInv DEF StaysSuspended, OnlyResumed
<1>4. ASSUME NEW t \in Task, raw_task_resume(t) \/ raw_task_wait_abort(t)
      PROVE  OnlyResumed
  <2>1. \A u \in Task \ {t} : k'.task_state[u] = k.task_state[u]
    BY <1>4, raw_task_resumeInv, raw_task_wait_abortInv
  <2> QED
    BY <1>4, <2>1 DEF OnlyResumed
<1>5. ASSUME NEW tp \in NewPrio, raw_task_priority_change(tp[1], tp[2])
      PROVE  OnlyResumed
  BY <1>5, TaskAssumption, raw_task_priority_changeInv DEF StaysSuspended, OnlyResumed
<1>6. ASSUME NEW ts \in NewSlice, raw_task_time_slice_change(ts[1], ts[2])
      PROVE  OnlyResumed
  BY <1>6, TaskAssumption, raw_task_time_slice_changeInv DEF StaysSuspended, OnlyResumed
<1>7. CASE \/ \E t \in NewSchedWay : raw_set_sched_way(t)
           \/ \E time \in NewTime : raw_system_time_set(time)
  BY <1>7, TaskAssumption, raw_set_sched_wayInv, raw_system_time_setInv
  DEF StaysSuspended, OnlyResumed
<1> QED
  BY <1>1, <1>2, <1>3, <1>4, <1>5, <1>6, <1>7, TaskAssumption DEF TaskNext, KernelNext

\* Without objects: the timeout of a sleeping task, or whatever becomes of another
\* task, leaves a suspended task suspended.  The modules of the objects add the
\* ends of their waits.
LEMMA TasksStaySuspended == TaskSpec => SuspensionHolds
<1>1. ASSUME TaskInv, [TaskNext]_taskVars PROVE [OnlyResumed]_taskVars
  BY <1>1, TaskNextSuspension
<1> QED
  BY <1>1, TaskInvariant, PTL DEF TaskSpec, SuspensionHolds, OnlyResumed

\* The processor stays with the task that locked the scheduler, and that task
\* stays ready.
THEOREM LockCorrect == TaskSpec => LockHolds
<1> DEFINE Held == raw_sched_lock > 0 =>
                     /\ k'.raw_task_active = k.raw_task_active
                     /\ k'.task_state[active] = "RDY"
<1>1. ASSUME TaskInv, TaskInv', [TaskNext]_taskVars PROVE [Held]_taskVars
  <2>1. SUFFICES ASSUME TaskNext, raw_sched_lock > 0
                 PROVE  /\ k'.raw_task_active = k.raw_task_active
                        /\ k'.task_state[active] = "RDY"
    BY <1>1
  <2>2. raw_os_active /\ k.task_state[active] = "RDY"
    BY <1>1, <2>1, InvFacts DEF TaskInv, StoppedTaskLeaves
  <2>3. CASE Preserved
    BY <1>1, <2>1, <2>3, InvFacts DEF Preserved, TaskInv, StoppedTaskLeaves, active
  <2>4. CASE raw_os_start
    BY <2>2, <2>4 DEF raw_os_start
  <2>5. CASE raw_sched \/ raw_finish_int
    BY <2>1, <2>2, <2>5 DEF raw_sched, raw_finish_int
  <2>6. CASE block_state_post_process
    BY <2>2, <2>6, InvFacts, <1>1 DEF block_state_post_process, KernelState
  <2>7. CASE raw_enter_interrupt \/ raw_disable_sche \/ raw_enable_sche
    BY <2>2, <2>7 DEF raw_enter_interrupt, raw_disable_sche, raw_enable_sche
  <2> QED
    BY <1>1, <2>1, <2>3, <2>4, <2>5, <2>6, <2>7, KernelNextInv, raw_time_tickInv, tick_list_doneInv
    DEF TaskNext
<1> QED
  BY <1>1, TaskInvariant, PTL DEF TaskSpec, LockHolds

-----------------------------------------------------------------------------
(* The tick list.  Without raw_system_time_set every task on it has at     *)
(* least one tick to wait, and none while tick_list_update still runs.     *)

TickInv == TicksOK(k, IF loop.op = "tick" THEN 0 ELSE 1)

\* One tick less, from a state in which there is one to wait.
LEMMA OneTickLess ==
  ASSUME NEW m \in Ticks, NEW c \in Ticks, (m - c) % TickMod >= 1
  PROVE  (m - ((c + 1) % TickMod)) % TickMod = ((m - c) % TickMod) - 1
<1>1. TickMod \in Nat \ {0} /\ m \in 0 .. TickMod - 1 /\ c \in 0 .. TickMod - 1
  BY KernelAssumption DEF Ticks
<1> DEFINE d == m - c
           c1 == c + 1
<1>2. /\ d \in Int /\ c1 \in Int
      /\ d \in 0 .. TickMod - 1 \/ d \in -TickMod .. -1
      /\ c1 \in 0 .. TickMod - 1 \/ c1 = TickMod
  BY <1>1
<1>3. /\ d \in 0 .. TickMod - 1 => d % TickMod = d
      /\ d \in -TickMod .. -1 => d % TickMod = d + TickMod
  BY <1>1, <1>2, ModFacts
<1>4. /\ c1 \in 0 .. TickMod - 1 => c1 % TickMod = c1
      /\ c1 = TickMod => c1 % TickMod = 0
  <2>1. c1 = TickMod => c1 \in TickMod .. 2 * TickMod - 1 /\ c1 - TickMod = 0
    BY <1>1
  <2> QED
    BY <1>1, <1>2, <2>1, ModFacts
<1> DEFINE e == m - (c1 % TickMod)
<1>5. e \in Int /\ (c1 = TickMod => e = m /\ d + TickMod = m + 1 /\ d \in -TickMod .. -1)
  BY <1>1, <1>2, <1>4
<1>6. c1 \in 0 .. TickMod - 1 => e = d - 1
  BY <1>1, <1>2, <1>4
<1>7. d % TickMod >= 1
  OBVIOUS
<1> HIDE DEF d, e
<1>8. /\ e \in 0 .. TickMod - 1 => e % TickMod = e
      /\ e \in -TickMod .. -1 => e % TickMod = e + TickMod
  BY <1>1, <1>5, ModFacts
<1>9. e % TickMod = (d % TickMod) - 1
  <2>1. CASE c1 = TickMod
    BY <1>1, <1>2, <1>3, <1>5, <1>8, <2>1
  <2>2. CASE c1 \in 0 .. TickMod - 1
    BY <1>1, <1>2, <1>3, <1>6, <1>7, <1>8, <2>2
  <2> QED
    BY <1>2, <2>1, <2>2
<1> QED
  BY <1>9 DEF d, e

\* raw_time_tick: every linked task has one tick less to wait.
LEMMA TickCounted ==
  ASSUME TaskInv, TickInv, raw_time_tick
  PROVE  TickInv'
<1>1. TicksOK(k, 1) /\ loop'.op = "tick"
  BY NoLoopOK DEF TickInv, raw_time_tick, IsrRuns, NoLoop
<1>2. /\ k' = [k EXCEPT !.raw_tick_count = (k.raw_tick_count + 1) % TickMod]
      /\ k \in KernelState
  BY InvFacts DEF raw_time_tick
<1>3. /\ k'.tick_head = k.tick_head /\ k'.tick_match = k.tick_match
      /\ k'.raw_tick_count = (k.raw_tick_count + 1) % TickMod
  BY <1>2 DEF KernelState
<1>4. ASSUME NEW u \in Task, In(u, k.tick_head)
      PROVE  tick_remain(k', u) = tick_remain(k, u) - 1 /\ tick_remain(k, u) \in Int
                /\ tick_remain(k, u) >= 1
  <2>1. tick_remain(k, u) >= 1 /\ tick_remain(k, u) \in Int
    BY <1>1, <1>2, <1>4, TickFacts DEF TicksOK
  <2>2. k.tick_match[u] \in Ticks /\ k.raw_tick_count \in Ticks
    BY <1>2 DEF KernelState
  <2> QED
    BY <1>3, <2>1, <2>2, OneTickLess DEF tick_remain
<1>5. k.tick_head \in Seq(Task)
  BY <1>2 DEF KernelState
<1>6. Sorted(k'.tick_head, tick_remains(k'))
  <2>1. SUFFICES ASSUME NEW i \in DOMAIN k.tick_head, NEW j \in DOMAIN k.tick_head, i < j
                 PROVE  tick_remain(k', k.tick_head[i]) <= tick_remain(k', k.tick_head[j])
    BY <1>3, <1>5 DEF Sorted, tick_remains
  <2>2. /\ k.tick_head[i] \in Task /\ In(k.tick_head[i], k.tick_head)
        /\ k.tick_head[j] \in Task /\ In(k.tick_head[j], k.tick_head)
    BY <1>5 DEF In
  <2>3. tick_remain(k, k.tick_head[i]) <= tick_remain(k, k.tick_head[j])
    BY <1>1, <2>1, <2>2 DEF TicksOK, Sorted, tick_remains
  <2> HIDE DEF tick_remain
  <2> QED
    BY <1>4, <2>2, <2>3
<1>7. \A u \in Task : In(u, k'.tick_head) => tick_remain(k', u) >= 0
  <2>1. SUFFICES ASSUME NEW u \in Task, In(u, k.tick_head) PROVE tick_remain(k', u) >= 0
    BY <1>3
  <2> QED
    BY <1>4, <2>1
<1> QED
  BY <1>1, <1>6, <1>7 DEF TickInv, TicksOK

\* tick_list_update ends at the first task that is not due: none behind it is.
LEMMA TickListDone ==
  ASSUME TaskInv, TickInv, tick_list_done
  PROVE  TickInv'
<1>1. /\ TicksOK(k, 0) /\ ~ Due /\ k' = k /\ loop'.op = "none" /\ k \in KernelState
  BY NoLoopOK, InvFacts DEF TickInv, tick_list_done
<1>2. ASSUME NEW u \in Task, In(u, k.tick_head)
      PROVE  tick_remain(k, u) >= 1
  <2> DEFINE h == Head(k.tick_head)
  <2>1. k.tick_head \in Seq(Task) /\ k.tick_head # <<>>
    BY <1>1, <1>2 DEF KernelState, In
  <2>2. /\ h \in Task /\ h = k.tick_head[1] /\ 1 \in DOMAIN k.tick_head
        /\ \A i \in DOMAIN k.tick_head : i \in Int /\ (i = 1 \/ 1 < i)
    BY <2>1
  <2>3. k.tick_match[h] # k.raw_tick_count
    BY <1>1, <2>1 DEF Due
  <2>4. tick_remain(k, h) >= 1
    <3> DEFINE m == k.tick_match[h]
               c == k.raw_tick_count
               d == m - c
    <3>a. k.tick_match \in [Task -> Ticks] /\ k.raw_tick_count \in Ticks
      BY <1>1 DEF KernelState
    <3>b. m \in Ticks /\ c \in Ticks
      BY <2>2, <3>a
    <3>1. TickMod \in Nat \ {0} /\ m \in 0 .. TickMod - 1 /\ c \in 0 .. TickMod - 1
      BY <3>b, KernelAssumption DEF Ticks
    <3>2. d \in Int /\ (d \in 1 .. TickMod - 1 \/ d \in -TickMod + 1 .. -1)
      BY <2>3, <3>1
    <3> HIDE DEF d
    <3>3. /\ d \in 0 .. TickMod - 1 => d % TickMod = d
          /\ d \in -TickMod .. -1 => d % TickMod = d + TickMod
      BY <3>1, <3>2, ModFacts
    <3>4. d % TickMod >= 1
      BY <3>1, <3>2, <3>3
    <3> QED
      BY <3>4 DEF d, tick_remain
  <2>5. PICK i \in DOMAIN k.tick_head : k.tick_head[i] = u
    BY <1>2 DEF In
  <2>6. u = h \/ tick_remain(k, h) <= tick_remain(k, u)
    BY <1>1, <2>2, <2>5 DEF TicksOK, Sorted, tick_remains
  <2>7. tick_remain(k, u) \in Int /\ tick_remain(k, h) \in Int
    BY <1>1, <2>2, TickFacts
  <2> HIDE DEF h
  <2> QED
    BY <2>4, <2>6, <2>7
<1> QED
  BY <1>1, <1>2 DEF TickInv, TicksOK

\* Only these two steps enter or leave the loop of tick_list_update.
LEMMA TickLoop ==
  ASSUME TaskNext, TaskInv
  PROVE  raw_time_tick \/ tick_list_done \/ (loop'.op = "tick" <=> loop.op = "tick")
<1>1. loop \in Loop
  BY InvFacts
<1>2. CASE loop = NoLoop /\ loop' = NoLoop
  BY <1>2
<1>3. CASE raw_os_start \/ tick_list_update
  BY <1>3 DEF raw_os_start, tick_list_update
<1>4. CASE FreeMutex \/ FinishDelete
  BY <1>1, <1>4 DEF FreeMutex, FinishDelete, Loop, NoLoop
<1>5. ASSUME NEW t \in Deletable, raw_task_delete(t)
      PROVE  loop.op # "tick" /\ loop'.op # "tick"
  BY <1>5 DEF raw_task_delete, NoLoop, TaskRuns, TaskAt
<1> QED
  BY <1>2, <1>3, <1>4, <1>5, LoopSteps

LEMMA InTimeNext ==
  ASSUME NewTime = {}
  PROVE  TaskInv /\ TickInv /\ [TaskNext]_taskVars => TickInv'
<1> SUFFICES ASSUME TaskInv, TickInv, [TaskNext]_taskVars PROVE TickInv'
  OBVIOUS
<1>1. CASE UNCHANGED taskVars
  BY <1>1 DEF taskVars, TickInv
<1>2. CASE raw_time_tick \/ tick_list_done
  BY <1>2, TickCounted, TickListDone
<1>3. CASE KernelNext /\ ~ raw_time_tick /\ ~ tick_list_done
  <2>1. TicksKept(k, k')
    BY <1>3, KernelNextInv
  <2>2. loop'.op = "tick" <=> loop.op = "tick"
    BY <1>3, TickLoop DEF TaskNext
  <2> QED
    BY <2>1, <2>2 DEF TickInv, TicksKept
<1> QED
  BY <1>1, <1>2, <1>3 DEF TaskNext

\* No deadline is missed: whatever is put on the tick list, taken off it or
\* expires, and however often raw_tick_count wraps, tick_list_update stops at a
\* task behind which nobody is due.  raw_system_time_set may break this.
THEOREM NoTickMissed ==
  ASSUME NewTime = {}
  PROVE  TaskSpec => []NoMissedTick
<1>1. TaskInit => TickInv
  <2> SUFFICES ASSUME TaskInit PROVE TickInv
    OBVIOUS
  <2>1. k.tick_head = <<>>
    BY DEF TaskInit, InitKernel
  <2> QED
    BY <2>1 DEF TickInv, TicksOK, Sorted, In
<1>2. TaskInv /\ TickInv => NoMissedTick
  <2> SUFFICES ASSUME TaskInv, TickInv PROVE NoMissedTick
    OBVIOUS
  <2>1. \A u \in Task : tick_remain(k, u) \in Int
    BY InvFacts, TickFacts
  <2> QED
    BY <2>1 DEF TickInv, TicksOK, NoMissedTick
<1> QED
  BY <1>1, <1>2, InTimeNext, TaskInvariant, PTL DEF TaskSpec

-----------------------------------------------------------------------------
(* The outcome of a wait.                                                   *)

\* The places in a call that blocked.
Inside == {"blocking", "woken"}

\* A task inside such a call that is neither waiting nor deleted has been told.
FreshInv ==
  \A t \in Task : pc[t] \in Inside /\ k.task_state[t] \notin Away
                    => k.block_status[t] # "STALE"

\* Only a task that goes on the tick list or on a block list enters such a call.
LEMMA PlaceStep ==
  ASSUME TaskInv, TaskNext, NEW t \in Task, pc'[t] \in Inside
  PROVE  pc[t] \in Inside \/ k'.task_state[t] \in Away
<1>1. CASE Resched \/ pc' = pc
  BY <1>1, InvFacts DEF Resched, Inside
<1>2. CASE raw_sched \/ block_state_post_process
  BY <1>2, InvFacts DEF raw_sched, block_state_post_process, TaskAt, Inside
<1>3. ASSUME NEW dly \in Delays, raw_sleep(dly)
      PROVE  pc[t] \in Inside \/ k'.task_state[t] \in Away
  <2>1. CASE dly # 0 /\ t = active
    BY <1>3, <2>1, SleepState DEF Away, Timed
  <2>2. CASE dly # 0 /\ t # active
    BY <1>3, <2>2, InvFacts DEF raw_sleep, Block
  <2> QED
    BY <1>1, <1>3, <2>1, <2>2 DEF raw_sleep
<1>4. ASSUME NEW u \in Task, raw_task_create(u) PROVE pc[t] \in Inside
  BY <1>4 DEF raw_task_create, Inside
<1>5. TaskNext => \/ Resched \/ pc' = pc \/ raw_sched \/ block_state_post_process
                  \/ (\E dly \in Delays : raw_sleep(dly))
                  \/ (\E u \in Task : raw_task_create(u))
  BY DEF TaskNext, KernelNext, raw_os_start, raw_enter_interrupt, raw_finish_int,
         raw_disable_sche, raw_enable_sche, tick_list_update, time_slice_step, FreeMutex,
         FinishDelete, raw_task_suspend, raw_task_suspend_again, raw_task_resume,
         raw_task_delete, raw_task_wait_abort, raw_task_priority_change,
         raw_task_time_slice_change, raw_set_sched_way, raw_system_time_set, raw_time_tick,
         tick_list_done
<1> QED
  BY <1>1, <1>2, <1>3, <1>4, <1>5

LEMMA FreshNext == TaskInv /\ FreshInv /\ [TaskNext]_taskVars => FreshInv'
<1> SUFFICES ASSUME TaskInv, FreshInv, [TaskNext]_taskVars PROVE FreshInv'
  OBVIOUS
<1>1. CASE UNCHANGED taskVars
  BY <1>1 DEF taskVars, FreshInv
<1>2. CASE block_state_post_process
  BY <1>2, InvFacts DEF block_state_post_process, FreshInv, Inside, KernelState
<1>3. CASE TaskNext /\ Told
  <2>1. SUFFICES ASSUME NEW t \in Task, pc'[t] \in Inside, k'.task_state[t] \notin Away
                 PROVE  k'.block_status[t] # "STALE"
    BY DEF FreshInv
  <2>2. pc[t] \in Inside /\ Informed(t) /\ k'.task_state[t] # "DELETED"
    BY <1>3, <2>1, PlaceStep DEF Told, Away
  <2>3. CASE k.task_state[t] \notin Away
    BY <2>2, <2>3 DEF Informed, FreshInv
  <2>4. CASE k.task_state[t] \in Pending
    <3>1. k'.block_status[t] \in Outcome(k.block_obj[t])
      BY <2>1, <2>2, <2>4 DEF Informed, Away
    <3> QED
      BY <3>1 DEF Outcome
  <2>5. CASE k.task_state[t] \in Timed
    BY <2>1, <2>2, <2>5 DEF Informed
  <2>6. CASE k.task_state[t] = "DELETED"
    BY <2>1, <2>2, <2>6 DEF Informed, Inside
  <2> QED
    BY <2>3, <2>4, <2>5, <2>6 DEF Away
<1>4. TaskNext => Told \/ block_state_post_process
  BY KernelNextInv, raw_time_tickInv, tick_list_doneInv DEF TaskNext
<1> QED
  BY <1>1, <1>2, <1>3, <1>4

\* block_state_post_process never reads what an earlier wait left behind: every
\* way a wait can end writes block_status, and nothing writes it after that.
THEOREM StatusIsFresh == TaskSpec => []FreshStatus
<1>1. TaskInit => FreshInv
  BY DEF TaskInit, FreshInv, Inside
<1>2. TaskInv /\ FreshInv => FreshStatus
  <2> SUFFICES ASSUME TaskInv, FreshInv, TaskAt("woken")
               PROVE  k.block_status[active] # "STALE"
    BY DEF FreshStatus
  <2>1. active \in Task /\ k.task_state[active] = "RDY" /\ pc[active] = "woken"
    BY InvFacts DEF TaskInv, StoppedTaskLeaves, TaskAt
  <2> QED
    BY <2>1 DEF FreshInv, Inside, Away, Pending, Timed
<1> QED
  BY <1>1, <1>2, FreshNext, TaskInvariant, PTL DEF TaskSpec

-----------------------------------------------------------------------------
(* For the modules that add objects: who waits for an object, and calls     *)
(* that create, delete or wake all waiters of one.                          *)

WaitsFor(t, s) == k.task_state[t] \in Pending /\ k.block_obj[t] = s
NobodyWaits(s) == \A t \in Task : ~ WaitsFor(t, s)

\* The block list of an object is empty when no task waits for it.
LEMMA EmptyList ==
  ASSUME TaskInv, NEW s \in Obj
  PROVE  Waiters(s) = <<>> <=> NobodyWaits(s)
<1>1. Waiters(s) \in Seq(Task) /\ \A t \in Task : In(t, Waiters(s)) <=> WaitsFor(t, s)
  BY InvFacts DEF Consistent, LinkedAs, KernelState, Waiters, WaitsFor
<1>2. Waiters(s) = <<>> <=> \A t \in Task : ~ In(t, Waiters(s))
  BY <1>1 DEF In
<1> QED
  BY <1>1, <1>2 DEF NobodyWaits

\* The first waiter of a list that is not empty.
LEMMA FirstWaiter ==
  ASSUME TaskInv, NEW s \in Obj, Waiters(s) # <<>>
  PROVE  /\ Head(Waiters(s)) \in Task \ {Idle} /\ WaitsFor(Head(Waiters(s)), s)
         /\ k.task_state[Head(Waiters(s))] # "RDY"
<1>1. Waiters(s) \in Seq(Task)
  BY InvFacts DEF KernelState, Waiters
<1>2. Head(Waiters(s)) \in Task /\ In(Head(Waiters(s)), Waiters(s))
  BY <1>1 DEF In
<1> QED
  BY <1>2, InvFacts DEF Consistent, LinkedAs, Waiters, Pending, WaitsFor

\* Where no task begins to wait, an object without waiters stays without them.
LEMMA CalmKeeps ==
  ASSUME Calm, NEW s, NobodyWaits(s)
  PROVE  NobodyWaits(s)'
BY DEF Calm, StartsNoWait, NobodyWaits, WaitsFor

\* The steps of the tasks leave the loop of an object alone.
LEMMA TaskNextLoop ==
  ASSUME TaskInv, TaskNext
  PROVE  loop' = loop \/ (loop.op # "wake" /\ loop'.op # "wake")
<1>1. loop \in Loop
  BY InvFacts
<1>2. CASE loop = NoLoop /\ loop' = NoLoop
  BY <1>2
<1>3. CASE raw_os_start
  BY <1>3 DEF raw_os_start
<1>4. CASE FreeMutex \/ FinishDelete
  BY <1>1, <1>4 DEF FreeMutex, FinishDelete, Loop, NoLoop
<1>5. CASE tick_list_update \/ raw_time_tick \/ tick_list_done
  BY <1>1, <1>5 DEF tick_list_update, raw_time_tick, tick_list_done, Loop, NoLoop, IsrRuns
<1>6. ASSUME NEW t \in Deletable, raw_task_delete(t)
      PROVE  loop.op # "wake" /\ loop'.op # "wake"
  BY <1>6 DEF raw_task_delete, NoLoop, TaskRuns, TaskAt
<1> QED
  BY <1>2, <1>3, <1>4, <1>5, <1>6, LoopSteps

\* A step that leaves the tasks where they are.
LEMMA StillStep ==
  ASSUME TaskInv, Consistent(k'), k'.task_state = k.task_state, k'.block_obj = k.block_obj,
         k'.raw_task_active = k.raw_task_active, UNCHANGED <<sys, call>>,
         pc' \in [Task -> Place], loop' \in Loop, LoopOK',
         pc'[active] = pc[active] \/ Ahead
  PROVE  /\ TaskInv'
         /\ \A s \in Obj : NobodyWaits(s) => NobodyWaits(s)'
<1>1. active' = active
  BY DEF active
<1>2. TaskTypeOK'
  BY InvFacts DEF TaskTypeOK, TaskInv, sys, Consistent
<1>3. StoppedTaskLeaves'
  BY <1>1 DEF TaskInv, StoppedTaskLeaves, sys, Ahead
<1>4. TaskInv'
  BY <1>1, <1>2, <1>3 DEF TaskInv, sys
<1> QED
  BY <1>4 DEF NobodyWaits, WaitsFor

\* Objects are created and deleted.
LEMMA NewLive ==
  ASSUME NEW K, Consistent(K), NEW L \in SUBSET Obj, NEW K1, K1 = [K EXCEPT !.live = L]
  PROVE  /\ Consistent(K1) /\ K1.live = L /\ SameHeld(K, K1)
         /\ K1.task_state = K.task_state /\ K1.block_obj = K.block_obj
         /\ K1.block_status = K.block_status /\ K1.raw_task_active = K.raw_task_active
<1>1. /\ K1 \in KernelState /\ SameQueue(K, K1) /\ SameHeld(K, K1)
      /\ K1.block_list = K.block_list /\ K1.tick_head = K.tick_head
      /\ K1.task_state = K.task_state /\ K1.priority = K.priority
      /\ K1.block_obj = K.block_obj /\ K1.block_status = K.block_status
      /\ K1.fault = K.fault /\ K1.raw_task_active = K.raw_task_active /\ K1.live = L
  BY DEF Consistent, KernelState, SameQueue, SameHeld
<1>2. Consistent(K1)
  BY <1>1, OtherFields DEF Consistent, IdleOK, SameHeld
<1> QED
  BY <1>1, <1>2

LEMMA ObjectStep ==
  ASSUME TaskInv, NEW L \in SUBSET Obj, k' = [k EXCEPT !.live = L], UNCHANGED <<sys, call>>,
         pc' \in [Task -> Place], loop' \in Loop, LoopOK',
         pc'[active] = pc[active] \/ Ahead
  PROVE  /\ TaskInv'
         /\ \A s \in Obj : NobodyWaits(s) => NobodyWaits(s)'
<1>1. /\ Consistent(k') /\ k'.task_state = k.task_state /\ k'.block_obj = k.block_obj
      /\ k'.raw_task_active = k.raw_task_active
  BY InvFacts, NewLive
<1> QED
  BY <1>1, StillStep

\* An object for which nobody waits is created.
LEMMA NewObject ==
  ASSUME TaskInv, loop = NoLoop, NEW s \in Obj, NobodyWaits(s),
         UNCHANGED <<sys, pc, call, loop>>,
         k' = [k EXCEPT !.block_list[s] = <<>>, !.live = @ \cup {s}]
  PROVE  /\ TaskInv' /\ \A o \in Obj : NobodyWaits(o) => NobodyWaits(o)'
         /\ k'.live = k.live \cup {s} /\ SameQueue(k, k')
         /\ k'.task_state = k.task_state /\ k'.block_obj = k.block_obj
         /\ k'.block_status = k.block_status /\ k'.raw_task_active = k.raw_task_active
         /\ k'.raw_tick_count = k.raw_tick_count
<1>1. Waiters(s) = <<>>
  BY EmptyList
<1>2. k' = [k EXCEPT !.live = k.live \cup {s}] /\ k.live \cup {s} \in SUBSET Obj
  <2>1. k.block_list \in [Obj -> Seq(Task)] /\ k.live \in SUBSET Obj /\ k.block_list[s] = <<>>
    BY <1>1, InvFacts DEF KernelState, Waiters
  <2>2. [k.block_list EXCEPT ![s] = <<>>] = k.block_list
    BY <2>1
  <2>3. k' = [k EXCEPT !.block_list = [k.block_list EXCEPT ![s] = <<>>],
                       !.live = k.live \cup {s}]
    OBVIOUS
  <2>4. k' = [k EXCEPT !.block_list = k.block_list, !.live = k.live \cup {s}]
    BY <2>2, <2>3
  <2>5. k' = [k EXCEPT !.live = k.live \cup {s}]
    BY <2>4, InvFacts DEF KernelState
  <2> QED
    BY <2>1, <2>5
<1>3. /\ loop' \in Loop /\ LoopOK' /\ pc' \in [Task -> Place] /\ pc'[active] = pc[active]
      /\ UNCHANGED <<sys, call>>
  BY StepLoop, InvFacts
<1>4. TaskInv' /\ \A o \in Obj : NobodyWaits(o) => NobodyWaits(o)'
  BY <1>2, <1>3, ObjectStep
<1>5. /\ k'.live = k.live \cup {s} /\ SameQueue(k, k')
      /\ k'.task_state = k.task_state /\ k'.block_obj = k.block_obj
      /\ k'.block_status = k.block_status /\ k'.raw_task_active = k.raw_task_active
      /\ k'.raw_tick_count = k.raw_tick_count
  BY <1>2, InvFacts DEF KernelState, SameQueue
<1> QED
  BY <1>4, <1>5

\* The variables beside k in a call that starts to wake all waiters.
LEMMA StartsWaking ==
  ASSUME TaskInv, NEW s \in Obj, NEW status \in {"OK", "DEL"}, Resched, UNCHANGED sys,
         loop' = [NoLoop EXCEPT !.op = "wake", !.obj = s, !.status = status]
  PROVE  /\ loop' \in Loop /\ LoopOK' /\ loop'.op = "wake" /\ loop'.obj = s
         /\ pc' \in [Task -> Place] /\ Ahead
<1>1. loop' \in Loop /\ loop'.op = "wake" /\ loop'.obj = s
  BY DEF Loop, NoLoop
<1> QED
  BY <1>1, ReschedOK DEF LoopOK

\* The head of a list of waiters is woken.
LEMMA WakeHead ==
  ASSUME TaskInv, NEW s \in Obj, Waiters(s) # <<>>, NEW status \in BlockState,
         k' = wake_up(k, Head(Waiters(s)), status),
         UNCHANGED <<sys, call, loop>>, pc' \in [Task -> Place],
         pc'[active] = pc[active] \/ Ahead
  PROVE  /\ TaskInv' /\ Calm /\ StaysSuspended
         /\ \E t \in Task : /\ Moves(k, k', t) /\ WaitsFor(t, s)
                           /\ k'.task_state[t] \in Awake /\ k'.block_obj[t] = NoObj
<1> DEFINE t == Head(Waiters(s))
<1>1. t \in Task \ {Idle} /\ WaitsFor(t, s) /\ k.task_state[t] # "RDY"
  BY FirstWaiter
<1>2. k' = wake_up(k, t, status)
  OBVIOUS
<1> HIDE DEF t
<1>3. /\ Moves(k, k', t) /\ k'.task_state[t] \in Awake /\ k'.block_obj[t] = NoObj
      /\ k.task_state[t] \in Suspended => k'.task_state[t] \in Suspended
  BY <1>1, <1>2, InvFacts, wake_upMoves DEF WaitsFor, Suspended
<1>4. loop' \in Loop /\ LoopOK'
  BY <1>3, InvFacts DEF TaskInv, LoopOK, MayStop, sys, active, Moves, OneMoves
<1>5. StartsNoWait(t)
  BY <1>3 DEF StartsNoWait, Awake, Pending
<1>6. call' \in [Task -> Call]
  BY InvFacts
<1>7. TaskInv' /\ Calm /\ StaysSuspended
  BY <1>1, <1>3, <1>4, <1>5, <1>6, OneTaskStep DEF Preserved
<1> QED
  BY <1>1, <1>3, <1>7

-----------------------------------------------------------------------------
(* For the modules about what tasks wait for and hold.                      *)

LEMMA TaskNextTold ==
  ASSUME TaskInv, TaskNext
  PROVE  Told \/ block_state_post_process
BY KernelNextInv, raw_time_tickInv, tick_list_doneInv DEF TaskNext

\* block_state_post_process ends the call of the active task, which is ready.
LEMMA PostProcess ==
  ASSUME TaskInv, block_state_post_process
  PROVE  /\ k'.task_state = k.task_state /\ k'.block_obj = k.block_obj /\ k'.live = k.live
         /\ k.task_state[active] = "RDY" /\ active' = active /\ loop' = loop
         /\ pc'[active] = "run" /\ call'[active] = "none"
         /\ \A u \in Task \ {active} : /\ pc'[u] = pc[u] /\ call'[u] = call[u]
                                       /\ k'.block_status[u] = k.block_status[u]
<1>1. k' = [k EXCEPT !.block_status[active] = "STALE"] /\ loop' = loop /\ TaskAt("woken")
  BY DEF block_state_post_process
<1>2. k.task_state[active] = "RDY"
  BY <1>1 DEF TaskInv, StoppedTaskLeaves, TaskAt
<1> QED
  BY <1>1, <1>2, InvFacts DEF block_state_post_process, KernelState, active

\* Only FinishDelete makes a task a deleted one.
LEMMA TaskNextDeletes ==
  ASSUME TaskInv, TaskNext, NEW t \in Task, k'.task_state[t] = "DELETED"
  PROVE  k.task_state[t] = "DELETED" \/ (FinishDelete /\ loop.task = t)
<1>1. CASE block_state_post_process
  BY <1>1, PostProcess
<1>2. CASE raw_os_start
  BY <1>2, InvFacts, get_ready_taskPicks DEF raw_os_start
<1>3. CASE Told /\ ~ raw_os_start
  <2>1. SUFFICES ASSUME loop.op = "free", loop.obj = NoObj, loop.task = t
                 PROVE  FinishDelete
    BY <1>3 DEF Told, Informed
  <2>2. loop # NoLoop
    BY <2>1, NoLoopOK
  <2>3. ASSUME NEW u \in Deletable, raw_task_delete(u) PROVE FALSE
    BY <2>2, <2>3 DEF raw_task_delete, TaskRuns, TaskAt
  <2>4. ~ (FreeMutex \/ tick_list_update \/ raw_time_tick \/ tick_list_done)
    BY <2>1, <2>2 DEF FreeMutex, tick_list_update, raw_time_tick, tick_list_done, IsrRuns
  <2> QED
    BY <1>3, <2>2, <2>3, <2>4, LoopSteps
<1> QED
  BY <1>1, <1>2, <1>3, TaskNextTold

\* ... and only raw_task_create makes it another one.
LEMMA TaskNextCreates ==
  ASSUME TaskInv, TaskNext, NEW t \in Task,
         k.task_state[t] = "DELETED", k'.task_state[t] # "DELETED"
  PROVE  raw_task_create(t)
BY TaskNextTold, PostProcess DEF Told, Informed

\* Mutexes change hands, and lists of mutexes change, nowhere else.
HeldStep ==
  \/ SameHeld(k, k')
  \/ FreeMutex
  \/ \E t \in Task : raw_task_create(t)
  \/ \E t \in Task, p \in 0 .. PrioMax - 2 :
       raw_task_priority_change(t, p) /\ SameHeld([k EXCEPT !.bpriority[t] = p], k')

LEMMA ChoiceHeld ==
  ASSUME TaskInv,
         raw_os_start \/ raw_sched \/ block_state_post_process \/ raw_enter_interrupt
           \/ raw_finish_int \/ raw_disable_sche \/ raw_enable_sche
  PROVE  SameHeld(k, k')
<1>1. k' \in {k, get_ready_task(k), [k EXCEPT !.block_status[active] = "STALE"]}
  BY DEF raw_os_start, raw_sched, block_state_post_process, raw_enter_interrupt,
         raw_finish_int, raw_disable_sche, raw_enable_sche
<1> QED
  BY <1>1, InvFacts DEF get_ready_task, KernelState, SameHeld

LEMMA TaskNextHeld ==
  ASSUME TaskInv, TaskNext
  PROVE  HeldStep
<1>1. ASSUME NEW t \in Suspendable,
             raw_task_suspend(t) \/ raw_task_suspend_again(t) \/ raw_task_resume(t)
      PROVE  SameHeld(k, k')
  BY <1>1, TaskAssumption, raw_task_suspendInv, raw_task_suspend_againInv, raw_task_resumeInv
<1>2. ASSUME NEW tp \in NewPrio, raw_task_priority_change(tp[1], tp[2])
      PROVE  HeldStep
  BY <1>2, TaskAssumption, raw_task_priority_changeInv DEF HeldStep
<1>3. ASSUME NEW ts \in NewSlice, raw_task_time_slice_change(ts[1], ts[2])
      PROVE  SameHeld(k, k')
  BY <1>3, TaskAssumption, raw_task_time_slice_changeInv
<1>4. ASSUME tick_list_update \/ time_slice_step \/ FinishDelete \/ raw_time_tick
             \/ tick_list_done
      PROVE  SameHeld(k, k')
  BY <1>4, tick_list_updateInv, time_slice_stepInv, FinishDeleteInv, raw_time_tickInv,
     tick_list_doneInv
<1>5. ASSUME NEW t \in Task, raw_task_create(t) PROVE HeldStep
  BY <1>5 DEF HeldStep
<1>6. ASSUME NEW dly \in Delays, raw_sleep(dly) PROVE SameHeld(k, k')
  BY <1>6, raw_sleepInv
<1>7. ASSUME NEW t \in Deletable, raw_task_delete(t) PROVE SameHeld(k, k')
  BY <1>7, TaskAssumption, raw_task_deleteInv
<1>8. ASSUME NEW t \in Abortable, raw_task_wait_abort(t) PROVE SameHeld(k, k')
  BY <1>8, TaskAssumption, raw_task_wait_abortInv
<1>9. ASSUME NEW t \in NewSchedWay, raw_set_sched_way(t) PROVE SameHeld(k, k')
  BY <1>9, TaskAssumption, raw_set_sched_wayInv
<1>10. ASSUME NEW time \in NewTime, raw_system_time_set(time) PROVE SameHeld(k, k')
  BY <1>10, TaskAssumption, raw_system_time_setInv
<1> QED
  BY <1>1, <1>2, <1>3, <1>4, <1>5, <1>6, <1>7, <1>8, <1>9, <1>10, ChoiceHeld
  DEF TaskNext, KernelNext, HeldStep

-----------------------------------------------------------------------------
(* Without mutexes the task that executes is the most urgent ready one.     *)
(* DispatchOK speaks of states between two critical sections; what is       *)
(* inductive says the same inside of them, where the caller of              *)
(* raw_task_delete still stands at "run".                                   *)


\* No choice of a task is ahead of the active one.
NothingAhead ==
  /\ raw_os_active /\ raw_sched_lock = 0 /\ raw_int_nesting = 0
  /\ pc[active] \in {"run", "woken"}

DispatchInv == NothingAhead => active = HighestReady(k)

\* The tick list and the time slices are looked at in interrupts only.
TicksInInterrupt ==
  /\ loop.op = "tick" => raw_int_nesting > 0
  /\ slice_due \subseteq 1 .. MaxNest

\* A step after which the ready queue and the place of the active task are as before.
LEMMA Unmoved ==
  ASSUME DispatchInv, SameQueue(k, k'), active' = active,
         raw_os_active' = raw_os_active,
         raw_int_nesting = 0 /\ raw_int_nesting' = 0 =>
           raw_sched_lock = raw_sched_lock' /\ pc'[active] = pc[active],
         raw_int_nesting' = 0 => raw_int_nesting = 0
  PROVE  DispatchInv'
BY DEF DispatchInv, NothingAhead, SameQueue, HighestReady

\* A step after which the active task still has raw_sched() ahead.
LEMMA StillAhead ==
  ASSUME Ahead, UNCHANGED sys, active' = active, TaskInv
  PROVE  DispatchInv'
<1>1. raw_int_nesting \in Nat
  BY InvFacts
<1>. QED
  BY <1>1 DEF Ahead, sys, DispatchInv, NothingAhead

\* A call that ends with raw_sched().
LEMMA CallEnds ==
  ASSUME TaskInv, Preserved, Resched, UNCHANGED sys
  PROVE  DispatchInv'
BY ReschedOK, StillAhead DEF Preserved, active

LEMMA InInterrupt ==
  ASSUME raw_int_nesting' > 0
  PROVE  DispatchInv'
BY DEF DispatchInv, NothingAhead

\* raw_sched.c, raw_system.c: where a task is chosen.
LEMMA ChoiceDispatch ==
  ASSUME TaskInv, raw_os_start \/ raw_sched \/ raw_finish_int
  PROVE  DispatchInv'
<1>1. \/ k' = get_ready_task(k)
      \/ raw_sched_lock' > 0
      \/ raw_int_nesting' > 0
  <2>1. raw_int_nesting \in Nat /\ raw_sched_lock \in Nat
    BY InvFacts
  <2>. QED
    BY <2>1 DEF raw_os_start, raw_sched, raw_finish_int, sys
<1>2. CASE k' = get_ready_task(k)
  <2>1. /\ k'.raw_task_active = HighestReady(k) /\ SameQueue(k, k')
    BY <1>2, InvFacts DEF get_ready_task, KernelState, SameQueue
  <2>. QED
    BY <2>1 DEF DispatchInv, HighestReady, SameQueue, active
<1>. QED
  BY <1>1, <1>2 DEF DispatchInv, NothingAhead

LEMMA QuietDispatch ==
  ASSUME TaskInv, DispatchInv,
         block_state_post_process \/ raw_enter_interrupt \/ raw_disable_sche \/ raw_enable_sche
  PROVE  DispatchInv'
<1>1. raw_int_nesting \in Nat /\ raw_sched_lock \in Nat
  BY InvFacts
<1>2. CASE block_state_post_process
  <2>1. /\ SameQueue(k, k') /\ active' = active /\ UNCHANGED sys
        /\ pc[active] = "woken"
    BY <1>2, InvFacts DEF block_state_post_process, TaskAt, KernelState, SameQueue, active
  <2>. QED
    BY <2>1 DEF DispatchInv, NothingAhead, SameQueue, HighestReady, sys
<1>3. CASE raw_enter_interrupt
  BY <1>1, <1>3, InInterrupt DEF raw_enter_interrupt
<1>4. CASE raw_disable_sche
  BY <1>1, <1>4 DEF raw_disable_sche, DispatchInv, NothingAhead
<1>5. CASE raw_enable_sche
  <2>1. /\ k' = k /\ active' = active /\ raw_int_nesting = 0
        /\ raw_sched_lock' = 0 => Resched
    BY <1>5 DEF raw_enable_sche, TaskRuns, TaskAt, active
  <2>2. raw_sched_lock' = 0 => pc'[active] = "resched"
    BY <2>1, InvFacts DEF Resched
  <2>. QED
    BY <2>1, <2>2 DEF DispatchInv, NothingAhead
<1>. QED
  BY <1>2, <1>3, <1>4, <1>5

\* raw_task.c: the calls that may return without raw_sched().
LEMMA raw_task_createDispatch ==
  ASSUME TaskInv, DispatchInv, NEW t \in Task, raw_task_create(t)
  PROVE  DispatchInv'
<1>1. UNCHANGED sys /\ active' = active /\ active \in Task /\ t # active
  <2>1. t # active
    BY RunningIsReady DEF raw_task_create, Boot, TaskInv, active
  <2>. QED
    BY <2>1, raw_task_createInv, InvFacts DEF raw_task_create, Preserved, active
<1>2. CASE t \in AutoStart /\ raw_os_active
  BY <1>1, <1>2, StillAhead DEF raw_task_create, Ahead
<1>3. CASE ~ raw_os_active
  BY <1>1, <1>3 DEF sys, DispatchInv, NothingAhead
<1>4. CASE t \notin AutoStart
  <2>1. SameQueue(k, k') /\ pc'[active] = pc[active]
    BY <1>1, <1>4, InvFacts DEF raw_task_create, SameQueue, KernelState
  <2>. QED
    BY <1>1, <2>1, Unmoved DEF sys
<1>. QED
  BY <1>2, <1>3, <1>4

LEMMA raw_sleepDispatch ==
  ASSUME TaskInv, DispatchInv, NEW dly \in Delays, raw_sleep(dly)
  PROVE  DispatchInv'
<1>1. UNCHANGED sys /\ active' = active /\ Preserved
  BY raw_sleepInv DEF raw_sleep, Preserved, active
<1>2. Resched \/ Block("sleep")
  BY DEF raw_sleep
<1>3. Block("sleep") => Ahead
  BY InvFacts DEF Block, Ahead
<1>. QED
  BY <1>1, <1>2, <1>3, CallEnds, StillAhead

LEMMA raw_task_suspendDispatch ==
  ASSUME TaskInv, DispatchInv, NEW t \in Task,
         raw_task_suspend(t) \/ raw_task_suspend_again(t) \/ raw_task_resume(t)
  PROVE  DispatchInv'
<1>1. Preserved /\ UNCHANGED sys /\ active' = active
  BY raw_task_suspendInv, raw_task_suspend_againInv, raw_task_resumeInv
  DEF raw_task_suspend, raw_task_suspend_again, raw_task_resume, Preserved, active
<1>2. CASE Resched
  BY <1>1, <1>2, CallEnds
<1>3. CASE ~ Resched
  <2>1. pc' = pc /\ SameQueue(k, k')
    BY <1>3, InvFacts
    DEF raw_task_suspend, raw_task_suspend_again, raw_task_resume, SameQueue, KernelState
  <2>. QED
    BY <1>1, <2>1, Unmoved DEF sys
<1>. QED
  BY <1>2, <1>3

LEMMA raw_task_priority_changeDispatch ==
  ASSUME TaskInv, DispatchInv, NEW t \in Task, NEW p \in 0 .. PrioMax - 2,
         raw_task_priority_change(t, p)
  PROVE  DispatchInv'
<1> DEFINE K1 == [k EXCEPT !.bpriority[t] = p]
<1>1. Preserved /\ UNCHANGED sys /\ active' = active
  BY raw_task_priority_changeInv DEF raw_task_priority_change, Preserved, active
<1>2. CASE k.task_state[t] # "DELETED"
  BY <1>1, <1>2, CallEnds DEF raw_task_priority_change
<1>3. CASE k.task_state[t] = "DELETED"
  <2>1. K1.task_state[t] = "DELETED" /\ SameQueue(k, K1)
    BY <1>3, InvFacts DEF KernelState, SameQueue
  <2>2. pc' = pc /\ k' = change_internal_task_priority(K1, t, chg_pri_mutex(k, t, p))
    BY <1>3 DEF raw_task_priority_change
  <2>. HIDE DEF K1
  <2>3. k' = K1
    BY <2>1, <2>2 DEF change_internal_task_priority, change_priority_then, Pending
  <2>. QED
    BY <1>1, <2>1, <2>2, <2>3, Unmoved DEF sys
<1>. QED
  BY <1>2, <1>3

LEMMA WritesDispatch ==
  ASSUME TaskInv, DispatchInv, NEW t \in Task,
         \/ raw_task_delete(t) \/ raw_set_sched_way(t)
         \/ \E n \in 1 .. TimeTotal : raw_task_time_slice_change(t, n)
         \/ \E time \in Ticks : raw_system_time_set(time)
  PROVE  DispatchInv'
<1>1. /\ UNCHANGED sys /\ pc' = pc
      /\ SameQueue(k, k') /\ k'.raw_task_active = k.raw_task_active
  BY InvFacts DEF raw_task_delete, raw_set_sched_way, raw_task_time_slice_change,
                  raw_system_time_set, SameQueue, KernelState
<1>. QED
  BY <1>1, Unmoved DEF sys, active

LEMMA raw_task_wait_abortDispatch ==
  ASSUME TaskInv, DispatchInv, NEW t \in Task, raw_task_wait_abort(t)
  PROVE  DispatchInv'
BY raw_task_wait_abortInv, CallEnds DEF raw_task_wait_abort

\* A task that was deleted already has no mutex to free, and nothing changes.
LEMMA DeleteDispatch ==
  ASSUME TaskInv, DispatchInv, Mutex = {}, FreeMutex \/ FinishDelete
  PROVE  DispatchInv'
<1>1. FinishDelete
  BY DEF FreeMutex, TaskInv, LoopOK
<1>2. Preserved /\ UNCHANGED sys /\ active' = active
  BY <1>1, FinishDeleteInv DEF FinishDelete, Preserved, active
<1>3. CASE Resched
  BY <1>2, <1>3, CallEnds
<1>4. CASE ~ Resched
  <2>1. k.task_state[loop.task] = "DELETED" /\ pc' = pc
    BY <1>1, <1>4 DEF FinishDelete
  <2>2. k' = k
    BY <1>1, <2>1 DEF FinishDelete, Pending
  <2>. QED
    BY <1>2, <2>1, <2>2, Unmoved DEF sys, SameQueue
<1>. QED
  BY <1>3, <1>4

LEMMA TickDispatch ==
  ASSUME TicksInInterrupt, raw_time_tick \/ tick_list_update \/ tick_list_done \/ time_slice_step
  PROVE  DispatchInv'
<1>1. raw_int_nesting > 0 /\ raw_int_nesting' = raw_int_nesting
  BY DEF raw_time_tick, tick_list_update, tick_list_done, time_slice_step, IsrRuns, sys,
         TicksInInterrupt
<1>. QED
  BY <1>1, InInterrupt

LEMMA DispatchNext ==
  ASSUME Mutex = {}
  PROVE  TaskInv /\ TicksInInterrupt /\ DispatchInv /\ [TaskNext]_taskVars => DispatchInv'
<1>. SUFFICES ASSUME TaskInv, TicksInInterrupt, DispatchInv, [TaskNext]_taskVars PROVE DispatchInv'
  OBVIOUS
<1>1. CASE UNCHANGED taskVars
  BY <1>1 DEF DispatchInv, NothingAhead, taskVars, sys, active
<1>2. CASE raw_os_start \/ raw_sched \/ raw_finish_int \/ block_state_post_process
           \/ raw_enter_interrupt \/ raw_disable_sche \/ raw_enable_sche
  BY <1>2, ChoiceDispatch, QuietDispatch
<1>3. CASE FreeMutex \/ FinishDelete \/ raw_time_tick \/ tick_list_update \/ tick_list_done
           \/ time_slice_step
  BY <1>3, DeleteDispatch, TickDispatch
<1>4. ASSUME NEW dly \in Delays, raw_sleep(dly) PROVE DispatchInv'
  BY <1>4, raw_sleepDispatch
<1>5. ASSUME NEW t \in Task, raw_task_create(t) PROVE DispatchInv'
  BY <1>5, raw_task_createDispatch
<1>6. ASSUME NEW t \in Suspendable,
             raw_task_suspend(t) \/ raw_task_suspend_again(t) \/ raw_task_resume(t)
      PROVE  DispatchInv'
  BY <1>6, raw_task_suspendDispatch, TaskAssumption
<1>7. ASSUME NEW t \in Deletable, raw_task_delete(t) PROVE DispatchInv'
  BY <1>7, WritesDispatch, TaskAssumption
<1>8. ASSUME NEW t \in Abortable, raw_task_wait_abort(t) PROVE DispatchInv'
  BY <1>8, raw_task_wait_abortDispatch, TaskAssumption
<1>9. ASSUME NEW tp \in NewPrio, raw_task_priority_change(tp[1], tp[2]) PROVE DispatchInv'
  BY <1>9, raw_task_priority_changeDispatch, TaskAssumption
<1>10. ASSUME NEW ts \in NewSlice, raw_task_time_slice_change(ts[1], ts[2])
       PROVE  DispatchInv'
  <2>1. ts[1] \in Task /\ ts[2] \in 1 .. TimeTotal
    BY TaskAssumption
  <2>. QED
    BY <1>10, <2>1, WritesDispatch
<1>11. ASSUME NEW t \in NewSchedWay, raw_set_sched_way(t) PROVE DispatchInv'
  BY <1>11, WritesDispatch, TaskAssumption
<1>12. ASSUME NEW time \in NewTime, raw_system_time_set(time) PROVE DispatchInv'
  BY <1>12, WritesDispatch, TaskAssumption, KernelAssumption
<1>. QED
  BY <1>1, <1>2, <1>3, <1>4, <1>5, <1>6, <1>7, <1>8, <1>9, <1>10, <1>11, <1>12
  DEF TaskNext, KernelNext

\* The tick interrupt alone starts the loop over the tick list; the system stays
\* started.
LEMMA KernelNextTick ==
  ASSUME TaskInv, KernelNext \/ UNCHANGED taskVars
  PROVE  /\ slice_due' \subseteq slice_due
         /\ loop'.op = "tick" => loop.op = "tick" /\ raw_int_nesting' = raw_int_nesting
         /\ raw_os_active' = raw_os_active \/ raw_os_start
<1>1. CASE UNCHANGED taskVars
  BY <1>1 DEF taskVars, sys
<1>2. CASE raw_os_start \/ raw_sched \/ block_state_post_process \/ raw_enter_interrupt
           \/ raw_finish_int \/ raw_disable_sche \/ raw_enable_sche \/ time_slice_step
  BY <1>2, NoLoopOK
  DEF raw_os_start, raw_sched, block_state_post_process, raw_enter_interrupt, raw_finish_int,
      raw_disable_sche, raw_enable_sche, time_slice_step, TaskAt, TaskRuns, IsrRuns, sys
<1>3. CASE tick_list_update \/ FreeMutex \/ FinishDelete
  <2>1. loop \in Loop
    BY DEF TaskInv, TaskTypeOK
  <2>2. CASE tick_list_update
    BY <2>2 DEF tick_list_update, sys
  <2>3. CASE FreeMutex
    <3>1. loop'.op = loop.op /\ UNCHANGED sys
      BY <2>1, <2>3 DEF FreeMutex, Loop
    <3>. QED
      BY <3>1 DEF sys
  <2>4. CASE FinishDelete
    <3>1. loop' = NoLoop /\ UNCHANGED sys
      BY <2>4 DEF FinishDelete
    <3>. QED
      BY <3>1, NoLoopOK DEF sys
  <2>. QED
    BY <1>3, <2>2, <2>3, <2>4
<1>4. ASSUME NEW dly \in Delays, raw_sleep(dly)
      PROVE  UNCHANGED <<sys, loop>>
  BY <1>4 DEF raw_sleep
<1>5. ASSUME NEW t \in Task,
             \/ raw_task_create(t) \/ raw_task_wait_abort(t) \/ raw_set_sched_way(t)
             \/ raw_task_suspend(t) \/ raw_task_suspend_again(t) \/ raw_task_resume(t)
      PROVE  UNCHANGED <<sys, loop>>
  BY <1>5 DEF raw_task_create, raw_task_wait_abort, raw_set_sched_way, raw_task_suspend,
     raw_task_suspend_again, raw_task_resume
<1>6. ASSUME NEW t \in Task, raw_task_delete(t)
      PROVE  UNCHANGED sys /\ loop'.op = "free"
  BY <1>6 DEF raw_task_delete, NoLoop
<1>7. ASSUME NEW tp \in NewPrio, raw_task_priority_change(tp[1], tp[2])
      PROVE  UNCHANGED <<sys, loop>>
  BY <1>7 DEF raw_task_priority_change
<1>8. ASSUME NEW ts \in NewSlice, raw_task_time_slice_change(ts[1], ts[2])
      PROVE  UNCHANGED <<sys, loop>>
  BY <1>8 DEF raw_task_time_slice_change
<1>9. ASSUME NEW time \in NewTime, raw_system_time_set(time)
      PROVE  UNCHANGED <<sys, loop>>
  BY <1>9 DEF raw_system_time_set
<1>. QED
  <2>1. CASE \/ \E t \in Task : raw_task_create(t)
             \/ \E t \in Suspendable :
                  raw_task_suspend(t) \/ raw_task_suspend_again(t) \/ raw_task_resume(t)
             \/ \E t \in Abortable : raw_task_wait_abort(t)
             \/ \E t \in NewSchedWay : raw_set_sched_way(t)
             \/ \E dly \in Delays : raw_sleep(dly)
    <3>1. UNCHANGED <<sys, loop>>
      BY <1>4, <1>5, <2>1, TaskAssumption
    <3>. QED
      BY <3>1 DEF sys
  <2>2. CASE \/ \E tp \in NewPrio : raw_task_priority_change(tp[1], tp[2])
             \/ \E ts \in NewSlice : raw_task_time_slice_change(ts[1], ts[2])
             \/ \E time \in NewTime : raw_system_time_set(time)
    <3>1. UNCHANGED <<sys, loop>>
      BY <1>7, <1>8, <1>9, <2>2
    <3>. QED
      BY <3>1 DEF sys
  <2>3. CASE \E t \in Deletable : raw_task_delete(t)
    <3>1. UNCHANGED sys /\ loop'.op = "free"
      BY <1>6, <2>3, TaskAssumption
    <3>. QED
      BY <3>1 DEF sys
  <2>. QED
    BY <1>1, <1>2, <1>3, <2>1, <2>2, <2>3 DEF KernelNext

LEMMA TicksStayInside == TaskInv /\ TicksInInterrupt /\ [TaskNext]_taskVars => TicksInInterrupt'
<1>. SUFFICES ASSUME TaskInv, TicksInInterrupt, [TaskNext]_taskVars PROVE TicksInInterrupt'
  OBVIOUS
<1>1. raw_int_nesting \in 0 .. MaxNest /\ MaxNest \in Nat
  BY TaskAssumption DEF TaskInv, TaskTypeOK
<1>2. CASE raw_time_tick \/ tick_list_done
  BY <1>1, <1>2, NoLoopOK DEF raw_time_tick, tick_list_done, IsrRuns, sys, TicksInInterrupt
<1>3. CASE KernelNext \/ UNCHANGED taskVars
  <2>1. /\ slice_due' \subseteq slice_due
        /\ loop'.op = "tick" => loop.op = "tick" /\ raw_int_nesting' = raw_int_nesting
    BY <1>3, KernelNextTick
  <2>. QED
    BY <2>1 DEF TicksInInterrupt
<1>. QED
  BY <1>2, <1>3 DEF TaskNext

\* Whenever a task executes its own code with interrupts and scheduler enabled,
\* it is the head of the most urgent ready list: every critical section that
\* makes another task more urgent is followed by raw_sched() or by the exit of
\* an interrupt before the task goes on.
THEOREM DispatchCorrect ==
  ASSUME Mutex = {}
  PROVE  TaskSpec => []DispatchOK
<1>1. TaskInit => DispatchInv
  BY DEF TaskInit, DispatchInv, NothingAhead
<1>2. DispatchInv => DispatchOK
  BY DEF DispatchInv, NothingAhead, DispatchOK, TaskAt, active
<1>3. TaskInit => TicksInInterrupt
  BY NoLoopOK DEF TaskInit, TicksInInterrupt
<1>. QED
  BY <1>1, <1>2, <1>3, DispatchNext, TicksStayInside, TaskInvariant, PTL DEF TaskSpec
-----------------------------------------------------------------------------
(* What every task is inside, for the refinements of AbsSem and AbsMutex.   *)

\* What a task waits for is what its call says: the refinement mappings read
\* call, the kernel task_state and block_obj.
CallOK(t) ==
  /\ pc[t] \in {"run", "resched"} => call[t] = "none"
  /\ k.task_state[t] \in Pending => call[t] = k.block_obj[t]
  /\ k.task_state[t] \in Timed \ Pending => call[t] = "sleep"

\* The caller of raw_task_delete has not left its own code.
FreeAt == loop.op = "free" => raw_os_active /\ raw_int_nesting = 0 /\ pc[active] = "run"

\* Only the waiters of an object that is there are woken with RAW_SUCCESS.
WakeLive == loop.op = "wake" /\ loop.status = "OK" => loop.obj \in k.live

CallInv ==
  /\ \A t \in Task : k.task_state[t] # "DELETED" => CallOK(t)
  /\ FreeAt /\ WakeLive

-----------------------------------------------------------------------------
(* How a step of the kernel changes call and pc.                            *)

LEMMA CallStep ==
  ASSUME TaskInv, TaskNext, NEW u \in Task
  PROVE  \/ call'[u] = call[u]
         \/ k.task_state[u] = "DELETED" /\ call'[u] = "none"
         \/ /\ pc[u] = "run" /\ k.task_state[u] # "DELETED"
            /\ call'[u] = "sleep" /\ k'.task_state[u] = "DLY" /\ pc'[u] = "blocking"
         \/ u = active /\ block_state_post_process
<1>1. CASE call' = call
  BY <1>1
<1>2. CASE block_state_post_process
  BY <1>2, InvFacts DEF block_state_post_process
<1>3. ASSUME NEW dly \in Delays, raw_sleep(dly)
      PROVE  \/ call'[u] = call[u]
             \/ /\ pc[u] = "run" /\ k.task_state[u] # "DELETED"
                /\ call'[u] = "sleep" /\ k'.task_state[u] = "DLY" /\ pc'[u] = "blocking"
  <2>1. CASE dly = 0 \/ u # active
    BY <1>3, <2>1, InvFacts DEF raw_sleep, Block
  <2>2. CASE dly # 0 /\ u = active
    <3>1. k'.task_state[u] = "DLY"
      BY <1>3, <2>2, SleepState
    <3>2. pc[u] = "run" /\ k.task_state[u] = "RDY"
      BY <1>3, <2>2, RunningIsReady DEF raw_sleep, TaskRuns, TaskAt
    <3>3. call'[u] = "sleep" /\ pc'[u] = "blocking"
      BY <1>3, <2>2, InvFacts DEF raw_sleep, Block
    <3> QED
      BY <3>1, <3>2, <3>3
  <2> QED
    BY <2>1, <2>2
<1>4. ASSUME NEW t \in Task, raw_task_create(t)
      PROVE  \/ call'[u] = call[u]
             \/ k.task_state[u] = "DELETED" /\ call'[u] = "none"
  BY <1>4, InvFacts DEF raw_task_create
<1>5. TaskNext => \/ call' = call \/ block_state_post_process
                  \/ (\E dly \in Delays : raw_sleep(dly))
                  \/ (\E t \in Task : raw_task_create(t))
  BY DEF TaskNext, KernelNext, raw_os_start, raw_sched, raw_enter_interrupt, raw_finish_int,
         raw_disable_sche, raw_enable_sche, tick_list_update, time_slice_step, FreeMutex,
         FinishDelete, raw_task_suspend, raw_task_suspend_again, raw_task_resume,
         raw_task_delete, raw_task_wait_abort, raw_task_priority_change,
         raw_task_time_slice_change, raw_set_sched_way, raw_system_time_set, raw_time_tick,
         tick_list_done
<1> QED
  BY <1>1, <1>2, <1>3, <1>4, <1>5

\* A call that ends with raw_sched() is made by a task that runs its own code.
LEMMA FromRun ==
  ASSUME TaskInv, FreeAt, Caller \/ loop.op = "free", Resched, NEW u \in Task,
         pc'[u] \in {"run", "resched"}
  PROVE  pc[u] \in {"run", "resched"}
<1>1. raw_int_nesting = 0 => pc[active] = "run"
  BY InvFacts DEF FreeAt, Caller, TaskRuns, TaskAt, IsrRuns
<1> QED
  BY <1>1, InvFacts DEF Resched

LEMMA RunPlace ==
  ASSUME TaskInv, FreeAt, TaskNext, NEW u \in Task, pc'[u] \in {"run", "resched"}
  PROVE  \/ pc[u] \in {"run", "resched"}
         \/ k.task_state[u] = "DELETED"
         \/ u = active /\ block_state_post_process
<1>1. CASE (Caller \/ loop.op = "free") /\ Resched
  BY <1>1, FromRun
<1>2. CASE pc' = pc
  BY <1>2
<1>3. CASE raw_sched \/ block_state_post_process
  BY <1>3, InvFacts DEF raw_sched, block_state_post_process, TaskAt
<1>4. ASSUME NEW dly \in Delays, raw_sleep(dly)
      PROVE  pc[u] \in {"run", "resched"}
  <2>1. CASE dly = 0
    BY <1>4, <2>1, FromRun DEF raw_sleep, Caller
  <2>2. CASE dly # 0
    BY <1>4, <2>2, InvFacts DEF raw_sleep, Block
  <2> QED
    BY <2>1, <2>2
<1>5. ASSUME NEW t \in Task, raw_task_create(t)
      PROVE  pc[u] \in {"run", "resched"} \/ k.task_state[u] = "DELETED"
  <2>1. CASE u = t \/ u # active \/ ~ raw_os_active
    BY <1>5, <2>1 DEF raw_task_create
  <2>2. CASE u = active /\ raw_os_active
    BY <1>5, <2>2 DEF raw_task_create, Boot, TaskRuns, TaskAt
  <2> QED
    BY <2>1, <2>2
<1>6. TaskNext => \/ pc' = pc \/ raw_sched \/ block_state_post_process
                  \/ (Caller \/ loop.op = "free") /\ Resched
                  \/ (\E dly \in Delays : raw_sleep(dly))
                  \/ (\E t \in Task : raw_task_create(t))
  BY DEF TaskNext, KernelNext, raw_os_start, raw_enter_interrupt, raw_finish_int,
         raw_disable_sche, raw_enable_sche, tick_list_update, time_slice_step, FreeMutex,
         FinishDelete, raw_task_suspend, raw_task_suspend_again, raw_task_resume,
         raw_task_delete, raw_task_wait_abort, raw_task_priority_change,
         raw_task_time_slice_change, raw_set_sched_way, raw_system_time_set, raw_time_tick,
         tick_list_done, Caller
<1> QED
  BY <1>1, <1>2, <1>3, <1>4, <1>5, <1>6

LEMMA TaskStepCall ==
  ASSUME TaskInv, CallInv, TaskNext
  PROVE  CallInv'
<1>1. Calm
  BY TaskNextCalm
<1>2. ASSUME NEW u \in Task, k'.task_state[u] # "DELETED"
      PROVE  CallOK(u)'
  <2>1. CASE block_state_post_process
    <3>1. CASE u = active
      BY <2>1, <3>1, PostProcess DEF CallOK, Pending, Timed
    <3>2. CASE u # active
      BY <1>2, <2>1, <3>2, PostProcess DEF CallInv, CallOK
    <3> QED
      BY <3>1, <3>2
  <2>2. CASE ~ block_state_post_process
    <3>1. StartsNoWait(u) /\ Informed(u)
      BY <1>1, <2>2, TaskNextTold DEF Calm, Told
    <3>2. CASE k.task_state[u] = "DELETED"
      BY <1>2, <3>1, <3>2, TaskAssumption DEF Informed, StartsNoWait, CallOK, Pending, Timed
    <3>3. CASE k.task_state[u] # "DELETED"
      <4>1. CallOK(u) /\ FreeAt
        BY <3>3 DEF CallInv
      <4>2. CASE call'[u] = call[u]
        <5>1. pc'[u] \in {"run", "resched"} => pc[u] \in {"run", "resched"}
          BY <2>2, <3>3, <4>1, RunPlace
        <5> QED
          BY <3>1, <4>1, <4>2, <5>1 DEF CallOK, StartsNoWait, Informed
      <4>3. CASE call'[u] = "sleep" /\ k'.task_state[u] = "DLY" /\ pc'[u] = "blocking"
        BY <4>3 DEF CallOK, Pending
      <4> QED
        BY <2>2, <3>3, <4>2, <4>3, CallStep
    <3> QED
      BY <3>2, <3>3
  <2> QED
    BY <2>1, <2>2
<1>3. FreeAt'
  <2>1. CASE loop = NoLoop /\ loop' = NoLoop
    BY <2>1, NoLoopOK DEF FreeAt
  <2>2. ASSUME NEW t \in Deletable, raw_task_delete(t)
        PROVE  FreeAt'
    BY <2>2 DEF raw_task_delete, TaskRuns, TaskAt, FreeAt, sys, active
  <2>3. CASE FreeMutex
    BY <2>3, FreeMutexInv DEF FreeMutex, CallInv, FreeAt, sys, active, Preserved
  <2>4. CASE FinishDelete \/ raw_time_tick \/ tick_list_done
    BY <2>4, NoLoopOK DEF FinishDelete, raw_time_tick, tick_list_done, FreeAt, NoLoop
  <2>5. CASE tick_list_update
    BY <2>5 DEF tick_list_update, FreeAt
  <2>6. CASE raw_os_start
    BY <2>6 DEF raw_os_start, CallInv, FreeAt
  <2> QED
    BY <2>1, <2>2, <2>3, <2>4, <2>5, <2>6, LoopSteps
<1>4. WakeLive'
  BY <1>1, TaskNextLoop DEF Calm, CallInv, WakeLive
<1> QED
  BY <1>2, <1>3, <1>4 DEF CallInv

\* A step that leaves the tasks where they are.
LEMMA CallStays ==
  ASSUME TaskInv, CallInv, UNCHANGED call,
         k'.task_state = k.task_state, k'.block_obj = k.block_obj,
         pc' = pc \/ (Caller /\ Resched)
  PROVE  \A t \in Task : k'.task_state[t] # "DELETED" => CallOK(t)'
<1>1. ASSUME NEW u \in Task, pc'[u] \in {"run", "resched"}
      PROVE  pc[u] \in {"run", "resched"}
  BY <1>1, FromRun DEF CallInv
<1>2. ASSUME NEW u \in Task, k'.task_state[u] # "DELETED"
      PROVE  CallOK(u)'
  BY <1>1, <1>2 DEF CallInv, CallOK
<1> QED
  BY <1>2

\* A waiter that is woken: its call is not over.
LEMMA WokenCall ==
  ASSUME TaskInv, CallInv, NEW t \in Task, OneMoves(k, k', t), k.task_state[t] \in Pending,
         k'.task_state[t] \in Awake, UNCHANGED <<call, loop, sys>>,
         pc' = pc \/ (Caller /\ Resched)
  PROVE  CallInv'
<1>1. ASSUME NEW u \in Task, pc'[u] \in {"run", "resched"}
      PROVE  pc[u] \in {"run", "resched"}
  BY <1>1, FromRun DEF CallInv
<1>2. ASSUME NEW u \in Task, k'.task_state[u] # "DELETED"
      PROVE  CallOK(u)'
  <2>1. CASE u = t
    <3>1. CallOK(t) /\ k'.task_state[t] \notin Pending \cup Timed
      BY DEF CallInv, Awake, Pending, Timed
    <3> QED
      BY <1>1, <2>1, <3>1 DEF CallOK
  <2>2. CASE u # t
    <3>1. k'.task_state[u] = k.task_state[u] /\ k'.block_obj[u] = k.block_obj[u] /\ CallOK(u)
      BY <1>2, <2>2 DEF CallInv, OneMoves
    <3> QED
      BY <1>1, <3>1 DEF CallOK
  <2> QED
    BY <2>1, <2>2
<1>3. k'.live = k.live /\ active' = active
  BY DEF OneMoves, active
<1>4. FreeAt'
  BY <1>3 DEF CallInv, FreeAt, sys, Resched, Caller, TaskRuns, TaskAt, IsrRuns, NoLoop
<1>5. WakeLive'
  BY <1>3 DEF CallInv, WakeLive
<1> QED
  BY <1>2, <1>4, <1>5 DEF CallInv
=============================================================================
