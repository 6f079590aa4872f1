------------------------------ MODULE RawTask ------------------------------
(***************************************************************************)
(* Tasks, the scheduler, interrupts and the tick (raw_task.c, raw_sched.c, *)
(* raw_system.c, raw_tick.c), in the configuration that runs               *)
(* tick_list_update in the tick interrupt (CONFIG_RAW_TICK_TASK = 0).      *)
(*                                                                         *)
(* A critical section is one action.  What follows it in an API function,  *)
(* raw_sched() and block_state_post_process(), are actions of their own:   *)
(* an interrupt may come in between, and other tasks may run.  A critical  *)
(* section with a loop is one action per round; "loop" holds its place and *)
(* nothing else runs until it is done, because interrupts are disabled.    *)
(***************************************************************************)
EXTENDS RawKernel

CONSTANTS
  InitPrio,      \* priority each task is created with
  InitSlice,     \* time_slice each task is created with
  AutoStart,     \* the tasks created with auto_start
  BootTask,      \* what main() creates before it calls raw_os_start;
  BootObj,       \* the rest is created there or later
  Delays,        \* arguments of raw_sleep; 0 gives up the processor
  Timeouts,      \* timeouts of the calls that wait for an object: 0 is RAW_WAIT_FOREVER
  Suspendable,   \* targets of raw_task_suspend and raw_task_resume
  Deletable,     \* targets of raw_task_delete
  Abortable,     \* targets of raw_task_wait_abort
  NewPrio,       \* <<task, priority>> arguments of raw_task_priority_change
  NewSlice,      \* <<task, slice>> arguments of raw_task_time_slice_change
  NewSchedWay,   \* targets of raw_set_sched_way
  NewTime,       \* arguments of raw_system_time_set
  MaxLock,       \* 250: how deep raw_disable_sche nests
  MaxNest,       \* INT_NESTED_LEVEL
  SuspendLimit,  \* 250: a suspend_count this high is an error
  ByteMod,       \* 256: suspend_count is a RAW_U8
  Redelete,      \* does the application pass blocks of deleted tasks to raw_task_delete?
  SystemTask     \* the kernel's own tasks, which make no other calls than theirs

VARIABLES
  k,                \* the kernel data structures
  raw_os_active,    \* RAW_OS_RUNNING?
  raw_sched_lock,
  raw_int_nesting,
  pc,               \* where each task is inside an API function
  call,             \* what a task inside a blocking call waits for
  slice_due,        \* the nesting levels inside raw_time_tick, before calculate_time_slice
  loop              \* the critical section in progress

ASSUME TaskAssumption ==
  /\ InitPrio \in [Task -> 0 .. PrioMax - 2]    \* IDLE_PRIORITY is refused
  /\ InitSlice \in [Task -> 1 .. TimeTotal]
  /\ AutoStart \subseteq Task
  /\ BootTask \subseteq Task /\ BootObj \subseteq Obj
  /\ Delays \subseteq Ticks /\ Timeouts \subseteq Ticks    \* RAW_TICK_TYPE
  /\ Suspendable \subseteq Task /\ Deletable \subseteq Task /\ Abortable \subseteq Task
  /\ NewPrio \subseteq Task \X (0 .. PrioMax - 2)
  /\ NewSlice \subseteq Task \X (1 .. TimeTotal)
  /\ NewSchedWay \subseteq Task /\ NewTime \subseteq Ticks
  /\ MaxLock \in Nat /\ MaxNest \in Nat
  /\ SuspendLimit \in Nat /\ ByteMod \in Nat /\ 1 < SuspendLimit /\ SuspendLimit < ByteMod
  /\ Redelete \in BOOLEAN
  /\ SystemTask \subseteq Task /\ Idle \in SystemTask
  /\ "none" \notin Obj /\ "sleep" \notin Obj    \* the other values of call

sys == <<raw_os_active, raw_sched_lock, raw_int_nesting, slice_due>>
taskVars == <<k, sys, pc, call, loop>>

\* "run": the task's own code.  "resched": before the raw_sched() that ends a
\* call.  "blocking": the same in a call that blocked.  "woken": before
\* block_state_post_process().
Place == {"run", "resched", "blocking", "woken"}
Call == {"none", "sleep"} \cup Obj

NoLoop == [op |-> "none", obj |-> NoObj, task |-> NoTask, status |-> "OK"]
Loop == [op     : {"none", "tick", "wake", "free"},
         obj    : Obj \cup {NoObj},
         task   : Task \cup {NoTask},
         status : {"OK", "DEL"}]

InitKernel ==
  [ task_ready_list  |-> [p \in Prio |-> IF p = IdlePrio THEN <<Idle>> ELSE <<>>],
    task_bit_map     |-> {IdlePrio},
    highest_priority |-> IdlePrio,
    raw_task_active  |-> Idle,
    task_state       |-> [t \in Task |-> IF t = Idle THEN "RDY" ELSE "DELETED"],
    priority         |-> [t \in Task |-> IF t = Idle THEN IdlePrio ELSE InitPrio[t]],
    bpriority        |-> [t \in Task |-> IF t = Idle THEN IdlePrio ELSE InitPrio[t]],
    suspend_count    |-> [t \in Task |-> 0],
    sched_fifo       |-> {},
    time_total       |-> InitSlice,
    time_slice       |-> InitSlice,
    block_status     |-> [t \in Task |-> "STALE"],
    block_obj        |-> [t \in Task |-> NoObj],
    block_list       |-> [o \in Obj |-> <<>>],
    live             |-> {},
    tick_head        |-> <<>>,
    tick_match       |-> [t \in Task |-> 0],
    raw_tick_count   |-> 0,
    mtxtsk           |-> [m \in Mutex |-> NoTask],
    owner_nested     |-> [m \in Mutex |-> 0],
    mtxnext          |-> [m \in Mutex |-> NoObj],
    mtxlist          |-> [t \in Task |-> NoObj],
    fault            |-> FALSE ]

\* raw_os_init has run.  A task block that was not created yet is treated as
\* that of a deleted task; before raw_os_start nothing reads raw_task_active.
TaskInit ==
  /\ k = InitKernel
  /\ raw_os_active = FALSE
  /\ raw_sched_lock = 0
  /\ raw_int_nesting = 0
  /\ pc = [t \in Task |-> "run"]
  /\ call = [t \in Task |-> "none"]
  /\ slice_due = {}
  /\ loop = NoLoop

active == k.raw_task_active

\* Who may call the API: the active task, from its own code, or an interrupt
\* handler.  The idle task makes no calls.
TaskAt(place) ==
  /\ raw_os_active /\ raw_int_nesting = 0 /\ loop = NoLoop
  /\ pc[active] = place
TaskRuns == TaskAt("run") /\ active \notin SystemTask
IsrRuns == raw_int_nesting > 0 /\ loop = NoLoop /\ raw_int_nesting \notin slice_due
Boot == ~ raw_os_active /\ loop = NoLoop
Caller == TaskRuns \/ IsrRuns

Waiters(o) == k.block_list[o]

\* Mutant: raw_sched() is forgotten.
Resched_Forgotten == pc' = pc

\* After its critical section a call has raw_sched() ahead; in an interrupt
\* handler raw_sched() returns at once.
Resched == pc' = IF raw_int_nesting = 0 THEN [pc EXCEPT ![active] = "resched"] ELSE pc

\* The active task is blocked in a call on c.
Block(c) ==
  /\ pc' = [pc EXCEPT ![active] = "blocking"]
  /\ call' = [call EXCEPT ![active] = c]

\* Mutant: nobody looks at the scheduler lock before a task is blocked.
MayStop_Unchecked(t) == TRUE

\* SYSTEM_LOCK_PROCESS(): a task is not descheduled while the scheduler is locked.
MayStop(t) == t = active => raw_sched_lock = 0

-----------------------------------------------------------------------------
(* raw_sched.c, raw_system.c: the scheduler and the interrupt exit.         *)

raw_os_start ==
  /\ ~ raw_os_active
  /\ BootObj \subseteq k.live /\ \A t \in BootTask : k.task_state[t] # "DELETED"
  /\ raw_os_active' = TRUE
  /\ k' = get_ready_task(k)
  /\ UNCHANGED <<raw_sched_lock, raw_int_nesting, pc, call, slice_due, loop>>

raw_sched ==
  /\ TaskAt("resched") \/ TaskAt("blocking")
  /\ k' = IF raw_sched_lock > 0 THEN k ELSE get_ready_task(k)
  /\ pc' = [pc EXCEPT ![active] = IF @ = "resched" THEN "run" ELSE "woken"]
  /\ UNCHANGED <<sys, call, loop>>

block_state_post_process ==
  /\ TaskAt("woken")
  /\ k' = [k EXCEPT !.block_status[active] = "STALE"]
  /\ pc' = [pc EXCEPT ![active] = "run"]
  /\ call' = [call EXCEPT ![active] = "none"]
  /\ UNCHANGED <<sys, loop>>

raw_enter_interrupt ==
  /\ raw_os_active /\ loop = NoLoop
  /\ raw_int_nesting < MaxNest
  /\ raw_int_nesting' = raw_int_nesting + 1
  /\ UNCHANGED <<k, raw_os_active, raw_sched_lock, pc, call, slice_due, loop>>

\* Mutants: no task is chosen at the exit; one is chosen although the scheduler
\* is locked.
raw_finish_int_NoSwitch ==
  /\ IsrRuns
  /\ raw_int_nesting' = raw_int_nesting - 1
  /\ UNCHANGED <<k, raw_os_active, raw_sched_lock, pc, call, slice_due, loop>>
raw_finish_int_IgnoresLock ==
  /\ IsrRuns
  /\ raw_int_nesting' = raw_int_nesting - 1
  /\ k' = IF raw_int_nesting' > 0 THEN k ELSE get_ready_task(k)
  /\ UNCHANGED <<raw_os_active, raw_sched_lock, pc, call, slice_due, loop>>

raw_finish_int ==
  /\ IsrRuns
  /\ raw_int_nesting' = raw_int_nesting - 1
  /\ k' = IF raw_int_nesting' > 0 \/ raw_sched_lock > 0 THEN k ELSE get_ready_task(k)
  /\ UNCHANGED <<raw_os_active, raw_sched_lock, pc, call, slice_due, loop>>

raw_disable_sche ==
  /\ TaskRuns
  /\ raw_sched_lock < MaxLock
  /\ raw_sched_lock' = raw_sched_lock + 1
  /\ UNCHANGED <<k, raw_os_active, raw_int_nesting, pc, call, slice_due, loop>>

raw_enable_sche ==
  /\ TaskRuns
  /\ raw_sched_lock > 0
  /\ raw_sched_lock' = raw_sched_lock - 1
  /\ IF raw_sched_lock' = 0 THEN Resched ELSE UNCHANGED pc
  /\ UNCHANGED <<k, raw_os_active, raw_int_nesting, call, slice_due, loop>>

-----------------------------------------------------------------------------
(* raw_task.c.  A call that returns an error without touching the state has *)
(* no action.                                                               *)

raw_task_create(t) ==
  /\ Boot \/ TaskRuns
  /\ k.task_state[t] = "DELETED" /\ t # Idle
  /\ LET K1 == [k EXCEPT
               !.task_state[t]    = IF t \in AutoStart THEN "RDY" ELSE "SUSPENDED",
               !.suspend_count[t] = IF t \in AutoStart THEN 0 ELSE 1,
               !.priority[t]      = InitPrio[t],
               !.bpriority[t]     = InitPrio[t],
               !.sched_fifo       = @ \ {t},
               !.time_total[t]    = InitSlice[t],
               !.time_slice[t]    = InitSlice[t],
               !.block_status[t]  = "STALE",
               !.block_obj[t]     = NoObj,
               !.mtxlist[t]       = NoObj]
     IN  k' = IF t \in AutoStart THEN add_ready_list_end(K1, t) ELSE K1
  /\ pc' = [u \in Task |-> IF u = t THEN "run"
                           ELSE IF u = active /\ raw_os_active /\ t \in AutoStart
                                THEN "resched" ELSE pc[u]]
  /\ call' = [call EXCEPT ![t] = "none"]
  /\ UNCHANGED <<sys, loop>>

raw_sleep(dly) ==
  /\ TaskRuns
  /\ IF dly = 0
     THEN /\ k' = move_to_ready_list_end(k, active)
          /\ Resched /\ UNCHANGED call
     ELSE /\ MayStop(active)
          /\ k' = remove_ready_list(
                    tick_list_insert([k EXCEPT !.task_state[active] = "DLY"], active, dly),
                    active)
          /\ Block("sleep")
  /\ UNCHANGED <<sys, loop>>

SuspendedState(s) ==
  CASE s = "RDY"          -> "SUSPENDED"
    [] s = "DLY"          -> "DLY_SUSPENDED"
    [] s = "PEND"         -> "PEND_SUSPENDED"
    [] s = "PEND_TIMEOUT" -> "PEND_TIMEOUT_SUSPENDED"

raw_task_suspend(t) ==
  /\ Caller
  /\ t # Idle /\ MayStop(t)
  /\ k.task_state[t] \notin Suspended \cup {"DELETED"}
  /\ LET K1 == [k EXCEPT !.suspend_count[t] = 1,
                         !.task_state[t] = SuspendedState(@)]
     IN  k' = IF k.task_state[t] = "RDY" THEN remove_ready_list(K1, t) ELSE K1
  /\ Resched
  /\ UNCHANGED <<sys, call, loop>>

\* The count stays incremented when the call fails.
raw_task_suspend_again(t) ==
  /\ Caller
  /\ MayStop(t)
  /\ k.task_state[t] \in Suspended
  /\ k' = [k EXCEPT !.suspend_count[t] = (@ + 1) % ByteMod]
  /\ IF k'.suspend_count[t] >= SuspendLimit THEN UNCHANGED pc ELSE Resched
  /\ UNCHANGED <<sys, call, loop>>

ResumedState(s) ==
  CASE s = "SUSPENDED"              -> "RDY"
    [] s = "DLY_SUSPENDED"          -> "DLY"
    [] s = "PEND_SUSPENDED"         -> "PEND"
    [] s = "PEND_TIMEOUT_SUSPENDED" -> "PEND_TIMEOUT"

raw_task_resume(t) ==
  /\ Caller
  /\ k.task_state[t] \in Suspended
  /\ LET K1 == [k EXCEPT !.suspend_count[t] = (@ + ByteMod - 1) % ByteMod]
         K2 == [K1 EXCEPT !.task_state[t] = ResumedState(@)]
     IN  k' = IF K1.suspend_count[t] # 0 THEN K1
              ELSE IF K2.task_state[t] = "RDY" THEN add_ready_list(K2, t) ELSE K2
  /\ Resched
  /\ UNCHANGED <<sys, call, loop>>

raw_task_priority_change(t, p) ==
  /\ TaskRuns
  /\ k.priority[t] < IdlePrio
  /\ ~ exceeds_ceiling(k, t, p)
  /\ k' = change_internal_task_priority([k EXCEPT !.bpriority[t] = p], t,
                                        chg_pri_mutex(k, t, p))
  /\ IF k.task_state[t] = "DELETED" THEN UNCHANGED pc ELSE Resched
  /\ UNCHANGED <<sys, call, loop>>

raw_task_wait_abort(t) ==
  /\ TaskRuns
  /\ k.task_state[t] # "DELETED"
  /\ k' = wait_abort(k, t)
  /\ Resched
  /\ UNCHANGED <<sys, call, loop>>

raw_task_time_slice_change(t, n) ==
  /\ TaskRuns
  /\ k' = [k EXCEPT !.time_total[t] = n, !.time_slice[t] = n]
  /\ UNCHANGED <<sys, pc, call, loop>>

raw_set_sched_way(t) ==
  /\ TaskRuns
  /\ \E policy \in {{}, {t}} : k' = [k EXCEPT !.sched_fifo = (@ \ {t}) \cup policy]
  /\ UNCHANGED <<sys, pc, call, loop>>

\* raw_task_free_mutex comes before the test of the task's state.
raw_task_delete(t) ==
  /\ TaskRuns
  /\ t # Idle /\ MayStop(t)
  /\ k.task_state[t] # "DELETED" \/ Redelete
  /\ loop' = [NoLoop EXCEPT !.op = "free", !.task = t, !.obj = k.mtxlist[t]]
  /\ UNCHANGED <<k, sys, pc, call>>

FreeMutex ==
  /\ loop.op = "free" /\ loop.obj # NoObj
  /\ k' = free_one_mutex(k, loop.obj)
  /\ loop' = [loop EXCEPT !.obj = k.mtxnext[loop.obj]]
  /\ UNCHANGED <<sys, pc, call>>

FinishDelete ==
  /\ loop.op = "free" /\ loop.obj = NoObj
  /\ LET t       == loop.task
         s       == k.task_state[t]
         Gone(K) == [K EXCEPT !.task_state[t] = "DELETED"]
     IN  /\ k' = CASE s = "RDY" -> Gone(remove_ready_list(k, t))
                   [] s = "SUSPENDED" -> Gone(k)
                   [] s \in {"DLY", "DLY_SUSPENDED"} -> Gone(tick_list_remove(k, t))
                   [] s \in Pending ->
                        mutex_state_change(Gone(unlink_blocked(tick_list_remove(k, t), t)), t)
                   [] OTHER -> k
         /\ IF s = "DELETED" THEN UNCHANGED pc ELSE Resched
  /\ loop' = NoLoop
  /\ UNCHANGED <<sys, call>>

-----------------------------------------------------------------------------
(* raw_system.c, raw_tick.c: the tick interrupt.                            *)

raw_time_tick ==
  /\ IsrRuns
  /\ k' = [k EXCEPT !.raw_tick_count = (@ + 1) % TickMod]
  /\ loop' = [NoLoop EXCEPT !.op = "tick"]
  /\ UNCHANGED <<sys, pc, call>>

raw_system_time_set(time) ==
  /\ TaskRuns
  /\ k' = [k EXCEPT !.raw_tick_count = time]
  /\ UNCHANGED <<sys, pc, call, loop>>

Due == k.tick_head # <<>> /\ k.tick_match[Head(k.tick_head)] = k.raw_tick_count

tick_list_update ==
  /\ loop.op = "tick" /\ Due
  /\ k' = tick_expire(k, Head(k.tick_head))
  /\ UNCHANGED <<sys, pc, call, loop>>

tick_list_done ==
  /\ loop.op = "tick" /\ ~ Due
  /\ loop' = NoLoop
  /\ slice_due' = slice_due \cup {raw_int_nesting}
  /\ UNCHANGED <<k, raw_os_active, raw_sched_lock, raw_int_nesting, pc, call>>

\* raw_time_tick goes on with calculate_time_slice: a nested interrupt may
\* have come in between.
time_slice_step ==
  /\ loop = NoLoop /\ raw_int_nesting \in slice_due
  /\ k' = calculate_time_slice(k, k.priority[active])
  /\ slice_due' = slice_due \ {raw_int_nesting}
  /\ UNCHANGED <<raw_os_active, raw_sched_lock, raw_int_nesting, pc, call, loop>>

-----------------------------------------------------------------------------

\* What every configuration has: all but the tick interrupt.
KernelNext ==
  \/ raw_os_start
  \/ raw_sched
  \/ block_state_post_process
  \/ raw_enter_interrupt
  \/ raw_finish_int
  \/ raw_disable_sche
  \/ raw_enable_sche
  \/ tick_list_update
  \/ time_slice_step
  \/ FreeMutex
  \/ FinishDelete
  \/ \E dly \in Delays : raw_sleep(dly)
  \/ \E t \in Task : raw_task_create(t)
  \/ \E t \in Suspendable :
       raw_task_suspend(t) \/ raw_task_suspend_again(t) \/ raw_task_resume(t)
  \/ \E t \in Deletable : raw_task_delete(t)
  \/ \E t \in Abortable : raw_task_wait_abort(t)
  \/ \E tp \in NewPrio : raw_task_priority_change(tp[1], tp[2])
  \/ \E ts \in NewSlice : raw_task_time_slice_change(ts[1], ts[2])
  \/ \E t \in NewSchedWay : raw_set_sched_way(t)
  \/ \E time \in NewTime : raw_system_time_set(time)

TaskNext == KernelNext \/ raw_time_tick \/ tick_list_done

TaskSpec == TaskInit /\ [][TaskNext]_taskVars

-----------------------------------------------------------------------------
(* Correctness.                                                             *)

\* Every variable has the type of the C object it stands for.
TaskTypeOK ==
  /\ k \in KernelState
  /\ raw_os_active \in BOOLEAN
  /\ raw_sched_lock \in 0 .. MaxLock
  /\ raw_int_nesting \in 0 .. MaxNest
  /\ pc \in [Task -> Place]
  /\ call \in [Task -> Call]
  /\ slice_due \subseteq 0 .. MaxNest
  /\ loop \in Loop

\* The state of a task says which lists its block is linked on, and it is
\* linked there once: every function of raw_pend.c, raw_tick.c and raw_task.c
\* changes task_state and the lists by hand, and a task on a list it should
\* not be on is a dangling link.
ListsOK == Once(k) /\ \A t \in Task : LinkedAs(k, t)

\* The bitmap and highest_priority cache which ready lists are not empty
\* (raw_pend.c): get_ready_task takes the first element of that list unchecked.
HighestOK == IndexOK(k)

\* port_system_error_process is never called and no null pointer is followed:
\* the "default:" of a switch on task_state, an empty ready queue, a mutex with
\* waiters and no owner.
NoFault == ~ k.fault

\* A task that executes its own code, with interrupts and scheduler enabled, is
\* the head of the most urgent ready list, whatever happened between the
\* critical section of a call and the raw_sched() that ends it.
DispatchOK ==
  raw_sched_lock = 0 /\ (TaskAt("run") \/ TaskAt("woken"))
    => k.raw_task_active = HighestReady(k)

\* While the scheduler is locked the processor stays with the task that locked
\* it, which stays ready (raw_disable_sche, SYSTEM_LOCK_PROCESS): calls that
\* would block or stop it return an error, also from an interrupt handler.
LockHolds ==
  [][raw_sched_lock > 0 =>
       /\ k'.raw_task_active = k.raw_task_active
       /\ k'.task_state[active] = "RDY"]_taskVars

\* A task that stopped itself or was stopped by an interrupt handler executes
\* nothing but the way to the next choice of a task, and this choice is made:
\* the scheduler is not locked (SYSTEM_LOCK_PROCESS came before the stop).
StoppedTaskLeaves ==
  k.task_state[active] # "RDY" =>
    /\ raw_sched_lock = 0
    /\ raw_int_nesting > 0 \/ pc[active] \in {"resched", "blocking"}

\* What the critical sections with a loop carry from one round to the next.
LoopOK ==
  loop.op = "free" => /\ loop.obj \in Mutex \cup {NoObj}
                      /\ loop.task \in Task \ {Idle} /\ MayStop(loop.task)

\* All of it together is preserved by every step of the kernel, from any state.
TaskInv ==
  /\ TaskTypeOK /\ Consistent(k)
  /\ StoppedTaskLeaves /\ LoopOK
  /\ raw_os_active \/ (raw_sched_lock = 0 /\ raw_int_nesting = 0 /\ active = Idle)

\* No deadline is missed: outside the loop of tick_list_update, which compares
\* tick_match with raw_tick_count for equality and stops at the first task that
\* is not due, the tasks on the tick list are in the order of the ticks they
\* still have to wait, also when raw_tick_count wraps, and none has waited them all.
NoMissedTick ==
  /\ loop.op # "tick" => \A t \in Task : In(t, k.tick_head) => tick_remain(k, t) > 0
  /\ Sorted(k.tick_head, tick_remains(k))

\* Whatever ends the wait of a task that is suspended as well (wake-up by a put or a
\* hand-over, timeout, deleted object, freed mutex of a dead owner) leaves it
\* suspended: only raw_task_resume and raw_task_wait_abort of that very task make it
\* go on, and raw_task_delete ends it.
SuspensionHolds ==
  [][\A t \in Task :
       k.task_state[t] \in Suspended
         => \/ k'.task_state[t] \in Suspended \cup {"DELETED"}
            \/ raw_task_resume(t) \/ raw_task_wait_abort(t)]_taskVars

\* The status that block_state_post_process reads was written by the wake-up of
\* this very wait, however long ago that was and whoever ran since.
FreshStatus ==
  TaskAt("woken") => k.block_status[active] # "STALE"

\* The tick interrupt keeps coming and interrupt handlers end, also nested ones;
\* a task that returns from a critical section goes on.  Nothing is assumed of
\* the tasks.
TaskFairness ==
  /\ SF_taskVars(raw_enter_interrupt /\ raw_int_nesting = 0)
  /\ SF_taskVars(raw_time_tick)
  /\ \A n \in 1 .. MaxNest : /\ SF_taskVars(time_slice_step /\ raw_int_nesting = n)
                             /\ SF_taskVars(raw_finish_int /\ raw_int_nesting = n)
  /\ WF_taskVars(tick_list_update \/ tick_list_done \/ FreeMutex \/ FinishDelete)
  /\ WF_taskVars(raw_sched \/ block_state_post_process)

FairTaskSpec == TaskSpec /\ TaskFairness

\* Every wait with a timeout ends: the task leaves the tick list.
TimedWaitEnds ==
  \A t \in Task : k.task_state[t] \in Timed ~> k.task_state[t] \notin Timed

\* When a more urgent task is ready and the scheduler is not locked, the
\* processor is given to the most urgent one, unless the scheduler is locked first.
Preemption ==
  raw_os_active /\ k.raw_task_active # HighestReady(k)
    ~> k.raw_task_active = HighestReady(k) \/ raw_sched_lock > 0
=============================================================================
