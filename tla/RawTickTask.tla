---------------------------- MODULE RawTickTask ----------------------------
(***************************************************************************)
(* The default configuration of the tick (CONFIG_RAW_TICK_TASK = 1): the   *)
(* interrupt puts a semaphore (raw_system.c, raw_task_sem.c) and a task of *)
(* the kernel, tick_task_obj, takes one token per tick and runs            *)
(* tick_list_update (raw_tick.c).  It does so in a critical section that   *)
(* is not followed by raw_sched().                                         *)
(***************************************************************************)
EXTENDS RawSem

CONSTANTS
  TickTask,  \* tick_task_obj
  TickSem    \* tick_semaphore_obj, the task semaphore of TickTask

ASSUME TickAssumption ==
  /\ TickTask \in SystemTask \ {Idle} /\ TickSem \in Sem
  /\ TickTask \in BootTask \cap AutoStart /\ TickSem \in BootObj

VARIABLES
  in_hand,   \* TickTask has a token and has not run tick_list_update for it
  irq        \* tick interrupts so far, modulo TickMod (no variable of the code)

tickVars == <<k, sys, pc, call, loop, count, in_hand, irq>>

TickInit == SemInit /\ in_hand = FALSE /\ irq = 0

\* Mutant: a binary semaphore, which forgets a tick while the task is busy.
raw_time_tick_put_Binary ==
  /\ IsrRuns
  /\ IF Waiters(TickSem) = <<>>
     THEN k' = k /\ count' = [count EXCEPT ![TickSem] = 1]
     ELSE k' = wake_up(k, Head(Waiters(TickSem)), "OK") /\ UNCHANGED count
  /\ slice_due' = slice_due \cup {raw_int_nesting}
  /\ irq' = (irq + 1) % TickMod
  /\ UNCHANGED <<raw_os_active, raw_sched_lock, raw_int_nesting, pc, call, loop, in_hand>>

\* The interrupt: raw_task_semaphore_put(&tick_task_obj), then the time slice.
\* Bound: fewer than SemMax ticks are outstanding.
raw_time_tick_put ==
  /\ IsrRuns
  /\ count[TickSem] < SemMax
  /\ IF Waiters(TickSem) = <<>>
     THEN k' = k /\ count' = [count EXCEPT ![TickSem] = @ + 1]
     ELSE k' = wake_up(k, Head(Waiters(TickSem)), "OK") /\ UNCHANGED count
  /\ slice_due' = slice_due \cup {raw_int_nesting}
  /\ irq' = (irq + 1) % TickMod
  /\ UNCHANGED <<raw_os_active, raw_sched_lock, raw_int_nesting, pc, call, loop, in_hand>>

\* tick_task_process: get a token ...
tick_task_take ==
  /\ TaskAt("run") /\ active = TickTask /\ ~ in_hand
  /\ count[TickSem] > 0
  /\ count' = [count EXCEPT ![TickSem] = @ - 1]
  /\ in_hand' = TRUE
  /\ UNCHANGED <<k, sys, pc, call, loop, irq>>

tick_task_wait ==
  /\ TaskAt("run") /\ active = TickTask /\ ~ in_hand
  /\ count[TickSem] = 0 /\ MayStop(TickTask)
  /\ k' = raw_pend_object(k, TickSem, TickTask, 0)
  /\ Block(TickSem)
  /\ UNCHANGED <<sys, loop, count, in_hand, irq>>

tick_task_woken ==
  /\ active = TickTask
  /\ block_state_post_process
  /\ in_hand' = (k.block_status[TickTask] = "OK")
  /\ UNCHANGED <<count, irq>>

\* Mutant: the tick is counted, tick_list_update is not called.
tick_task_update_OnlyCounts ==
  /\ TaskAt("run") /\ active = TickTask /\ in_hand
  /\ k' = [k EXCEPT !.raw_tick_count = (@ + 1) % TickMod]
  /\ in_hand' = FALSE
  /\ UNCHANGED <<sys, pc, call, loop, count, irq>>

\* ... and run tick_list_update.
tick_task_update ==
  /\ TaskAt("run") /\ active = TickTask /\ in_hand
  /\ k' = [k EXCEPT !.raw_tick_count = (@ + 1) % TickMod]
  /\ loop' = [NoLoop EXCEPT !.op = "tick"]
  /\ in_hand' = FALSE
  /\ UNCHANGED <<sys, pc, call, count, irq>>

tick_task_done ==
  /\ loop.op = "tick" /\ ~ Due
  /\ loop' = NoLoop
  /\ UNCHANGED <<k, sys, pc, call, count, in_hand, irq>>

OtherStep ==
  /\ \/ KernelNext /\ UNCHANGED count
     \/ raw_semaphore_create(TickSem, 0)
  /\ ~ (block_state_post_process /\ active = TickTask)
  /\ UNCHANGED <<in_hand, irq>>

TickNext ==
  \/ raw_time_tick_put
  \/ tick_task_take
  \/ tick_task_wait
  \/ tick_task_woken
  \/ tick_task_update
  \/ tick_task_done
  \/ OtherStep

TickSpec == TickInit /\ [][TickNext]_tickVars

-----------------------------------------------------------------------------

outstanding ==
  count[TickSem]
    + IF in_hand \/ (call[TickTask] = TickSem /\ k.task_state[TickTask] \notin Pending)
      THEN 1 ELSE 0

\* raw_tick_count lags behind the interrupts by exactly the ticks that are on
\* their way to the tick task: none is lost between the interrupt, the
\* semaphore and the task, and none counts twice.
NoTickLost == (irq - k.raw_tick_count) % TickMod = outstanding % TickMod

\* Only the tick task may hold the processor while a more urgent task is ready,
\* because nothing calls raw_sched() after its tick_list_update.
DispatchExceptTick == DispatchOK \/ k.raw_task_active = TickTask

\* As TaskFairness; besides, interrupts leave the processor to the tasks again
\* and again, so that a kernel step ahead of the active task is taken.
TickFairness ==
  /\ SF_tickVars(raw_enter_interrupt /\ raw_int_nesting = 0 /\ OtherStep)
  /\ SF_tickVars(raw_time_tick_put)
  /\ SF_tickVars(raw_finish_int /\ raw_int_nesting = 1 /\ OtherStep)
  /\ SF_tickVars(time_slice_step /\ OtherStep)
  /\ WF_tickVars(tick_list_update /\ OtherStep)
  /\ WF_tickVars(tick_task_done)
  /\ SF_tickVars((raw_sched \/ block_state_post_process) /\ OtherStep)
  /\ SF_tickVars(tick_task_woken)
  /\ SF_tickVars(tick_task_take \/ tick_task_wait \/ tick_task_update)

FairTickSpec == TickSpec /\ TickFairness

\* Every wait with a timeout ends although the tick list is only updated when
\* the tick task gets the processor, if no task keeps the scheduler locked and
\* none more urgent than the tick task keeps the processor.
TimedWaitEndsUnlocked ==
  []<>(raw_sched_lock = 0 /\ k.highest_priority >= k.priority[TickTask]) => TimedWaitEnds
=============================================================================
