--------------------------- MODULE RawTickProofs ---------------------------
(***************************************************************************)
(* The configuration with the tick task: only this task may execute while  *)
(* a more urgent one is ready, and between the interrupt, the semaphore    *)
(* and the task no tick is lost or counted twice.                          *)
(***************************************************************************)
EXTENDS RawTickTask, RawTaskProofs

\* What holds of the semaphore of the tick task and of who waits for it.
TickBase ==
  /\ TaskInv
  /\ \A t \in Task : k.task_state[t] \in Pending =>
       t = TickTask /\ k.block_obj[t] = TickSem /\ raw_os_active
  /\ raw_os_active => TickSem \in k.live
  /\ slice_due \subseteq 1 .. MaxNest

\* The tick list is looked at by the tick task, which may go on while a more
\* urgent task is ready.
TickAlone ==
  /\ loop.op = "tick" => active = TickTask
  /\ DispatchInv \/ active = TickTask

LEMMA TickObjects ==
  /\ TickTask \in Task \ {Idle} /\ TickTask \in SystemTask /\ TickTask \in BootTask
  /\ TickSem \in Obj \ Mutex /\ TickSem \in Sem /\ TickSem \in BootObj
BY TickAssumption, SemAssumption, TaskAssumption

LEMMA WaitersOfTick ==
  ASSUME TickBase
  PROVE  /\ Waiters(TickSem) = <<>> <=> k.task_state[TickTask] \notin Pending
         /\ Waiters(TickSem) # <<>> => Head(Waiters(TickSem)) = TickTask
<1>1. TaskInv /\ TickSem \in Obj /\ TickTask \in Task
  BY TickObjects DEF TickBase
<1>2. \A t \in Task : WaitsFor(t, TickSem) <=> k.task_state[t] \in Pending
  BY DEF TickBase, WaitsFor
<1>3. NobodyWaits(TickSem) <=> k.task_state[TickTask] \notin Pending
  BY <1>1, <1>2 DEF NobodyWaits, TickBase
<1>4. Waiters(TickSem) # <<>> => WaitsFor(Head(Waiters(TickSem)), TickSem)
                                   /\ Head(Waiters(TickSem)) \in Task
  BY <1>1, FirstWaiter
<1>. QED
  BY <1>1, <1>2, <1>3, <1>4, EmptyList DEF TickBase

\* The tick task that executes its own code is ready.
LEMMA TickTaskRuns ==
  ASSUME TickBase, TaskAt("run"), active = TickTask
  PROVE  /\ k.task_state[TickTask] = "RDY" /\ raw_os_active /\ loop = NoLoop
         /\ raw_int_nesting = 0 /\ pc[TickTask] = "run"
<1>1. raw_os_active /\ loop = NoLoop /\ raw_int_nesting = 0 /\ pc[TickTask] = "run"
  BY DEF TaskAt
<1>. QED
  BY <1>1 DEF TickBase, TaskInv, StoppedTaskLeaves

-----------------------------------------------------------------------------
(* TickBase and TickAlone are preserved.                                    *)

LEMMA KernelStep ==
  ASSUME TickBase, KernelNext
  PROVE  TickBase'
<1>1. TaskInv /\ TaskInv' /\ Calm
  BY KernelNextInv DEF TickBase, Preserved
<1>2. slice_due' \subseteq slice_due /\ (raw_os_active' = raw_os_active \/ raw_os_start)
  BY <1>1, KernelNextTick
<1>3. raw_os_active' => TickSem \in k'.live
  <2>1. raw_os_start => TickSem \in k.live
    BY TickObjects DEF raw_os_start
  <2>. QED
    BY <1>1, <1>2, <2>1 DEF TickBase, Calm
<1>4. ASSUME NEW t \in Task, k'.task_state[t] \in Pending
      PROVE  t = TickTask /\ k'.block_obj[t] = TickSem /\ raw_os_active'
  <2>1. k.task_state[t] \in Pending /\ k'.block_obj[t] = k.block_obj[t]
    BY <1>1, <1>4 DEF Calm, StartsNoWait
  <2>2. raw_os_start => raw_os_active'
    BY DEF raw_os_start
  <2>. QED
    BY <1>2, <2>1, <2>2 DEF TickBase
<1>. QED
  BY <1>1, <1>2, <1>3, <1>4 DEF TickBase

\* The processor changes hands where a task is chosen.
LEMMA ProcessorMoves ==
  ASSUME TaskInv, KernelNext, active' # active
  PROVE  raw_os_start \/ raw_sched \/ raw_finish_int
<1>1. \/ active' = active
      \/ raw_os_start \/ raw_sched \/ block_state_post_process \/ raw_enter_interrupt
         \/ raw_finish_int \/ raw_disable_sche \/ raw_enable_sche
  BY KernelNextInv DEF Preserved, active
<1>2. block_state_post_process => active' = active
  BY PostProcess
<1>3. raw_enter_interrupt \/ raw_disable_sche \/ raw_enable_sche => active' = active
  BY DEF raw_enter_interrupt, raw_disable_sche, raw_enable_sche, active
<1>. QED
  BY <1>1, <1>2, <1>3

LEMMA KernelAlone ==
  ASSUME TickBase, TickAlone, KernelNext, Mutex = {}
  PROVE  TickAlone'
<1>1. TaskInv /\ (loop'.op = "tick" => loop.op = "tick")
  BY KernelNextTick DEF TickBase
<1>2. CASE loop.op = "tick"
  <2>1. active = TickTask /\ loop # NoLoop
    BY <1>2, NoLoopOK DEF TickAlone
  <2>2. raw_os_active
    BY <1>1, <2>1, TickObjects DEF TaskInv
  <2>3. ~ (raw_os_start \/ raw_sched \/ raw_finish_int)
    BY <2>1, <2>2 DEF raw_os_start, raw_sched, raw_finish_int, TaskAt, IsrRuns
  <2>4. active' = active
    BY <1>1, <2>3, ProcessorMoves
  <2>. QED
    BY <2>1, <2>4 DEF TickAlone
<1>3. CASE loop.op # "tick"
  <2>1. DispatchInv' \/ active' = TickTask
    <3>1. CASE DispatchInv
      <4>1. TicksInInterrupt
        BY <1>3 DEF TickBase, TicksInInterrupt
      <4>. QED
        BY <1>1, <3>1, <4>1, DispatchNext DEF TaskNext
    <3>2. CASE active = TickTask /\ active' # active
      BY <1>1, <3>2, ProcessorMoves, ChoiceDispatch
    <3>. QED
      BY <3>1, <3>2 DEF TickAlone
  <2>. QED
    BY <1>1, <1>3, <2>1 DEF TickAlone
<1>. QED
  BY <1>2, <1>3

LEMMA CreateStep ==
  ASSUME TickBase, raw_semaphore_create(TickSem, 0)
  PROVE  /\ TickBase' /\ (TickAlone => TickAlone')
         /\ k'.task_state = k.task_state /\ k'.block_status = k.block_status
         /\ k'.raw_tick_count = k.raw_tick_count /\ TickSem \notin k.live
<1>1. /\ TaskInv /\ TickSem \in Obj /\ TickSem \notin k.live
      /\ UNCHANGED <<sys, pc, call, loop>> /\ ~ raw_os_active
      /\ k' = [k EXCEPT !.block_list[TickSem] = <<>>, !.live = @ \cup {TickSem}]
  BY TickObjects DEF TickBase, raw_semaphore_create
<1>2. loop = NoLoop
  BY DEF raw_semaphore_create, Boot, Caller, TaskRuns, TaskAt, IsrRuns
<1>3. NobodyWaits(TickSem)
  BY <1>1 DEF TickBase, NobodyWaits, WaitsFor
<1>4. /\ TaskInv' /\ k'.live = k.live \cup {TickSem} /\ SameQueue(k, k')
      /\ k'.task_state = k.task_state /\ k'.block_obj = k.block_obj
      /\ k'.block_status = k.block_status /\ k'.raw_task_active = k.raw_task_active
      /\ k'.raw_tick_count = k.raw_tick_count
  BY <1>1, <1>2, <1>3, NewObject
<1>5. TickBase'
  BY <1>1, <1>4 DEF TickBase, sys
<1>6. DispatchInv => DispatchInv'
  BY <1>1, <1>4, Unmoved DEF sys, active
<1>. QED
  BY <1>1, <1>4, <1>5, <1>6 DEF TickAlone, active

\* The interrupt wakes the tick task or counts a token.
LEMMA PutStep ==
  ASSUME TickBase, raw_time_tick_put
  PROVE  /\ TickBase' /\ TickAlone'
         /\ k'.raw_tick_count = k.raw_tick_count /\ k'.live = k.live
         /\ k'.task_state[TickTask] \notin Pending
         /\ \/ k' = k /\ k.task_state[TickTask] \notin Pending
            \/ /\ k.task_state[TickTask] \in Pending
               /\ k'.task_state[TickTask] \in Awake /\ k'.block_status[TickTask] = "OK"
<1>1. /\ TaskInv /\ raw_int_nesting > 0 /\ loop = NoLoop
      /\ UNCHANGED <<raw_os_active, raw_sched_lock, raw_int_nesting, pc, call, loop>>
      /\ slice_due' = slice_due \cup {raw_int_nesting}
      /\ raw_int_nesting \in 1 .. MaxNest
  BY TaskAssumption DEF TickBase, TaskInv, TaskTypeOK, raw_time_tick_put, IsrRuns
<1>2. \/ k' = k /\ k.task_state[TickTask] \notin Pending
      \/ k' = wake_up(k, TickTask, "OK") /\ k.task_state[TickTask] \in Pending
  BY WaitersOfTick DEF raw_time_tick_put
<1>3. k.task_state[TickTask] \in Pending =>
        /\ Moves(k, k', TickTask) /\ k'.task_state[TickTask] \in Awake
        /\ k'.block_status[TickTask] = "OK"
  BY <1>1, <1>2, InvFacts, TickObjects, wake_upMoves DEF BlockState
<1>4. /\ Consistent(k') /\ k'.raw_task_active = k.raw_task_active /\ k'.live = k.live
      /\ k'.raw_tick_count = k.raw_tick_count
      /\ \A u \in Task \ {TickTask} : k'.task_state[u] = k.task_state[u]
  BY <1>1, <1>2, <1>3, InvFacts DEF Moves, OneMoves
<1>5. k'.task_state[TickTask] \notin Pending
  BY <1>2, <1>3 DEF Awake, Pending
<1>6. TaskInv'
  <2>1. slice_due' \subseteq 0 .. MaxNest
    BY <1>1 DEF TaskInv, TaskTypeOK
  <2>2. TaskTypeOK' /\ LoopOK'
    BY <1>1, <1>4, <2>1, NoLoopOK, InvFacts DEF TaskInv, TaskTypeOK, LoopOK, Consistent
  <2>3. k'.task_state[active] # "RDY" => k.task_state[active] # "RDY"
    BY <1>1, <1>2, <1>4, InvFacts DEF Pending
  <2>4. StoppedTaskLeaves' /\ active' = active
    BY <1>1, <1>4, <2>3 DEF TaskInv, StoppedTaskLeaves, active
  <2>. QED
    BY <1>1, <1>4, <2>2, <2>4 DEF TaskInv
<1>7. TickBase'
  <2>1. \A t \in Task : k'.task_state[t] \notin Pending
    BY <1>4, <1>5 DEF TickBase
  <2>. QED
    BY <1>1, <1>4, <1>6, <2>1 DEF TickBase
<1>8. TickAlone'
  <2>1. DispatchInv'
    BY <1>1, InInterrupt
  <2>. QED
    BY <1>1, <2>1, NoLoopOK DEF TickAlone
<1>. QED
  BY <1>2, <1>3, <1>4, <1>5, <1>7, <1>8

LEMMA WaitStep ==
  ASSUME TickBase, tick_task_wait
  PROVE  /\ TickBase' /\ TickAlone'
         /\ k'.raw_tick_count = k.raw_tick_count /\ k'.live = k.live
         /\ k.task_state[TickTask] = "RDY" /\ k'.task_state[TickTask] \in Pending \ Timed
<1>1. /\ TaskAt("run") /\ active = TickTask /\ MayStop(TickTask)
      /\ k' = raw_pend_object(k, TickSem, TickTask, 0) /\ Block(TickSem)
      /\ UNCHANGED <<sys, loop>>
  BY DEF tick_task_wait
<1>2. /\ TaskInv /\ k.task_state[TickTask] = "RDY" /\ raw_os_active /\ loop = NoLoop
      /\ raw_sched_lock = 0
  BY <1>1, TickTaskRuns DEF TickBase, MayStop
<1>3. 0 \in Ticks
  BY KernelAssumption DEF Ticks
<1>4. /\ Moves(k, k', TickTask) /\ k'.block_obj[TickTask] = TickSem
      /\ k'.task_state[TickTask] = "PEND"
  BY <1>1, <1>2, <1>3, InvFacts, TickObjects, raw_pend_objectMoves
<1>5. k'.task_state[TickTask] \in Pending \ Timed
  BY <1>4 DEF Pending, Timed
<1>6. /\ pc' \in [Task -> Place] /\ call' \in [Task -> Call] /\ Ahead
      /\ loop' \in Loop /\ LoopOK'
  BY <1>1, <1>2, StepLoop, InvFacts, TickObjects DEF Block, Place, Call, Ahead
<1>7. TaskInv'
  BY <1>1, <1>2, <1>4, <1>6, OneTaskStep, TickObjects DEF Preserved
<1>8. TickBase'
  BY <1>1, <1>2, <1>4, <1>7 DEF TickBase, Moves, OneMoves, sys
<1>9. TickAlone'
  BY <1>1, <1>2, <1>4, NoLoopOK DEF TickAlone, Moves, OneMoves, active
<1>. QED
  BY <1>2, <1>4, <1>5, <1>8, <1>9 DEF Moves, OneMoves

\* The steps of the tick task on its own variables.
LEMMA OwnStep ==
  ASSUME TickBase, tick_task_take \/ tick_task_update \/ tick_task_done
  PROVE  /\ TickBase' /\ (TickAlone => TickAlone')
         /\ k'.task_state = k.task_state /\ k'.block_status = k.block_status
         /\ k'.live = k.live
<1>1. /\ TaskInv /\ UNCHANGED <<sys, pc, call>>
      /\ k' = k \/ k' = [k EXCEPT !.raw_tick_count = (@ + 1) % TickMod]
      /\ \/ loop' = loop /\ k' = k
         \/ loop' = NoLoop /\ k' = k
         \/ loop' = [NoLoop EXCEPT !.op = "tick"] /\ active = TickTask
  BY DEF TickBase, tick_task_take, tick_task_update, tick_task_done
<1>2. PICK n \in Ticks : k' = [k EXCEPT !.raw_tick_count = n]
  <2>1. k.raw_tick_count \in Ticks /\ k = [k EXCEPT !.raw_tick_count = k.raw_tick_count]
    BY <1>1, InvFacts DEF KernelState
  <2>2. (k.raw_tick_count + 1) % TickMod \in Ticks
    BY <2>1, KernelAssumption DEF Ticks
  <2>. QED
    BY <1>1, <2>1, <2>2
<1>3. loop' \in Loop /\ LoopOK'
  <2>1. CASE loop' = loop /\ k' = k
    BY <1>1, <2>1, InvFacts DEF TaskInv, LoopOK, MayStop, sys, active
  <2>2. CASE loop' = NoLoop
    BY <2>2, NoLoopOK DEF LoopOK
  <2>3. CASE loop' = [NoLoop EXCEPT !.op = "tick"]
    BY <2>3 DEF NoLoop, Loop, LoopOK
  <2>. QED
    BY <1>1, <2>1, <2>2, <2>3
<1>4. TaskInv'
  BY <1>1, <1>2, <1>3, ClockStep DEF Preserved
<1>5. /\ k'.task_state = k.task_state /\ k'.block_status = k.block_status
      /\ k'.block_obj = k.block_obj /\ k'.live = k.live
      /\ k'.raw_task_active = k.raw_task_active /\ SameQueue(k, k')
  BY <1>1, <1>2, InvFacts DEF KernelState, SameQueue
<1>6. TickBase'
  BY <1>1, <1>4, <1>5 DEF TickBase, sys
<1>7. DispatchInv => DispatchInv'
  BY <1>1, <1>5, Unmoved DEF sys, active
<1>8. TickAlone => TickAlone'
  BY <1>1, <1>5, <1>7, NoLoopOK DEF TickAlone, active
<1>. QED
  BY <1>5, <1>6, <1>8

LEMMA TickStart == TickInit => TickBase /\ TickAlone
<1>. SUFFICES ASSUME TickInit PROVE TickBase /\ TickAlone
  OBVIOUS
<1>1. TaskInit /\ TaskInv /\ loop = NoLoop /\ raw_os_active = FALSE /\ slice_due = {}
  BY TaskInitInv DEF TickInit, SemInit, TaskInit
<1>2. \A t \in Task : k.task_state[t] \notin Pending
  BY <1>1 DEF TaskInit, InitKernel, Pending
<1>3. DispatchInv
  BY <1>1 DEF DispatchInv, NothingAhead
<1>. QED
  BY <1>1, <1>2, <1>3, NoLoopOK DEF TickBase, TickAlone

LEMMA TickBaseNext == TickBase /\ [TickNext]_tickVars => TickBase'
<1>. SUFFICES ASSUME TickBase, [TickNext]_tickVars PROVE TickBase'
  OBVIOUS
<1>1. CASE UNCHANGED tickVars
  <2>1. UNCHANGED taskVars
    BY <1>1 DEF tickVars, taskVars
  <2>2. TaskInv'
    BY <2>1, TaskNextInv DEF TickBase
  <2>. QED
    BY <2>1, <2>2 DEF TickBase, taskVars, sys
<1>2. CASE KernelNext
  BY <1>2, KernelStep
<1>3. TickNext => \/ raw_time_tick_put \/ tick_task_wait \/ KernelNext
                  \/ tick_task_take \/ tick_task_update \/ tick_task_done
                  \/ raw_semaphore_create(TickSem, 0)
  BY DEF TickNext, OtherStep, tick_task_woken, KernelNext
<1>. QED
  BY <1>1, <1>2, <1>3, PutStep, WaitStep, OwnStep, CreateStep

LEMMA TickAloneNext ==
  ASSUME Mutex = {}
  PROVE  TickBase /\ TickAlone /\ [TickNext]_tickVars => TickAlone'
<1>. SUFFICES ASSUME TickBase, TickAlone, [TickNext]_tickVars PROVE TickAlone'
  OBVIOUS
<1>1. CASE UNCHANGED tickVars
  BY <1>1 DEF TickAlone, tickVars, sys, active, DispatchInv, NothingAhead
<1>2. CASE KernelNext
  BY <1>2, KernelAlone
<1>3. TickNext => \/ raw_time_tick_put \/ tick_task_wait \/ KernelNext
                  \/ tick_task_take \/ tick_task_update \/ tick_task_done
                  \/ raw_semaphore_create(TickSem, 0)
  BY DEF TickNext, OtherStep, tick_task_woken, KernelNext
<1>. QED
  BY <1>1, <1>2, <1>3, PutStep, WaitStep, OwnStep, CreateStep

\* With a tick task, a task executes its own code while a more urgent one is
\* ready only if it is the tick task, whose tick_list_update is not followed by
\* raw_sched().
THEOREM OnlyTickTaskIsLate ==
  ASSUME Mutex = {}
  PROVE  TickSpec => []DispatchExceptTick
<1>1. TickBase /\ TickAlone => DispatchExceptTick
  BY DEF TickAlone, DispatchExceptTick, DispatchInv, NothingAhead, DispatchOK, TaskAt, active
<1>. QED
  BY <1>1, TickStart, TickBaseNext, TickAloneNext, PTL DEF TickSpec

-----------------------------------------------------------------------------
(* How the wait of the tick task goes on and ends.                          *)

\* Another task moves, so this one does not.
LEMMA OtherMoves ==
  ASSUME Told, NEW t \in Task, NEW u \in Task \ {t}, k'.task_state[u] # k.task_state[u]
  PROVE  k'.task_state[t] = k.task_state[t]
BY DEF Told, OneTask

\* A task that is neither timed nor a target of raw_task_wait_abort or of
\* raw_task_delete waits for an object until the object lets it go.
LEMMA WaitGoesOn ==
  ASSUME TaskInv, KernelNext, NEW t \in Task \ Abortable,
         k.task_state[t] \in Pending \ Timed, k.block_obj[t] \notin Mutex,
         loop.op = "free" => loop.task # t
  PROVE  k'.task_state[t] \in Pending \ Timed
<1> DEFINE Same == k'.task_state[t] = k.task_state[t]
<1>1. k \in KernelState /\ Consistent(k) /\ active \in Task
  BY InvFacts
<1>2. CASE \/ raw_os_start \/ raw_sched \/ block_state_post_process \/ raw_enter_interrupt
           \/ raw_finish_int \/ raw_disable_sche \/ raw_enable_sche
  <2>1. k' \in {k, get_ready_task(k), [k EXCEPT !.block_status[active] = "STALE"]}
    BY <1>2 DEF raw_os_start, raw_sched, block_state_post_process, raw_enter_interrupt,
           raw_finish_int, raw_disable_sche, raw_enable_sche
  <2>2. k'.task_state = k.task_state
    BY SMTT(30), <1>1, <2>1, get_ready_taskPicks DEF KernelState
  <2>. QED
    BY <2>2
<1>3. CASE tick_list_update
  <2> DEFINE h == Head(k.tick_head)
  <2>1. k' = tick_expire(k, h) /\ h \in Task /\ k.task_state[h] \in Timed
    BY <1>3, FirstTimed DEF tick_list_update
  <2> HIDE DEF h
  <2>2. Moves(k, k', h) /\ h # t
    BY <1>1, <2>1, tick_expireMoves
  <2>. QED
    BY <2>2 DEF Moves, OneMoves
<1>4. CASE time_slice_step
  <2>1. k.priority[active] \in Prio
    BY <1>1 DEF KernelState
  <2>2. SameStates(k, k')
    BY <1>1, <1>4, <2>1, calculate_time_sliceKeeps DEF time_slice_step
  <2>. QED
    BY <2>2 DEF SameStates, StatesKept
<1>5. CASE FreeMutex
  <2> DEFINE m == loop.obj
             h == Head(k.block_list[m])
  <2>1. m \in Mutex /\ k' = free_one_mutex(k, m)
    BY <1>5 DEF FreeMutex, TaskInv, LoopOK
  <2>2. \/ StatesKept(k, k')
        \/ h \in Task /\ OneMoves(k, k', h) /\ k.block_obj[h] = m
    <3> HIDE DEF m
    <3>. QED
      BY ZenonT(40), <1>1, <2>1, free_one_mutexMoves
  <2> HIDE DEF m, h
  <2>3. StatesKept(k, k') \/ (h # t /\ OneMoves(k, k', h))
    BY <2>1, <2>2
  <2>. QED
    BY <2>3 DEF StatesKept, OneMoves
<1>6. CASE FinishDelete
  <2>1. loop.task \in Task \ {t} /\ Told /\ k'.task_state[loop.task] = "DELETED"
    BY <1>6, FinishDeleteInv DEF FinishDelete, TaskInv, LoopOK
  <2>2. k.task_state[loop.task] = "DELETED" => k' = k
    BY <1>6 DEF FinishDelete, Pending
  <2>. QED
    BY <2>1, <2>2, OtherMoves
<1>7. ASSUME NEW dly \in Delays, raw_sleep(dly) PROVE Same
  <2>1. active # t /\ k.task_state[active] = "RDY" /\ Told
    BY <1>7, RunningIsReady, raw_sleepInv DEF raw_sleep, Pending
  <2>2. CASE dly = 0
    <3>1. SameStates(k, k')
      BY <1>1, <1>7, <2>1, <2>2, move_to_ready_list_endKeeps DEF raw_sleep
    <3>. QED
      BY <3>1 DEF SameStates, StatesKept
  <2>3. CASE dly # 0
    BY <1>1, <1>7, <2>1, <2>3, SleepState, OtherMoves
  <2>. QED
    BY <2>2, <2>3
<1>8. ASSUME NEW u \in Task, raw_task_create(u) PROVE Same
  <2>1. k.task_state[u] = "DELETED" /\ k'.task_state[u] \in Awake /\ Told
    BY <1>8, raw_task_createInv
  <2>. QED
    BY <2>1, OtherMoves DEF Awake, Pending
<1>9. ASSUME NEW u \in Task, raw_task_suspend(u) PROVE k'.task_state[t] \in Pending \ Timed
  <2> DEFINE K1 == [k EXCEPT !.suspend_count[u] = 1,
                             !.task_state[u] = SuspendedState(k.task_state[u])]
  <2>1. K1.task_state = [k.task_state EXCEPT ![u] = SuspendedState(k.task_state[u])]
    BY <1>1 DEF KernelState
  <2>2. k' = K1 \/ k' = remove_ready_list(K1, u)
    BY <1>9 DEF raw_task_suspend
  <2> HIDE DEF K1
  <2>3. remove_ready_list(K1, u).task_state = K1.task_state
    BY DEF remove_ready_list, Fault
  <2>4. k.task_state[t] = "PEND" => SuspendedState(k.task_state[t]) = "PEND_SUSPENDED"
    BY DEF SuspendedState
  <2>5. k.task_state[t] = "PEND" \/ u # t
    BY <1>9 DEF raw_task_suspend, Pending, Timed, Suspended
  <2>6. k.task_state \in [Task -> TaskState]
    BY <1>1 DEF KernelState
  <2>. QED
    BY <2>1, <2>2, <2>3, <2>4, <2>5, <2>6 DEF Pending, Timed
<1>10. ASSUME NEW u \in Task, raw_task_resume(u) PROVE k'.task_state[t] \in Pending \ Timed
  <2> DEFINE K1 == [k EXCEPT !.suspend_count[u] = (k.suspend_count[u] + ByteMod - 1) % ByteMod]
             K2 == [K1 EXCEPT !.task_state[u] = ResumedState(K1.task_state[u])]
  <2>1. /\ K1.task_state = k.task_state
        /\ K2.task_state = [k.task_state EXCEPT ![u] = ResumedState(k.task_state[u])]
    BY <1>1 DEF KernelState
  <2>2. k' = K1 \/ k' = K2 \/ k' = add_ready_list(K2, u)
    BY <1>10 DEF raw_task_resume
  <2> HIDE DEF K1, K2
  <2>3. add_ready_list(K2, u).task_state = K2.task_state
    BY DEF add_ready_list, add_ready_list_head, add_ready_list_end, mark_ready
  <2>4. k.task_state[t] = "PEND_SUSPENDED" => ResumedState(k.task_state[t]) = "PEND"
    BY DEF ResumedState
  <2>5. k.task_state[t] = "PEND_SUSPENDED" \/ u # t
    BY <1>10 DEF raw_task_resume, Pending, Timed, Suspended
  <2>6. k.task_state \in [Task -> TaskState]
    BY <1>1 DEF KernelState
  <2>. QED
    BY <2>1, <2>2, <2>3, <2>4, <2>5, <2>6 DEF Pending, Timed
<1>11. ASSUME NEW u \in Task,
              \/ raw_task_suspend_again(u) \/ raw_task_delete(u) \/ raw_set_sched_way(u)
              \/ \E n : raw_task_time_slice_change(u, n)
              \/ \E time : raw_system_time_set(time)
       PROVE  Same
  <2>1. k'.task_state = k.task_state
    BY <1>1, <1>11 DEF raw_task_suspend_again, raw_task_delete, raw_set_sched_way,
       raw_task_time_slice_change, raw_system_time_set, KernelState
  <2>. QED
    BY <2>1
<1>12. ASSUME NEW u \in Abortable, raw_task_wait_abort(u) PROVE Same
  <2>1. Moves(k, k', u) /\ u # t
    BY <1>1, <1>12, wait_abortMoves, TaskAssumption DEF raw_task_wait_abort
  <2>. QED
    BY <2>1 DEF Moves, OneMoves
<1>13. ASSUME NEW tp \in NewPrio, raw_task_priority_change(tp[1], tp[2]) PROVE Same
  <2>1. tp[1] \in Task /\ tp[2] \in 0 .. PrioMax - 2
    BY TaskAssumption
  <2>. QED
    BY <1>13, <2>1, raw_task_priority_changeInv
<1>14. ASSUME NEW ts \in NewSlice, raw_task_time_slice_change(ts[1], ts[2]) PROVE Same
  <2>1. ts[1] \in Task
    BY TaskAssumption
  <2>. QED
    BY <1>11, <1>14, <2>1
<1>15. ASSUME NEW time \in NewTime, raw_system_time_set(time) PROVE Same
  BY <1>1, <1>11, <1>15
<1> HIDE DEF Same
<1>16. Same => k'.task_state[t] \in Pending \ Timed
  BY DEF Same
<1>17. /\ Suspendable \subseteq Task /\ Deletable \subseteq Task /\ NewSchedWay \subseteq Task
  BY TaskAssumption
<1>. QED
  BY <1>2, <1>3, <1>4, <1>5, <1>6, <1>7, <1>8, <1>9, <1>10, <1>11, <1>12, <1>13, <1>14, <1>15,
     <1>16, <1>17
  DEF KernelNext

-----------------------------------------------------------------------------
(* Where the tick task is in its loop, and what it knows.                   *)

InCall == call[TickTask] = TickSem

TickCall ==
  /\ InCall \/ call[TickTask] = "none"
  /\ InCall <=> pc[TickTask] \in {"blocking", "woken"}
  /\ k.task_state[TickTask] \in Pending => InCall
  /\ k.task_state[TickTask] \notin Timed
  /\ InCall => /\ ~ in_hand /\ k.task_state[TickTask] # "DELETED"
               /\ k.task_state[TickTask] \notin Pending => k.block_status[TickTask] = "OK"
  /\ loop.op = "free" => raw_os_active /\ loop.task # TickTask /\ active # TickTask

Tokens ==
  /\ count \in [Sem -> Nat] /\ in_hand \in BOOLEAN /\ irq \in Ticks
  /\ ~ raw_os_active => count[TickSem] = 0

\* The tick task has been given a token it has not run tick_list_update for.
Holding == in_hand \/ (InCall /\ k.task_state[TickTask] \notin Pending)

LEMMA OutstandingIs == outstanding = count[TickSem] + (IF Holding THEN 1 ELSE 0)
BY DEF outstanding, Holding, InCall

\* A task of the kernel makes no calls but its own: of the other steps only the
\* scheduler moves it.
LEMMA OtherCalls ==
  ASSUME TaskInv, KernelNext, loop.op = "free" => active # TickTask,
         ~ (block_state_post_process /\ active = TickTask)
  PROVE  \/ raw_task_create(TickTask) /\ call'[TickTask] = "none" /\ pc'[TickTask] = "run"
         \/ /\ call'[TickTask] = call[TickTask]
            /\ \/ pc'[TickTask] = pc[TickTask]
               \/ pc[TickTask] = "resched" /\ pc'[TickTask] = "run"
               \/ pc[TickTask] = "blocking" /\ pc'[TickTask] = "woken"
<1> DEFINE Stays == call'[TickTask] = call[TickTask] /\ pc'[TickTask] = pc[TickTask]
<1>1. /\ pc \in [Task -> Place] /\ call \in [Task -> Call] /\ active \in Task
      /\ TickTask \in Task /\ TickTask \in SystemTask /\ raw_int_nesting \in Nat
  BY InvFacts, TickObjects
<1>2. (TaskRuns => active # TickTask) /\ (IsrRuns => raw_int_nesting # 0)
  BY <1>1 DEF TaskRuns, IsrRuns
<1>3. (active # TickTask \/ raw_int_nesting # 0) /\ Resched => pc'[TickTask] = pc[TickTask]
  BY <1>1 DEF Resched
<1>4. CASE UNCHANGED <<pc, call>>
  BY <1>4
<1>5. CASE raw_sched
  BY <1>1, <1>5 DEF raw_sched, TaskAt
<1>6. CASE block_state_post_process
  BY <1>1, <1>6 DEF block_state_post_process
<1>7. CASE call' = call /\ Resched /\ (Caller \/ loop.op = "free")
  BY <1>2, <1>3, <1>7 DEF Caller
<1>8. ASSUME NEW dly \in Delays, raw_sleep(dly) PROVE Stays
  BY <1>1, <1>2, <1>3, <1>8 DEF raw_sleep, Block
<1>9. ASSUME NEW t \in Task, raw_task_create(t)
      PROVE  Stays \/ (t = TickTask /\ call'[TickTask] = "none" /\ pc'[TickTask] = "run")
  BY <1>1, <1>2, <1>9 DEF raw_task_create, Boot
<1>10. \/ UNCHANGED <<pc, call>> \/ raw_sched \/ block_state_post_process
       \/ call' = call /\ Resched /\ (Caller \/ loop.op = "free")
       \/ (\E dly \in Delays : raw_sleep(dly))
       \/ (\E t \in Task : raw_task_create(t))
  BY DEF KernelNext, raw_os_start, raw_enter_interrupt, raw_finish_int,
         raw_disable_sche, raw_enable_sche, tick_list_update, time_slice_step, FreeMutex,
         FinishDelete, raw_task_suspend, raw_task_suspend_again, raw_task_resume,
         raw_task_delete, raw_task_wait_abort, raw_task_priority_change,
         raw_task_time_slice_change, raw_set_sched_way, raw_system_time_set, Caller
<1>. QED
  BY <1>4, <1>5, <1>6, <1>7, <1>8, <1>9, <1>10

\* Who is being deleted.
LEMMA DeletesOthers ==
  ASSUME TickBase, TickCall, KernelNext, TickTask \notin Deletable
  PROVE  loop'.op = "free" => raw_os_active' /\ loop'.task # TickTask /\ active' # TickTask
<1>1. TaskInv /\ loop \in Loop /\ (raw_os_active' = raw_os_active \/ raw_os_start)
  BY KernelNextTick, InvFacts DEF TickBase
<1>2. CASE loop = NoLoop /\ loop' = NoLoop
  BY <1>2, NoLoopOK
<1>3. CASE FinishDelete
  BY <1>3, NoLoopOK DEF FinishDelete
<1>4. CASE FreeMutex
  <2>1. loop'.op = loop.op /\ loop'.task = loop.task /\ loop.op = "free" /\ active' = active
    BY <1>1, <1>4, FreeMutexInv DEF FreeMutex, Loop, Preserved, active
  <2>2. raw_os_active' = raw_os_active
    BY <1>4 DEF FreeMutex, sys
  <2>. QED
    BY <2>1, <2>2 DEF TickCall
<1>5. ASSUME NEW t \in Deletable, raw_task_delete(t)
      PROVE  raw_os_active' /\ loop'.task # TickTask /\ active' # TickTask
  <2>1. loop'.task = t /\ k' = k /\ UNCHANGED sys /\ TaskRuns
    BY <1>5 DEF raw_task_delete, NoLoop
  <2>. QED
    BY <2>1, TickObjects DEF TaskRuns, TaskAt, active, sys
<1>6. CASE tick_list_update
  <2>1. loop.op = "tick" /\ loop' = loop
    BY <1>6 DEF tick_list_update
  <2>. QED
    BY <2>1
<1>7. CASE raw_os_start
  BY <1>7 DEF raw_os_start, TickCall
<1>8. (~ tick_list_done /\ ~ raw_time_tick) \/ loop'.op # "free"
  BY NoLoopOK DEF tick_list_done, raw_time_tick, NoLoop
<1>. QED
  BY <1>1, <1>2, <1>3, <1>4, <1>5, <1>6, <1>7, <1>8, LoopSteps DEF TaskNext

LEMMA KernelTickCall ==
  ASSUME TickBase, TickCall, KernelNext, TickTask \notin Abortable \cup Deletable,
         ~ (block_state_post_process /\ active = TickTask), in_hand' = in_hand
  PROVE  TickCall' /\ (Holding' <=> Holding)
<1> DEFINE s == k.task_state[TickTask]
<1>1. /\ TaskInv /\ TaskNext /\ Calm /\ TickTask \in Task /\ TickSem \notin Mutex
      /\ TickSem \notin {"none", "sleep"}
      /\ k \in KernelState /\ k' \in KernelState
  BY KernelNextInv, InvFacts, TickObjects, TaskAssumption
  DEF TickBase, TaskNext, Preserved, TaskInv, TaskTypeOK
<1>2. loop'.op = "free" => raw_os_active' /\ loop'.task # TickTask /\ active' # TickTask
  BY DeletesOthers
<1>3. \/ raw_task_create(TickTask) /\ call'[TickTask] = "none" /\ pc'[TickTask] = "run"
      \/ /\ call'[TickTask] = call[TickTask]
         /\ \/ pc'[TickTask] = pc[TickTask]
            \/ pc[TickTask] = "resched" /\ pc'[TickTask] = "run"
            \/ pc[TickTask] = "blocking" /\ pc'[TickTask] = "woken"
  BY <1>1, OtherCalls DEF TickCall
<1>4. raw_task_create(TickTask) => s = "DELETED" /\ s' \in Awake
  BY <1>1, raw_task_createInv
<1>5. s \in Pending => s' \in Pending \ Timed
  BY <1>1, WaitGoesOn DEF TickBase, TickCall
<1>6. s \notin Pending => s' \notin Pending
  BY <1>1 DEF Calm, StartsNoWait
<1>7. s' \notin Timed
  <2>1. CASE block_state_post_process
    BY <1>1, <2>1, PostProcess DEF TickCall
  <2>2. CASE s \notin Pending /\ Told
    <3>1. call'[TickTask] # "sleep"
      BY <1>1, <1>3, TaskAssumption DEF TickCall, InCall
    <3>2. s' \in Timed \ Pending => FALSE
      BY <1>1, <2>2, <3>1 DEF Told, Informed, TickCall
    <3>. QED
      BY <1>6, <2>2, <3>2
  <2>. QED
    BY <1>1, <1>5, <2>1, <2>2, TaskNextTold
<1>8. s' = "DELETED" => s = "DELETED"
  BY <1>1, TaskNextDeletes DEF TickCall, FinishDelete
<1>9. ASSUME InCall, s \notin Pending
      PROVE  k'.block_status[TickTask] = "OK"
  <2>1. s \notin Away /\ s' # "DELETED" /\ k.block_status[TickTask] = "OK"
    BY <1>8, <1>9 DEF TickCall, Away
  <2>2. CASE block_state_post_process
    BY <1>1, <2>1, <2>2, PostProcess
  <2>3. CASE Told
    BY <1>1, <2>1, <2>3 DEF Told, Informed
  <2>. QED
    BY <1>1, <2>2, <2>3, TaskNextTold
<1>10. InCall' <=> InCall
  BY <1>1, <1>3, <1>4 DEF InCall, TickCall, TickBase
<1> HIDE DEF s
<1>11. /\ InCall' \/ call'[TickTask] = "none"
       /\ InCall' <=> pc'[TickTask] \in {"blocking", "woken"}
  BY <1>1, <1>3, <1>4, <1>10 DEF TickCall, InCall, s
<1>12. s' \in Pending => InCall'
  BY <1>6, <1>10 DEF TickCall, s
<1>13. InCall' => /\ ~ in_hand' /\ s' # "DELETED"
                  /\ s' \notin Pending => k'.block_status[TickTask] = "OK"
  BY <1>5, <1>8, <1>9, <1>10 DEF TickCall, s
<1>14. TickCall'
  BY <1>2, <1>7, <1>11, <1>12, <1>13 DEF TickCall, s
<1>15. Holding' <=> Holding
  BY <1>5, <1>6, <1>10 DEF Holding, s
<1>. QED
  BY <1>14, <1>15

-----------------------------------------------------------------------------
(* Every tick is in the counter, in a token or in the hands of the task.    *)

LEMMA CongStep ==
  ASSUME NEW n \in Nat, NEW i \in Int, NEW c \in Int, NEW o \in Int, Cong(n, i - c, o),
         NEW a \in Int, NEW i1 \in Int, Cong(n, i1, i + a),
         NEW b \in Int, NEW c1 \in Int, Cong(n, c1, c + b)
  PROVE  Cong(n, i1 - c1, o + a - b)
<1>1. PICK p \in Int : i - c = o + n * p
  BY DEF Cong
<1>2. PICK q \in Int : i1 = i + a + n * q
  BY DEF Cong
<1>3. PICK r \in Int : c1 = c + b + n * r
  BY DEF Cong
<1>4. p + q - r \in Int /\ i1 - c1 = o + a - b + n * (p + q - r)
  BY <1>1, <1>2, <1>3
<1>. QED
  BY <1>4 DEF Cong

Held == IF Holding THEN 1 ELSE 0

TicksCounted == Cong(TickMod, irq - k.raw_tick_count, count[TickSem] + Held)

\* What a step does to the two counters and to the ticks between them.
LEMMA CountStep ==
  ASSUME Tokens, Tokens', TicksCounted,
         k.raw_tick_count \in Ticks, k'.raw_tick_count \in Ticks,
         NEW a \in 0 .. 1, Cong(TickMod, irq', irq + a),
         NEW b \in 0 .. 1, Cong(TickMod, k'.raw_tick_count, k.raw_tick_count + b),
         count'[TickSem] + Held' = count[TickSem] + Held + a - b
  PROVE  TicksCounted'
<1> DEFINE c == k.raw_tick_count
           c1 == k'.raw_tick_count
           o == count[TickSem] + Held
           o1 == count'[TickSem] + Held'
           i == irq
           i1 == irq'
<1>1. /\ c \in Int /\ c1 \in Int /\ o \in Int /\ i \in Int /\ i1 \in Int
      /\ a \in Int /\ b \in Int /\ TickMod \in Nat
  BY TickObjects, KernelAssumption DEF Tokens, Ticks, Held
<1>2. /\ Cong(TickMod, i - c, o) /\ Cong(TickMod, i1, i + a) /\ Cong(TickMod, c1, c + b)
      /\ o1 = o + a - b
  BY DEF TicksCounted
<1>3. TicksCounted' <=> Cong(TickMod, i1 - c1, o1)
  BY DEF TicksCounted
<1> HIDE DEF c, c1, o, o1, i, i1
<1>4. Cong(TickMod, i1 - c1, o + a - b)
  BY <1>1, <1>2, CongStep
<1>. QED
  BY <1>2, <1>3, <1>4

\* A counter modulo TickMod stays, or goes one further.
LEMMA CongSame ==
  ASSUME NEW x \in Ticks
  PROVE  /\ Cong(TickMod, x, x + 0)
         /\ (x + 1) % TickMod \in Ticks /\ Cong(TickMod, (x + 1) % TickMod, x + 1)
<1>1. TickMod \in Nat \ {0} /\ x \in Int /\ x + 1 \in Int
  BY KernelAssumption DEF Ticks
<1>2. 0 \in Int /\ x = x + 0 + TickMod * 0
  BY <1>1
<1>3. Cong(TickMod, x, x + 0)
  BY <1>2 DEF Cong
<1>4. (x + 1) % TickMod \in 0 .. TickMod - 1 /\ Cong(TickMod, (x + 1) % TickMod, x + 1)
  BY <1>1, CongMod
<1>. QED
  BY <1>3, <1>4 DEF Ticks

NoTickInv == TickBase /\ TickCall /\ Tokens /\ TicksCounted

LEMMA NoTickStart == TickInit => NoTickInv
<1>. SUFFICES ASSUME TickInit PROVE NoTickInv
  OBVIOUS
<1>1. /\ TickBase /\ TaskInit /\ count = [s \in Sem |-> 0] /\ in_hand = FALSE /\ irq = 0
      /\ TickTask \in Task /\ TickSem \in Sem /\ TickSem # "none"
  BY TickStart, TickObjects, TaskAssumption DEF TickInit, SemInit
<1>2. /\ call[TickTask] = "none" /\ pc[TickTask] = "run" /\ loop = NoLoop
      /\ k.task_state[TickTask] = "DELETED" /\ k.raw_tick_count = 0
  BY <1>1, TickObjects DEF TaskInit, InitKernel
<1>3. TickCall /\ ~ Holding
  BY <1>1, <1>2, NoLoopOK DEF TickCall, InCall, Holding, Pending, Timed
<1>4. Tokens
  <2>1. count \in [Sem -> Nat] /\ count[TickSem] = 0
    BY <1>1
  <2>2. irq \in Ticks
    BY <1>1, KernelAssumption DEF Ticks
  <2>. QED
    BY <1>1, <2>1, <2>2 DEF Tokens
<1>5. Held = 0 /\ count[TickSem] = 0
  BY <1>1, <1>3 DEF Held
<1>6. Cong(TickMod, 0 - 0, 0 + 0)
  <2>1. TickMod \in Nat /\ 0 \in Int /\ 0 - 0 = (0 + 0) + TickMod * 0
    BY KernelAssumption
  <2>. QED
    BY <2>1 DEF Cong
<1>7. TicksCounted
  BY <1>1, <1>2, <1>5, <1>6 DEF TicksCounted
<1>. QED
  BY <1>1, <1>3, <1>4, <1>7 DEF NoTickInv

LEMMA NoTickNext ==
  ASSUME NewTime = {}, TickTask \notin Abortable \cup Deletable,
         NoTickInv, [TickNext]_tickVars
  PROVE  NoTickInv'
<1>1. /\ TickBase /\ TickBase' /\ TickCall /\ Tokens /\ TicksCounted
      /\ k.raw_tick_count \in Ticks /\ k'.raw_tick_count \in Ticks /\ irq \in Ticks
      /\ TickTask \in Task /\ TickSem \in Sem /\ pc \in [Task -> Place] /\ call \in [Task -> Call]
  BY TickBaseNext, InvFacts, TickObjects
  DEF NoTickInv, TickBase, TaskInv, TaskTypeOK, Tokens, KernelState
<1>2. /\ Cong(TickMod, irq, irq + 0)
      /\ Cong(TickMod, k.raw_tick_count, k.raw_tick_count + 0)
      /\ (irq + 1) % TickMod \in Ticks /\ Cong(TickMod, (irq + 1) % TickMod, irq + 1)
      /\ Cong(TickMod, (k.raw_tick_count + 1) % TickMod, k.raw_tick_count + 1)
  BY <1>1, CongSame
<1>3. Held \in 0 .. 1 /\ Held' \in 0 .. 1 /\ count[TickSem] \in Nat
  BY <1>1 DEF Held, Tokens
<1>4. ASSUME UNCHANGED <<in_hand, irq, count>>, (Holding' <=> Holding), TickCall',
             ~ raw_os_active' => ~ raw_os_active, k'.raw_tick_count = k.raw_tick_count
      PROVE  NoTickInv'
  <2>1. Tokens'
    BY <1>1, <1>4 DEF Tokens
  <2>2. TicksCounted'
    BY <1>1, <1>4 DEF TicksCounted, Held
  <2>. QED
    BY <1>1, <1>4, <2>1, <2>2 DEF NoTickInv
<1>5. CASE UNCHANGED tickVars
  <2>1. (Holding' <=> Holding) /\ TickCall'
    BY <1>1, <1>5 DEF tickVars, sys, Holding, TickCall, InCall, active
  <2>. QED
    BY <1>4, <1>5, <2>1 DEF tickVars, sys
<1>6. CASE KernelNext /\ UNCHANGED <<count, in_hand, irq>>
           /\ ~ (block_state_post_process /\ active = TickTask)
  <2>1. k'.raw_tick_count = k.raw_tick_count
    BY <1>1, <1>6, KernelNextInv DEF TickBase, TicksKept
  <2>2. raw_os_active' = raw_os_active \/ ~ raw_os_active
    BY <1>1, <1>6, KernelNextTick DEF TickBase, raw_os_start
  <2>3. TickCall' /\ (Holding' <=> Holding)
    BY <1>1, <1>6, KernelTickCall
  <2>4. ~ raw_os_active' => ~ raw_os_active
    BY <2>2
  <2>. QED
    BY <1>4, <1>6, <2>1, <2>3, <2>4
<1>7. CASE raw_semaphore_create(TickSem, 0) /\ UNCHANGED <<in_hand, irq>>
  <2>1. /\ UNCHANGED <<sys, pc, call, loop>> /\ ~ raw_os_active
        /\ k'.task_state = k.task_state /\ k'.block_status = k.block_status
        /\ k'.raw_tick_count = k.raw_tick_count
    BY <1>1, <1>7, CreateStep DEF TickBase, raw_semaphore_create
  <2>2. count' = count
    <3>1. count' = [count EXCEPT ![TickSem] = 0] /\ count[TickSem] = 0 /\ count \in [Sem -> Nat]
      BY <1>1, <1>7, <2>1 DEF raw_semaphore_create, Tokens
    <3>. QED
      BY <1>1, <3>1
  <2>3. (Holding' <=> Holding) /\ TickCall'
    BY <1>1, <1>7, <2>1 DEF Holding, TickCall, InCall, sys
  <2>. QED
    BY <1>4, <1>7, <2>1, <2>2, <2>3 DEF sys
<1>8. CASE tick_task_done
  <2>1. UNCHANGED <<k, sys, pc, call, count, in_hand, irq>> /\ loop' = NoLoop
    BY <1>8 DEF tick_task_done
  <2>2. (Holding' <=> Holding) /\ TickCall'
    BY <1>1, <2>1, NoLoopOK DEF Holding, TickCall, InCall
  <2>. QED
    BY <1>4, <2>1, <2>2 DEF sys
<1>9. CASE tick_task_take
  <2>1. /\ UNCHANGED <<k, sys, pc, call, loop, irq>> /\ count[TickSem] > 0 /\ ~ in_hand /\ in_hand'
        /\ count' = [count EXCEPT ![TickSem] = @ - 1] /\ raw_os_active /\ pc[TickTask] = "run"
    BY <1>1, <1>9, TickTaskRuns DEF tick_task_take
  <2>2. ~ InCall /\ ~ InCall' /\ ~ Holding /\ Holding'
    BY <1>1, <2>1 DEF TickCall, Holding, InCall
  <2>3. TickCall'
    BY <1>1, <2>1, <2>2 DEF TickCall, InCall, sys, active
  <2>4. count[TickSem] - 1 \in Nat /\ count'[TickSem] = count[TickSem] - 1
    BY <1>1, <1>3, <2>1 DEF Tokens
  <2>5. Tokens'
    BY <1>1, <1>9, <2>1, <2>4 DEF Tokens, sys, tick_task_take
  <2>6. count'[TickSem] + Held' = count[TickSem] + Held + 0 - 0
    BY <1>3, <2>2, <2>4 DEF Held
  <2>7. TicksCounted'
    BY <1>1, <1>2, <2>1, <2>5, <2>6, CountStep
  <2>. QED
    BY <1>1, <2>3, <2>5, <2>7 DEF NoTickInv
<1>10. CASE tick_task_wait
  <2>1. /\ UNCHANGED <<sys, loop, count, in_hand, irq>> /\ ~ in_hand /\ Block(TickSem)
        /\ pc[TickTask] = "run" /\ active = TickTask
        /\ k'.raw_tick_count = k.raw_tick_count /\ k'.task_state[TickTask] \in Pending \ Timed
    BY <1>1, <1>10, TickTaskRuns, WaitStep DEF tick_task_wait
  <2>2. pc'[TickTask] = "blocking" /\ call'[TickTask] = TickSem
    BY <1>1, <2>1 DEF Block
  <2>3. ~ InCall /\ InCall' /\ ~ Holding /\ ~ Holding'
    BY <1>1, <2>1, <2>2 DEF TickCall, Holding, InCall
  <2>4. loop.op # "free" /\ k'.task_state[TickTask] # "DELETED"
    BY <1>1, <2>1 DEF TickCall, Pending
  <2>5. TickCall'
    BY <2>1, <2>2, <2>3, <2>4 DEF TickCall
  <2>. QED
    BY <1>4, <2>1, <2>3, <2>5 DEF sys
<1>11. CASE tick_task_update
  <2>1. /\ UNCHANGED <<sys, pc, call, count, irq>> /\ in_hand /\ ~ in_hand'
        /\ loop' = [NoLoop EXCEPT !.op = "tick"] /\ pc[TickTask] = "run"
        /\ k' = [k EXCEPT !.raw_tick_count = (@ + 1) % TickMod]
    BY <1>1, <1>11, TickTaskRuns, InvFacts DEF tick_task_update, Tokens
  <2>2. /\ k'.raw_tick_count = (k.raw_tick_count + 1) % TickMod
        /\ k'.task_state = k.task_state /\ k'.block_status = k.block_status
    BY <1>1, <1>11, <2>1, InvFacts, OwnStep DEF TickBase, KernelState
  <2>3. ~ InCall /\ ~ InCall' /\ Holding /\ ~ Holding'
    BY <1>1, <2>1 DEF TickCall, Holding, InCall
  <2>4. loop'.op # "free"
    BY <2>1 DEF NoLoop
  <2>5. TickCall'
    BY <1>1, <2>1, <2>2, <2>3, <2>4 DEF TickCall, InCall
  <2>6. Tokens'
    <3>1. in_hand' = FALSE
      BY <1>11 DEF tick_task_update
    <3>. QED
      BY <1>1, <2>1, <3>1 DEF Tokens, sys
  <2>7. count'[TickSem] + Held' = count[TickSem] + Held + 0 - 1
    BY <1>3, <2>1, <2>3 DEF Held
  <2>8. TicksCounted'
    BY <1>1, <1>2, <2>1, <2>2, <2>6, <2>7, CountStep
  <2>. QED
    BY <1>1, <2>5, <2>6, <2>8 DEF NoTickInv
<1>12. CASE raw_time_tick_put
  <2>1. /\ UNCHANGED <<raw_os_active, raw_sched_lock, raw_int_nesting, pc, call, loop, in_hand>>
        /\ irq' = (irq + 1) % TickMod /\ loop = NoLoop /\ raw_os_active
        /\ k'.raw_tick_count = k.raw_tick_count /\ k'.task_state[TickTask] \notin Pending
    <3>1. /\ UNCHANGED <<raw_os_active, raw_sched_lock, raw_int_nesting, pc, call, loop, in_hand>>
          /\ irq' = (irq + 1) % TickMod /\ loop = NoLoop
      BY <1>12 DEF raw_time_tick_put, IsrRuns
    <3>2. k'.raw_tick_count = k.raw_tick_count /\ k'.task_state[TickTask] \notin Pending
      BY <1>1, <1>12, PutStep
    <3>3. raw_int_nesting > 0 /\ raw_int_nesting # 0
      BY <1>1, <1>12, InvFacts DEF raw_time_tick_put, IsrRuns, TickBase
    <3>4. raw_os_active
      BY <1>1, <3>3 DEF TickBase, TaskInv
    <3>. QED
      BY <3>1, <3>2, <3>4
  <2>2. \/ /\ k' = k /\ k.task_state[TickTask] \notin Pending
           /\ count' = [count EXCEPT ![TickSem] = @ + 1]
        \/ /\ k.task_state[TickTask] \in Pending /\ count' = count
           /\ k'.task_state[TickTask] \in Awake /\ k'.block_status[TickTask] = "OK"
    BY <1>1, <1>12, PutStep, WaitersOfTick DEF raw_time_tick_put
  <2>3. InCall' <=> InCall
    BY <2>1 DEF InCall
  <2>4. TickCall'
    BY <1>1, <2>1, <2>2, <2>3, NoLoopOK DEF TickCall, Awake, Timed
  <2>5. /\ Tokens'
        /\ count'[TickSem] + Held' = count[TickSem] + Held + 1 - 0
    <3>1. CASE k' = k /\ k.task_state[TickTask] \notin Pending
               /\ count' = [count EXCEPT ![TickSem] = @ + 1]
      <4>1. Holding' <=> Holding
        BY <2>1, <2>3, <3>1 DEF Holding
      <4>2. count'[TickSem] = count[TickSem] + 1 /\ count[TickSem] + 1 \in Nat
        BY <1>1, <1>3, <3>1 DEF Tokens
      <4>3. Tokens'
        BY <1>1, <1>2, <2>1, <3>1, <4>2 DEF Tokens
      <4>. QED
        BY <1>3, <4>1, <4>2, <4>3 DEF Held
    <3>2. CASE k.task_state[TickTask] \in Pending /\ count' = count
      <4>1. InCall /\ ~ Holding /\ Holding'
        BY <1>1, <2>1, <2>3, <3>2 DEF TickCall, Holding
      <4>2. Tokens'
        BY <1>1, <1>2, <2>1, <3>2 DEF Tokens
      <4>. QED
        BY <1>3, <3>2, <4>1, <4>2 DEF Held
    <3>. QED
      BY <2>2, <3>1, <3>2
  <2>6. TicksCounted'
    BY <1>1, <1>2, <2>1, <2>5, CountStep
  <2>. QED
    BY <1>1, <2>4, <2>5, <2>6 DEF NoTickInv
<1>13. CASE tick_task_woken
  <2>1. /\ active = TickTask /\ block_state_post_process /\ UNCHANGED <<sys, loop, count, irq>>
        /\ in_hand' = (k.block_status[TickTask] = "OK") /\ pc[TickTask] = "woken"
        /\ k'.raw_tick_count = k.raw_tick_count
    BY <1>1, <1>13, InvFacts
    DEF tick_task_woken, block_state_post_process, TaskAt, TickBase, KernelState
  <2>2. /\ k'.task_state = k.task_state /\ k.task_state[TickTask] = "RDY"
        /\ call'[TickTask] = "none" /\ pc'[TickTask] = "run"
    BY <1>1, <2>1, PostProcess DEF TickBase
  <2>3. InCall /\ ~ InCall' /\ in_hand' /\ Holding /\ Holding'
    BY <1>1, <2>1, <2>2, TickObjects, TaskAssumption DEF TickCall, InCall, Holding, Pending
  <2>4. TickCall'
    BY <1>1, <2>1, <2>2, <2>3 DEF TickCall, sys, active, Pending
  <2>5. Tokens' /\ Held' = Held
    BY <1>1, <2>1, <2>3 DEF Tokens, sys, Held
  <2>6. TicksCounted'
    BY <1>1, <2>1, <2>5 DEF TicksCounted
  <2>. QED
    BY <1>1, <2>4, <2>5, <2>6 DEF NoTickInv
<1>. QED
  BY <1>5, <1>6, <1>7, <1>8, <1>9, <1>10, <1>11, <1>12, <1>13 DEF TickNext, OtherStep

\* If the system time is never set, and nobody aborts the wait of the tick task
\* or deletes it, raw_tick_count lags behind the interrupts by exactly the
\* tokens of the tick task and the one it has in hand.
THEOREM NoTickIsLost ==
  ASSUME NewTime = {}, TickTask \notin Abortable \cup Deletable
  PROVE  TickSpec => []NoTickLost
<1>1. NoTickInv => NoTickLost
  <2> SUFFICES ASSUME NoTickInv PROVE NoTickLost
    OBVIOUS
  <2> DEFINE c == k.raw_tick_count
  <2>0. TickMod \in Nat \ {0} /\ c \in Ticks /\ irq \in Ticks /\ count[TickSem] \in Nat
    BY InvFacts, TickObjects, KernelAssumption
    DEF NoTickInv, TickBase, Tokens, KernelState
  <2> HIDE DEF c
  <2>1. /\ TicksCounted /\ TickMod \in Nat \ {0}
        /\ irq - c \in Int /\ count[TickSem] + Held \in Int
    BY <2>0 DEF NoTickInv, Ticks, Held
  <2> USE DEF c
  <2>2. (irq - k.raw_tick_count) % TickMod = (count[TickSem] + Held) % TickMod
    BY <2>1, CongSameMod DEF TicksCounted
  <2>. QED
    BY <2>2, OutstandingIs DEF NoTickLost, Held
<1>2. NoTickInv /\ [TickNext]_tickVars => NoTickInv'
  BY NoTickNext
<1>. QED
  BY <1>1, <1>2, NoTickStart, PTL DEF TickSpec
=============================================================================
