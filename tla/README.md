# raw-os in TLA+

Models, model-checking runs and machine-checked proofs for raw-os: its kernel
(`src/raw_*.c`), a priority-based real-time kernel for a single processor, and the parts
around it (`src/extension/`).

## The system

The kernel is a library of critical sections. An API function disables interrupts
(`RAW_CRITICAL_ENTER`), changes task blocks and lists by hand, enables interrupts and
calls `raw_sched()`. Everything that can go wrong lies in what one critical section
leaves for the next one to find, and in what happens between the end of a critical
section and the `raw_sched()` that follows.

| component | state | operations | interacts with |
|---|---|---|---|
| ready queue, block lists (`raw_pend.c`) | `task_ready_list`, `task_bit_map`, `highest_priority`; the `block_list` of each object | insert, remove, rotate, choose; block a task, wake it, delete its wait, re-sort | called by everything |
| tasks (`raw_task.c`) | `task_state`, priorities, `suspend_count`, slices, `block_status` | create, delete, suspend, resume, sleep, change priority, abort a wait, lock the scheduler | ready queue, tick list, mutex chains |
| scheduler (`raw_sched.c`) | `raw_task_active`, `raw_sched_lock` | `raw_os_start`, `raw_sched`, round robin | ready queue |
| interrupts, time (`raw_system.c`) | `raw_int_nesting`, `raw_tick_count` | enter, exit, tick, set time, outcome of a wait | scheduler, tick list |
| tick list (`raw_tick.c`) | `tick_head`, `tick_match` | insert by remaining time, remove, expire; in the tick interrupt or in a kernel task | tasks, block lists, mutexes |
| semaphores (`raw_sem.c`) | `count`, waiters | create, put, put all, get, set, delete | block lists |
| mutexes (`raw_mutex.c`) | owner, nesting depth, chain of held mutexes | create, get, put, delete, free those of a dead task; inheritance and ceiling | block lists, task priorities |
| event flags (`raw_event.c`) | `flags`; what each waiter asked for | create, get, set (or, and), delete | block lists |
| message queues (`raw_queue.c`) | a ring of pointers; `msg` of the task blocks | create, post (front, end, to one or all), receive, flush, delete | block lists |
| sized queues (`raw_queue_size.c`, `raw_task_queue_size.c`) | linked nodes, a free list | the same | block lists |
| timers (`raw_timer.c`) | the sorted timer list, `raw_timer_count` | create, activate, change, deactivate, delete; the timer task | tick interrupt, a semaphore and a mutex of its own |
| byte queues (`raw_queue_buffer.c`) | a ring of bytes, each message behind its length | create, post, receive, flush, delete | block lists |
| block pools (`raw_block.c`), byte pools (`raw_byte.c`) | a free list; a ring of blocks with headers and a search pointer | create, allocate, release | any task, interrupts (block pools) |
| idle events (`raw_idle_event.c`) | a ring of events per object, a bitmap in rows and columns | post to front or end, tick, the loop of the idle task | interrupts and tasks post, the idle task serves |
| state machines (`raw_stm.c`) | the current state | init and dispatch, flat and hierarchical | handlers of the application |
| heaps (`extension/mm`) | page descriptors; areas and free areas | allocate, free, reallocate | the heap takes pages |
| fifos, work queues (`extension/lib`) | two counters and a buffer; descriptors and queues | put, get; schedule, run | `raw_queue` |
| protothreads (`extension/protothread`) | the process list, a ring of events, poll flags; the list of event timers | start, exit, post, poll, run; set, adjust, stop, tick | the tick interrupt polls the timer process |
| active objects (`extension/rf`) | event queues, reference counts, deferred events, subscribers | post, broadcast, defer, recall, collect, arm | `raw_queue`, `raw_block`, `raw_timer` |
| POSIX layer (`extension/posix`) | owner of a mutex, count of a condition variable | lock, wait, timed wait, signal, broadcast | mutexes and semaphores |

What is hard: interrupts between any two critical sections, nested interrupts, a task that
is suspended *and* waiting, a wait that ends in one of five ways (object, timeout, abort,
deleted object, deleted task) while the waiter does not run, priorities that change while a
task is on a sorted list, chains of mutex owners that wait themselves, a tick counter that
wraps and is compared for equality, counters at their limits, and, around the kernel, calls
that consist of several critical sections: an event that its receiver executes and frees
before the post of it has returned, a search that opens its lock after every block, a tick
between the read of a clock and the write of the next expiration. `PROJECT.json` lists
these hazards at their lines.

What makes the components correct: a task block is on exactly the lists its state says
(`ListsOK`); the cached index of the ready queue is exact (`HighestOK`); outside the kernel
the running task is the most urgent ready one (`DispatchOK`, `Preemption`); no deadline is
missed (`NoMissedTick`, `TimedWaitEnds`, `ImplementsAbsTimer`); a wait returns the outcome
of what ended it (`FreshStatus`, `ImplementsAbsSem`, `ImplementsAbsMutex`,
`ImplementsAbsEvent`), and a suspended task stays suspended, whatever ends its wait
(`SuspensionHolds`); no message is lost or received twice (`ImplementsAbsQueue`,
`ImplementsAbsQueueSize`, `ImplementsAbsQueueBuffer`); no task waits for what is there, and
rings and node lists agree with their counts (`ObjectsOK`); priorities are exactly what
inheritance and ceilings demand (`PriorityInheritance`, `CeilingRespected`); memory that
somebody has is in no free list and in no other block (`BlockPoolOK`, `BytePoolOK`,
`HeapsOK`); the idle task serves the most urgent event (`ServesMostUrgent`); a transition
exits and enters exactly the states between the two ends (`ActiveStatesOK`,
`CommonStateUntouched`); bytes leave a fifo in the order they came (`FifoOrder`); each
descriptor of a work queue is free or carries one call (`DescriptorsOK`); processes that
ended are off the list and get no event (`ProcessesOK`); whoever waits for an event timer
that is due will be served (`NoExpiryMissed`); an event that is not deferred is freed when
nobody has it and not before (`EventRefsOK`); a signal given to a waiting thread is there when it looks
(`NoSignalLost`).

## Modules

| module | models | how |
|---|---|---|
| `RawList` | `raw_list.h`, the two sorted insertions | a `LIST` is a sequence |
| `RawKernel` | `raw_pend.c`, `raw_tick.c`, the internal functions of `raw_mutex.c` and `raw_task.c` | each function that runs inside a critical section is an operator from the kernel record to the next one; a call that would report a system error sets `fault` |
| `RawTask` | `raw_task.c`, `raw_sched.c`, `raw_system.c` | each critical section is an action; what follows it, `raw_sched` and `block_state_post_process`, are actions of their own with `pc` telling where a task is; a critical section with a loop takes one step per round while `loop` keeps everything else out |
| `RawSem` | `raw_sem.c` on top of `RawTask` | adds `count` |
| `RawMutex` | `raw_mutex.c` on top of `RawTask` | the mutex fields are part of the kernel record because priority changes follow them |
| `RawTickTask` | the tick in a kernel task (`raw_tick.c`, `raw_task_sem.c`) on top of `RawSem` | the interrupt puts a semaphore, the task takes it |
| `RawEvent` | `raw_event.c` on top of `RawTask` | a flag word is the set of its bits; `event_wait` is what `raw_event_get` stores in the task block; the loop over the waiters is one critical section and one step (`wake_waiters`) |
| `RawMsg` | what both kinds of queue do with a waiter | `msg` of the task blocks |
| `RawQueue`, `RawQueueSize`, `RawQueueBuffer` | `raw_queue.c`, `raw_queue_size.c`, `raw_queue_buffer.c` on top of `RawMsg` | the ring with its two indices and its count; the nodes with their `next` pointers, one by one; the ring of bytes with its headers, where a message wraps in the header or in the body |
| `RawIpc` | events and queues on one kernel | `used` is the set of the objects the application uses, one of `Uses` |
| `RawTimer` | `raw_timer.c` | the doubly linked list pointer by pointer, the timer task in six steps, each API function in two: the checks, and what it does with `timer_mutex` |
| `RawIdleEvent` | `raw_idle_event.c` | posts and choices are critical sections; the handler runs between two of them |
| `RawStm` | `raw_stm.c` | a handler answers as the tables `Father` and `InitTran` say; the walks over the father chain are functions of them; the entry and exit signals are recorded in order |
| `RawBlock` | `raw_block.c` | the linked free blocks are a sequence of block numbers, addresses follow from them |
| `RawByte` | `raw_byte.c` | the headers in memory, a search takes one step per block |
| `RawPage`, `RawMalloc` | `extension/mm/raw_page.c`, `raw_malloc.c` | the page descriptors and their queue; the area list with its flags, the free queue with its chains |
| `RawFifo`, `RawWorkQueue` | `extension/lib/fifo.c`, `fifo_lock.c`, `raw_work_queue.c` | counters modulo the width of their type; the two critical sections of a call apart |
| `RawProcess`, `RawEtimer` | `extension/protothread/process.c`, `etimer.c`, `timer.c`, `clock_port.c` | the nested calls of threads are a stack of frames; a tick comes between any two steps of `etimer` |
| `RawActive` | `extension/rf/*.c` | a client and an object stand between the critical sections of a post, a broadcast, an execution |
| `RawPosix` | mutexes and condition variables of `extension/posix` | `pthread_cond_wait` in three steps |
| `RawExt` | these parts side by side | `part` is the one the application uses |
| `AbsSem`, `AbsMutex`, `AbsEvent`, `AbsQueue`, `AbsTimer` | what a semaphore, a mutex, an event, a queue and a timer promise | tokens, holders, flags, messages in order, ticks left, outcomes of waits; no lists, no scheduler |
| `MC...` | instances for TLC | |
| `RawListProofs`, `RawKernelProofs`, `RawTaskProofs`, `RawSemProofs`, `RawMutexProofs`, `RawIpcProofs`, `RawTickProofs`, `RawExtProofs` | proofs | see below |

Two data structures are represented by what they mean: `task_bit_map` is the set of the
priorities whose bit is set (and `bit_search_first_one` its minimum above a bound); a
doubly linked list is a sequence, an unlinked element is on no sequence. The model keeps
block lists and ready lists as the code does, so a block that is linked twice is visible
(`Once`). `RawTimer` and `RawQueueSize` keep the pointers themselves, because those
functions walk a list while it changes or leave old pointers behind.

`RawTimer` stands beside the kernel modules and does not extend them: its tasks may be
preempted anywhere, and of `timer_sem` and `timer_mutex` it uses only what `AbsSem` and
`AbsMutex` say of them, which `MCRawSem` and `MCRawMutex` show of the kernel. Nobody but a
holder of `timer_mutex` reads what a function changes while it holds it, so that is one
step, and the test of `timer_state` before it, which the code makes without the mutex, is
another.

The modules of `RawExt` stand beside the kernel in the same way. Where they use a kernel
object they use what its abstract specification says: active objects and work queues a
queue that keeps its order and refuses when it is full, condition variables a mutex and a
counting semaphore, time events a timer. Who may come between two critical sections is
what the kernel allows: an interrupt handler anywhere, a more urgent task anywhere the
scheduler is not locked. A variable marked "no variable of the code" records what callers
hold, or what was promised to them, because the properties speak of it.

Fields that the code leaves behind and never reads again are set to a fixed value to
keep the state space small, each with a comment: the slots of a flushed queue, the block of
a deleted one, the pointers and `match` of a timer that is off the list, `msg` and the event
fields of a task that is in no such call.

An API function that finds an error and returns without having changed anything has no
action. Calls are made by the active task, or by an interrupt handler when the code allows
it; before `raw_os_start` by `main()`. Which calls the application makes with which
arguments is a constant (`Suspendable`, `Deletable`, `NewPrio`, ...): the proofs are for
all of them, a run fixes small ones.

`mutex_recursion_levels` bounds the mutual recursion of `change_internal_task_priority`,
`mtx_chg_pri` and `release_mutex`; the model unrolls it to the bound of the code. Each
`..._Xxx` operator marked "Mutant" is the bug named in its comment; it is not used by the
specification, and putting it in the place of the definition that follows it makes the run
listed for it in `PROJECT.json` fail.

## Runs

| run | instance | shows |
|---|---|---|
| `MCRawTask` | three tasks and idle, two of one priority, no objects, 3 tick values, slices of 2 | lists, ready index, dispatching, deadlines, suspension, scheduler lock |
| `MCRawTaskLive` | two tasks, interrupts two deep | every timed wait ends, the most urgent task gets the processor |
| `MCRawSem` | three tasks, one semaphore, waits with and without timeout | the semaphore implements `AbsSem`; lists stay right; a suspended waiter stays suspended whatever ends its wait |
| `MCRawMutex` | three tasks, two inheritance mutexes, timeouts, one task deleted | exact inheritance along chains, ownership, order of the waiters, refinement of `AbsMutex` |
| `MCRawMutexCeiling` | a ceiling mutex and one with inheritance, nesting two deep, priority changes, wait abort, deletion of mutexes | ceilings and inheritance together |
| `MCRawTickTask` | tick task, two tasks, one sleeping | no tick lost, timed waits end |
| `MCRawIpc` | two tasks, of which one may be deleted, and interrupts; one event of two flags, a ring of two slots, three linked nodes or a ring of eight bytes, two messages, waits with and without timeout | flags, rings, nodes and bytes implement their abstract specifications; no waiter is left behind, no slot, node or byte is lost |
| `MCRawTimer` | three timers (periods 0 and 2, first ticks 1 and 2), two tasks that use different ones, a count modulo 4 | each timer is called in its tick and in no other; the list is sound at every step; an active timer is called |
| `MCRawExt` | one part in each behaviour, see below | the parts around the kernel keep what they promise through every order of their steps |
| `MCRawMutexFree` | `MCRawMutex`, a mutex locked twice | the task that is handed a mutex of a deleted task inherits its nesting count (finding) |
| `MCRawTimerActivate` | one timer, two tasks that use it | `raw_timer_activate` succeeds for a timer that is already active (finding) |
| `MCRawBytePool` | two tasks, a byte pool | a search merges the block that the search pointer of the pool is at into another one (finding) |

Bounds. Three tasks are enough for a waiter, an owner and a third party of any other
priority, for a chain of two mutexes and for two tasks that wait for each other. Ticks are
counted modulo 2, 3 or 4, so the counter wraps in every run; delays are shorter than the
modulus, as in the code where they are shorter than 2^32. `SuspendLimit` and `ByteMod` stand
for 250 and 256, `MaxLock` for 250, `MaxNest` for `INT_NESTED_LEVEL`; small values reach
the limits. `TimeTotal` 2 gives slices that are and are not used up. `SemMax` is the largest
count. `MCRawIpc` lets a behaviour use one object (`Uses`), because the objects share nothing
but the tasks; `ObjectsCorrect` below is for any use of any number of them. A ring of two slots wraps in both directions with every filling; three nodes are
the fewest that give a stale `next` behind a list of two. The kernel does not look at
messages, so they are permuted (`MCSymmetry`; no property of that run is a liveness
property). In `MCRawTimer` two timers of one task expire in the same tick and a third
stands among them; each timer has one task that uses it, because with two the finding
breaks the list. `MaxPending` 1 lets a timer tick wait while the timer task is at work.
Deadlock checking is off for `MCRawMutexCeiling` and `MCRawMutexFree`, where all tasks may
wait for each other and no interrupt comes, and for `MCRawExt` and `MCRawBytePool`.

Fairness (`TaskFairness`): the tick interrupt keeps coming whenever interrupts are enabled
again and again, handlers end, and a task that is returning from a critical section
continues. These are promises of the hardware and of straight-line kernel code. Nothing is
assumed about tasks: they may loop forever or hold the scheduler lock, and `Preemption`
and `TimedWaitEndsUnlocked` say what follows then. In `RawTickTask` the steps of the kernel
task itself are fair (strongly, because interrupts disable them for a while).
`TimerFairness` asks for the tick interrupt and for the steps of the timer task, whose
callbacks return; the tasks that use timers need not move at all, because a step
that holds `timer_mutex` is one step.

The instance of `MCRawExt`, and what bounds it:

| part | instance | bounds |
|---|---|---|
| `RawIdleEvent` | `IdleMax` 4 objects in rows of `IdleWidth` 2, rings of `IdleEnd` 2 | events go to objects 0 and 2 (`IdlePosted`), the first of each row; delays of 1 and 2 (`IdleTicks`) |
| `RawStm` | eight states below the top state, up to three deep, initial transitions that skip a level; flat machines as well | `StmMaxNest` 6 as in the code; a flat machine only when `part` is `"stm"` |
| `RawBlock` | pools of 16 to 28 bytes, blocks of 4, 8 and 12, words of 4, two users | `PoolSize`, `BlockSize` give pools that end with a block and with a part of one |
| `RawByte` | 18 words, requests of 2 and 5, two tasks that search in turn | `BlockMin` 5 is `RAW_BYTE_BLOCK_MIN`; `MergeStart` FALSE leaves out the merge of the finding |
| `RawPage`, `RawMalloc` | 8 pages, requests of 1 to 4; 2 pages of 12 units, requests of 1, 3 and 11 | at most `MallocHeld` 3 areas are held |
| `RawFifo` | 4 bytes, counters modulo `FifoWrap` 8, pieces of 1 and 3 | the counters wrap, a piece is longer than the room |
| `RawWorkQueue` | two queues of one slot, two callers, three descriptors | `WorkQSize` 1 makes a full queue common |
| `RawProcess` | two processes, a ring of `NumEvents` 2 | `ProcNest` 3 frames; `IntPosts` FALSE and `Careful` TRUE: see below |
| `RawEtimer` | two processes, two timers, intervals of 1 and 2, `AdjustBy` 1 | `ClockMax` 3 ticks of a clock modulo `ClockWrap` 16; a timer that starts in the future is not moved on (`Movable`), none is moved back (`AdjustBack` is empty): see below |
| `RawActive` | two objects with queues of one slot, a client, one pool event, one time event | the time event is for one object (`Timed`), which may defer it (`Deferrable`; not the pool event: see below); handlers do not post it themselves (`Reposted`); the two calls of a delete are one step |
| `RawPosix` | three threads, at most `CondCount` 2 signals kept | a thread does not lock the mutex it has; `pthread_cond_init` is called for a variable nobody waits for |

Each constant that stands for a limit of the code is small enough to be reached, and each
object is used by as many callers as can meet in one: two that search, post or schedule,
and a third only where one of them would otherwise have nobody to compete with. The parts
share no state, so a behaviour that uses two of them is one of each. Deadlock checking is off because
a state machine with an assertion that failed, or a clock at `ClockMax`, stops.

Where the code does something else than one would expect, the run leaves the case out by a
constant, and putting the constant back shows it:

- `IdlePosted = {0, 1}`: `ServesMostUrgent` fails. `raw_idle_map_table` (`raw_obj.c:131`)
  holds eight times the number of a bit, which is right for the row, and `idle_run` adds it
  for the column undivided (`raw_idle_event.c:243`): an object that is not the first of its
  row is not found.
- `IntPosts = TRUE`: `process_post` takes its number in the ring and counts the event inside
  a critical section and fills the slot after it, with the number in a static variable
  (`process.c:325-334`). An interrupt handler that posts in between moves that number on, and
  an event is lost (`EventsKept` fails).
- `Careful = FALSE`: `ProcessesOK` fails. `process_exit` may be called for the current
  process (`process.h:374-376`); if the thread then yields instead of ending, `call_process`
  sets the process RUNNING although it is off the list (`process.c:168-175`). With `Careful` a
  thread exits its own process only as its last act, and no thread ends a process that has
  called it or that is exiting already; processes that run and have not called are ended
  freely.
- Pool events in `Deferrable`: `DeferredIsKept` of `RawActive` fails.
  `active_event_defer_post` counts no reference for the place in the deferred queue
  (`active_object.c:290-301`), so `active_memory_collect` gives the block back when the
  handler returns (`active_memory.c:106-117`), and it stands in that queue freed.
- `ClockMax = ClockWrap`: `ServedNextTick` of `RawEtimer` fails. When the nearest timer goes
  with its process, `next_expiration` stays what it was (`etimer.c:91-110`), and a poll that
  finds no expired timer does not renew it. Before the wrap that is harmless, as
  `next_expiration <= current_clock` (`clock_port.c:13`) holds from then on; after it the old
  value is larger than the clock, and the other timers wait for most of a round. The property
  fails too when `etimer_process` is not polled for most of a round.
- Numbers in `AdjustBack`: `ServedNextTick` fails too. A timer that `etimer_adjust` moves
  behind the present tick has an unsigned remaining time of nearly a round of the clock,
  which `update_time` takes as the distance (`etimer.c:57-85`).
- `MergeStart = TRUE`: the finding of `MCRawBytePool`.
- With ceiling mutexes `DispatchOK` fails, because `raw_mutex_put` lowers the priority of
  the caller and returns without `raw_sched()` when nobody waits (`raw_mutex.c:561`).
- With values in `NewTime`, `NoMissedTick` fails: `raw_system_time_set` changes the counter
  that every `tick_match` was computed from.
- With `Redelete`, `OwnershipOK` fails: the chain of mutexes of a deleted task is released
  once more.
- With 0 among the first ticks of `Params`, `raw_timer_change` puts a timer at the head of
  the list with a `match` that has passed, and the timers behind it wait until the count has wrapped.

Three smaller ones need no constant and are modelled as the code does them: the slice is
charged to the head of the ready list of the active priority, which need not be the active
task (`raw_sched.c:186`); `raw_task_wait_abort` of a suspended task whose wait has already
ended makes it ready and leaves `block_status`, so the call returns success
(`raw_task.c:1294`); `free_pages` asserts when a block with the last page is freed
(`raw_page.c:238`). And one follows from `ImplementsAbsEvent`: `raw_munlock` sets a flag, which
releases every task in `raw_mlock`, so several hold the lock.

## Proofs

Every theorem is for all sets of tasks, priorities, objects, threads and blocks and for every
argument the application may pass, within the assumptions named with it.

| module | theorem | states | assumes |
|---|---|---|---|
| `RawTaskProofs` | `TaskInvariant` | `TaskSpec => []TaskInv` | |
| | `TypesCorrect`, `ListsCorrect`, `HighestCorrect` | its consequences `TaskTypeOK`, `ListsOK`, `HighestOK` | |
| | `NeverFaults` | `[]NoFault`: no system error is reported | `Mutex = {}` |
| | `LockCorrect` | `[]LockHolds` | |
| | `NoTickMissed` | `[]NoMissedTick` | `NewTime = {}` |
| | `StatusIsFresh` | `[]FreshStatus` | |
| | `DispatchCorrect` | `[]DispatchOK` | `Mutex = {}` |
| `RawSemProofs` | `SemListsCorrect` | `SemSpec => []ListsOK`, with objects created and deleted | |
| | `NoTokenLost` | `[](CountOK /\ TokenOrWaiters)` | |
| | `DeletedHasNoWaiters` | `[]DeletedIsEmpty` | |
| | `SuspensionCorrect` | `SemSpec => SuspensionHolds` | |
| | `SemRefinesAbs` | `SemSpec => ImplementsAbsSem` | |
| `RawMutexProofs` | `WaitersStaySorted` | `MutexSpec => []BlockListSorted` | |
| | `OwnershipCorrect` | `MutexSpec => []OwnershipOK` | `Redelete = FALSE` |
| | `CeilingCorrect` | `MutexSpec => []CeilingRespected` | `Redelete = FALSE` |
| | `SuspensionCorrect` | `MutexSpec => SuspensionHolds` | |
| | `MutexRefinesAbs` | `MutexSpec => ImplementsAbsMutex` | `Redelete = FALSE`; `MaxNested = 1` or `Deletable = {}` |
| `RawIpcProofs` | `ObjectsCorrect` | `IpcSpec => []ObjectsOK` | |
| | `EventRefinesAbs` | `IpcSpec => ImplementsAbsEvent` | |
| `RawTickProofs` | `OnlyTickTaskIsLate` | `TickSpec => []DispatchExceptTick` | `Mutex = {}` |
| | `NoTickIsLost` | `TickSpec => []NoTickLost` | `NewTime = {}`, nobody aborts or deletes the tick task |
| `RawExtProofs` | `BlockPoolsAreSafe` | `BlockSpec => []BlockPoolOK` | |
| | `SignalsAreKept` | `PosixSpec => []NoSignalLost` | |
| | `FifoKeepsOrder` | `FifoSpec => FifoOrder` | |
| | `DescriptorsAreKept` | `WorkSpec => []DescriptorsOK` | |
| | `EventsAreCounted` | `ActiveSpec => []EventRefsOK`, which speaks of the pool events that are not deferred | |
| | `NoExpiryIsMissed` | `EtimerSpec => []NoExpiryMissed` | intervals and moves up to a quarter of the clock, forward; the clock has not wrapped |

Where a theorem has an assumption, the code needs it, and a run without it fails or would:
`raw_system_time_set` (`NewTime`) moves the counter from which every `tick_match` was
computed; to delete the block of a deleted task (`Redelete`) releases its chain of mutexes
once more; a mutex of a deleted task goes to its first waiter with the count the dead task had
(the finding of `MCRawMutexFree`), so the refinement of `AbsMutex` needs that no mutex is
taken twice or that no task is deleted; chains of inheritance longer than
`mutex_recursion_levels` report a system error, and `raw_mutex_put` lowers a priority
without `raw_sched`, so `NoFault` and `DispatchOK` are proved where no mutex is owned;
a tick task that is taken out of its wait or deleted does not come for its tokens;
event timers are proved for a clock that has not wrapped and for moves forward, because
the code misses expiries in each of the other two cases, for the smallest moves and
intervals as well (above).
The other `ASSUME`s of the modules say what the arguments are (numbers, finite sets, ticks
below `TickMod`, call values that are no objects); TLC evaluates them in every run.

**Lists and the ready queue.** `ListsOK` is not inductive: removing a task from a ready list
is right only if the index was right and the lists held no block twice, choosing a task needs
a non-empty list, and the idle task must never leave its own. `Consistent(K)` in `RawKernel`
is the conjunction that every internal function preserves: types, `IndexOK`, `Once`,
`LinkedAs` for each task, `BlockSorted`, `TicksOK`, and `IdleOK` (the idle task is ready at
the lowest priority and owns nothing). `TicksOK` says that the tick list is sorted by the
ticks that *remain*, the difference to the counter modulo `TickMod`: only with it does the
loop of `tick_list_update`, which stops at the first task that is not due, miss nobody behind
it. `RawKernelProofs` has a lemma for each internal function, which says what it does to the
task it is called for and that the other tasks stay linked as they were; the chains of
priority inheritance are proved by following the unrolled calls from the deepest one
outwards. `RawListProofs` has the facts about sequences (insertion before the first later
element keeps the order, removal of the first occurrence). `TaskInv` adds what connects the
kernel record to the control state: an active task that is not ready has only the way to
`raw_sched` ahead and the scheduler is then unlocked (`StoppedTaskLeaves`), what a loop
carries (`LoopOK`), and the state before `raw_os_start`. There is one lemma per action.

**Results of waits.** Each of those lemmas also says that the action starts no wait and
leaves the objects alone (`Calm`), and whom it tells a result. `FreshInv` says that a task
that left its wait was told why by whoever released it (`Told`), whatever happened between the
release and the moment it looks; before, the field holds what an earlier wait left. And each
lemma says that a suspended task stays so (`StaysSuspended`), from what the internal
functions do to a task of every state; only resuming and aborting have no such lemma. With
semaphores and with mutexes that covers every end of a wait, one by one inside a loop or not
(`SuspensionCorrect`).

**The scheduler.** `DispatchInv` says that the active task is the most urgent ready one
whenever no choice is ahead (`NothingAhead`); `DispatchOK` is weaker, as it leaves out the
states inside a critical section with a loop, and would not be inductive.

**Semaphores.** `SemInv` adds to `TaskInv` what the loop that releases waiters carries
(`WakeOK`), that a semaphore with a token has no waiter, and that one that is neither alive
nor being deleted has none. For the refinement `CallInv` relates a task in
`block_state_post_process` to the outcome its call has in `AbsSem`; each step of the kernel is
then a step of `AbsSem` or changes none of its variables.

**Mutexes.** `OwnInv` says of each task that following `mtx_list` from its head visits
exactly the mutexes whose `mtxtsk` is the task, each once (`HoldsList`). The mutexes visited
are `chain_from`, the least set that contains the head and is closed under `mtx_list`, so
that the facts needed (unlinking the head or a later one removes that one, linking adds one)
follow without induction over the chain. `CeilingRespected` speaks of owners only; a mutex is
handed to a waiter without another look at its ceiling, so `CeilingInv` bounds the base
priority of those who own the mutex *or wait for it* (`Bounded`). `raw_task_priority_change`
checks the mutex in `block_obj` for that, also of a task that does not wait, and so
`NoStray` says that such a task has none: whoever ends a wait forgets what it was for.
For the refinement, `AbsInv` adds to `CallInv` that a mutex that is held is counted and not
above the limit (`NestOK`) and that waiters released in a loop are those of a deleted mutex
(`WakeDel`). A step moves at most one task, and `OneWait` says what its wait in `AbsMutex`
may do if no mutex changes hands; `HoldStep` and `GrantStep` are the hand-over. That `Die`
finds the deleted task without mutexes is `OwnInv` again: the loop of `raw_task_delete` ends
where `mtx_list` does, and no mutex of the task is elsewhere.

**The tick.** The tick task may go on while a more urgent task is ready, because its
critical sections end without `raw_sched` (`TickAlone`). `NoTickInv` counts: ticks taken by
the interrupt are the ticks counted, plus the tokens of the semaphore, plus one while the
task holds one (`Tokens`, `Holding`), modulo `TickMod` because the counter wraps.

**Events and queues.** `IpcInv` is the conjunction of `TaskInv`, `NoneForDead` (an object
that does not exist has no waiters, so a new one has none) and one part for each kind of
object. An operation on an object gives `Base`: it starts no wait for another object and
neither creates nor deletes one, so the parts of the other kinds stay. `wake_waitersWake`
says which tasks are woken when several leave a list within one step, each in the kernel that
the wake-up before it left. A task that waits for an event asked for flags that are not set
(`EventInv`). A ring is described from its read index on (`IsRing`), and a remainder is
taken at most once around. For the linked nodes the order is a witness: `Linked` says
that some permutation of the nodes has the stored ones first, from `read` to `write`, and then
the free ones, from `free_msg` to the null pointer, and that `next` follows it, with one
exception: the `next` of the last stored node is whatever was left there. A post at the front
rotates the permutation, a receive moves the first node behind the stored ones; what the
recursive walk of `NodesOK` collects follows from the order by the length alone. For the ring
of bytes a place is named by its distance from `head` (`around`), so that a message that wraps
in its header or its body looks like any other; all distances are multiples of the header
size, and so the rounded length of a message still fits where `is_queue_buffer_free` compared
the unrounded one (`RoundUpTo`). For the refinement of `AbsEvent` the wait of a task is what
it looks like from outside (`View`); a step that is not a set changes it as `OneView` says,
and a set releases exactly the waiters whose request the flags satisfy before any of them
clears some.

**Other parts.** The list of free blocks of a pool is longer than its count by the part of a
block at the end of the pool; inductive is that the blocks before the last count are
whole (`CountedWhole`), different (`ListedOnce`) and nobody's (`ListedFree`). A destroyed
condition variable has no count. The counters of a fifo wrap at the width of their type; they index the buffer correctly because its size, a
power of two, divides that width. A descriptor of a work queue is in one place (`OnePlace`),
and no list holds one twice, or taking it would leave it there (`EachOnce`). For the events of
active objects the five parts of `references` are cardinalities of sets, and `Moves` says what
a step does to their sum from the one queue, execution and call that it changes; `HeldOK`
says that an event that is allocated and not posted has no reference and one owner. Events
that a handler may defer are not counted, as `active_event_defer_post` counts nothing for
them; an object may be deleted at any moment, also while it executes an event.
For event timers `Timely` says what `next_expiration`, or the value that `update_time` is about
to store there, promises to each timer on the list: it is not behind the end of the timer, or
the end has passed and `etimer_process` is asked for or still in its loop.

**Only model-checked.** Liveness, which is outside the prover's reach, with the fairness it
needs. The refinements of queues and timers, whose abstract steps follow
from arithmetic on two indices (the rings) or from pointers (`RawTimer`, `RawQueueSize`). `PriorityInheritance`, which is about the maximum along chains of any
length. Sums and trees over data, which need induction:
`BytePoolOK`, `HeapsOK`, `ActiveStatesOK`, `CommonStateUntouched`. `ServesMostUrgent`, which holds for one
object of each row only. And `TimerListOK` and `ProcessesOK`, which have not been tried.

## Plan

Done: the kernel with its objects, the parts around it, and the proofs above. What would
come next:

1. to prove: the refinements of `AbsQueue`, which have `IpcInv` to rest on, and the timer
   list;
2. to model-check: `RawMutex` with more than two mutexes, `RawByte` with the merge once the
   finding is settled.

## Not modelled

- Task queues (`raw_task_queue_size.c`): each function is one call of `raw_queue_size.c`
  with the queue in the task block. `raw_mlock.c` is four calls of event functions.
- In modelled components: stack checks, user pointers, names, peak values, statistics
  (`raw_stat.c`) and the read-only queries, which no other part reads;
  `tick_work_handler`, a third way to call `tick_list_update` from a task; delayed work, which is a timer that
  calls `sche_work_queue`; `stimer.c`, which only computes with the clock.
- POSIX: creating, joining, detaching and ending threads, the semaphores, which are one call
  each, and time; `pthread_rwlock.c` is empty.
- `heap_1.c` to `heap_5.c`, `raw_tlsf.c`, the slab, buddy and frame allocators and the
  red-black tree are other projects' code behind the scheduler lock.
- Strings, formatting, shell and devices: text, input and output.
