----------------------------- MODULE RawKernel -----------------------------
(***************************************************************************)
(* The data structures of the raw-os kernel and the internal functions     *)
(* that change them: the ready queue and the block lists (raw_pend.c), the *)
(* tick list (raw_tick.c), the mutex chains and priority inheritance       *)
(* (raw_mutex.c) and the switch on task_state they share (raw_task.c).     *)
(*                                                                         *)
(* All of these functions run inside one critical section                  *)
(* (RAW_CRITICAL_ENTER .. EXIT disables interrupts), so each is an         *)
(* operator from a kernel state K to the next one.  They carry the name of *)
(* the C function.  A LIST is a sequence; the task_bit_map is the set of   *)
(* priorities whose bit is set.                                            *)
(***************************************************************************)
EXTENDS Integers, RawList

CONSTANTS
  Task,        \* the RAW_TASK_OBJ blocks of the system
  Idle,        \* raw_idle_obj
  NoTask,      \* the null task pointer
  PrioMax,     \* CONFIG_RAW_PRIO_MAX; 0 is the most urgent priority
  Obj,         \* the blocking objects (RAW_COMMON_BLOCK_OBJECT)
  NoObj,       \* the null object pointer
  FifoObj,     \* the objects whose block_way is RAW_BLOCKED_WAY_FIFO
  Mutex,       \* the objects that are mutexes
  Policy,      \* policy of each mutex: "inherit", "ceiling" or "none"
  Ceiling,     \* ceiling_prio of each mutex
  TimeTotal,   \* the longest round-robin slice of a task, in ticks
  TickMod      \* raw_tick_count counts modulo TickMod

Prio == 0 .. PrioMax - 1
IdlePrio == PrioMax - 1            \* IDLE_PRIORITY
Ticks == 0 .. TickMod - 1

ASSUME KernelAssumption ==
  /\ Idle \in Task /\ NoTask \notin Task
  /\ PrioMax \in Nat /\ PrioMax > 1
  /\ NoObj \notin Obj /\ FifoObj \subseteq Obj /\ Mutex \subseteq Obj
  /\ Policy \in [Mutex -> {"inherit", "ceiling", "none"}]
  /\ Ceiling \in [Mutex -> 0 .. PrioMax - 2]
  /\ TimeTotal \in Nat \ {0}
  /\ TickMod \in Nat /\ TickMod > 1

Pending   == {"PEND", "PEND_SUSPENDED", "PEND_TIMEOUT", "PEND_TIMEOUT_SUSPENDED"}
Timed     == {"DLY", "DLY_SUSPENDED", "PEND_TIMEOUT", "PEND_TIMEOUT_SUSPENDED"}
Suspended == {"SUSPENDED", "DLY_SUSPENDED", "PEND_SUSPENDED", "PEND_TIMEOUT_SUSPENDED"}
TaskState == Pending \cup Timed \cup Suspended \cup {"RDY", "DELETED"}

\* "STALE" stands for whatever an earlier wait left in block_status.
BlockState == {"OK", "ABORT", "TIMEOUT", "DEL", "STALE"}

KernelState ==
  [ task_ready_list  : [Prio -> Seq(Task)],
    task_bit_map     : SUBSET Prio,
    highest_priority : Prio,
    raw_task_active  : Task,
    task_state       : [Task -> TaskState],
    priority         : [Task -> Prio],
    bpriority        : [Task -> Prio],
    suspend_count    : [Task -> Nat],
    sched_fifo       : SUBSET Task,    \* the tasks whose sched_way is SCHED_FIFO
    time_total       : [Task -> 1 .. TimeTotal],
    time_slice       : [Task -> 0 .. TimeTotal],
    block_status     : [Task -> BlockState],
    block_obj        : [Task -> Obj \cup {NoObj}],
    block_list       : [Obj -> Seq(Task)],
    live             : SUBSET Obj,     \* object_type is still that of the object
    tick_head        : Seq(Task),
    tick_match       : [Task -> Ticks],
    raw_tick_count   : Ticks,
    mtxtsk           : [Mutex -> Task \cup {NoTask}],
    owner_nested     : [Mutex -> Nat],
    mtxnext          : [Mutex -> Mutex \cup {NoObj}],  \* mtxlist of a mutex
    mtxlist          : [Task -> Mutex \cup {NoObj}],   \* mtxlist of a task
    fault            : BOOLEAN ]       \* port_system_error_process was called

Fault(K) == [K EXCEPT !.fault = TRUE]

-----------------------------------------------------------------------------
(* raw_pend.c: the ready queue.                                             *)

\* Mutant: highest_priority is not raised.
mark_ready_KeepsHighest(K, p) == [K EXCEPT !.task_bit_map = @ \cup {p}]

mark_ready(K, p) ==
  [K EXCEPT !.task_bit_map = @ \cup {p},
            !.highest_priority = IF p < @ THEN p ELSE @]

add_ready_list_head(K, t) ==
  LET p == K.priority[t]
  IN  mark_ready([K EXCEPT !.task_ready_list[p] = <<t>> \o @], p)

add_ready_list_end(K, t) ==
  LET p == K.priority[t]
  IN  mark_ready([K EXCEPT !.task_ready_list[p] = Append(@, t)], p)

add_ready_list(K, t) ==
  IF K.priority[t] = K.priority[K.raw_task_active]
  THEN add_ready_list_end(K, t)
  ELSE add_ready_list_head(K, t)

remove_ready_list(K, t) ==
  LET p    == K.priority[t]
      K1   == [K EXCEPT !.task_ready_list[p] = RemoveFirst(@, t)]
      bits == K.task_bit_map \ {p}
      next == {q \in bits : q >= p}
  IN  IF K1.task_ready_list[p] # <<>> THEN K1
      ELSE IF p # K.highest_priority THEN [K1 EXCEPT !.task_bit_map = bits]
      ELSE IF next = {} THEN Fault([K1 EXCEPT !.task_bit_map = bits])
      ELSE [K1 EXCEPT !.task_bit_map = bits, !.highest_priority = Min(next)]

move_to_ready_list_end(K, t) ==
  [K EXCEPT !.task_ready_list[K.priority[t]] = Append(RemoveFirst(@, t), t)]

HighestReady(K) == Head(K.task_ready_list[K.highest_priority])

get_ready_task(K) == [K EXCEPT !.raw_task_active = HighestReady(K)]

(* raw_sched.c: round robin among the tasks of one priority. *)
calculate_time_slice(K, p) ==
  LET list == K.task_ready_list[p]
      t    == Head(list)
  IN  IF list = <<>> THEN K
      ELSE IF t \in K.sched_fifo \/ Len(list) = 1 THEN K
      ELSE IF K.time_slice[t] > 1 THEN [K EXCEPT !.time_slice[t] = @ - 1]
      ELSE [move_to_ready_list_end(K, t) EXCEPT !.time_slice[t] = K.time_total[t]]

-----------------------------------------------------------------------------
(* raw_tick.c: the tick list, sorted by remaining time.  A task that is not *)
(* on the list has tick_match 0: the field is not read then.                *)

tick_remain(K, t) == (K.tick_match[t] - K.raw_tick_count) % TickMod
tick_remains(K) == [t \in Task |-> tick_remain(K, t)]

\* Mutant: sorted by the absolute tick, wrong when raw_tick_count wraps.
tick_list_insert_Absolute(K, t, time) ==
  LET match == (K.raw_tick_count + time) % TickMod
  IN  [K EXCEPT !.tick_head = InsertBefore(@, t, {u \in Task : K.tick_match[u] > match}),
                !.tick_match[t] = match]

tick_list_insert(K, t, time) ==
  [K EXCEPT !.tick_head = InsertBefore(@, t, {u \in Task : tick_remain(K, u) > time}),
            !.tick_match[t] = (K.raw_tick_count + time) % TickMod]

tick_list_remove(K, t) ==
  [K EXCEPT !.tick_head = RemoveFirst(@, t), !.tick_match[t] = 0]

-----------------------------------------------------------------------------
(* raw_pend.c: the block list of an object.                                 *)

add_to_block_list(K, o, t) ==
  [K EXCEPT !.block_list[o] =
     IF o \in FifoObj THEN Append(@, t)
     ELSE InsertBefore(@, t, {u \in Task : K.priority[u] > K.priority[t]})]

unlink_blocked(K, t) ==
  [K EXCEPT !.block_list[K.block_obj[t]] = RemoveFirst(@, t)]

\* Mutants: inserted without list_delete; a changed priority ignored.
change_pend_list_priority_Twice(K, t) == add_to_block_list(K, K.block_obj[t], t)
change_pend_list_priority_Skipped(K, t) == K

change_pend_list_priority(K, t) ==
  IF K.block_obj[t] \in FifoObj THEN K
  ELSE add_to_block_list(unlink_blocked(K, t), K.block_obj[t], t)

\* timeout is 0 for RAW_WAIT_FOREVER; RAW_NO_WAIT never gets here.
raw_pend_object(K, o, t, timeout) ==
  LET K1 == [K EXCEPT !.block_obj[t] = o]
      K2 == IF timeout = 0
            THEN [K1 EXCEPT !.task_state[t] = "PEND"]
            ELSE [tick_list_insert(K1, t, timeout) EXCEPT !.task_state[t] = "PEND_TIMEOUT"]
  IN  add_to_block_list(remove_ready_list(K2, t), o, t)

make_ready(K, t) == [add_ready_list(K, t) EXCEPT !.task_state[t] = "RDY"]

\* Mutant: a suspended task is made ready.
make_runnable_Resumes(K, t) == make_ready(unlink_blocked(K, t), t)

\* The first half of every wake-up: off the block list, and on the ready
\* list unless the task is suspended as well.
make_runnable(K, t) ==
  LET K1 == unlink_blocked(K, t)
  IN  IF K.task_state[t] \in {"PEND", "PEND_TIMEOUT"}
      THEN make_ready(K1, t)
      ELSE [K1 EXCEPT !.task_state[t] = "SUSPENDED"]

\* pend_task_wake_up is wake_up(K, t, "OK"), delete_pend_obj wake_up(K, t, "DEL").
wake_up(K, t, status) ==
  IF K.task_state[t] \notin Pending THEN Fault(K)
  ELSE [tick_list_remove(make_runnable(K, t), t)
          EXCEPT !.block_status[t] = status, !.block_obj[t] = NoObj]

\* The loops over the tasks that wait for o, from the head of the list on, which
\* wake those of T.
wake_waiters(K, o, T, status) ==
  LET list == K.block_list[o]
      woken[i \in 0 .. Len(list)] ==
        IF i = 0 THEN K
        ELSE IF list[i] \in T THEN wake_up(woken[i - 1], list[i], status)
        ELSE woken[i - 1]
  IN  woken[Len(list)]

-----------------------------------------------------------------------------
(* raw_mutex.c: the mutexes a task holds are a linked list through mtxlist. *)

\* What is reached from first along next: the least set that holds first and the
\* successor of each of its members.
chain_from(next, first) ==
  {m \in Mutex : \A S \in SUBSET Mutex :
     ({first} \cup {next[n] : n \in S}) \ {NoObj} \subseteq S => m \in S}

mutex_chain(K, t) == chain_from(K.mtxnext, K.mtxlist[t])

push_mutex(K, t, m) ==
  [K EXCEPT !.mtxtsk[m] = t, !.mtxnext[m] = K.mtxlist[t], !.mtxlist[t] = m]

\* Mutant: only the mutex that was taken last is unlinked.
unlink_mutex_OnlyFirst(K, t, m) ==
  IF m # NoObj /\ K.mtxlist[t] = m THEN [K EXCEPT !.mtxlist[t] = K.mtxnext[m]] ELSE K

unlink_mutex(K, t, m) ==
  IF m = NoObj THEN K
  ELSE [K EXCEPT !.mtxlist[t] = IF @ = m THEN K.mtxnext[m] ELSE @,
                 !.mtxnext = [n \in Mutex |->
                    IF n \in mutex_chain(K, t) /\ @[n] = m THEN @[m] ELSE @[n]]]

\* The priorities the held mutexes lend to t.
lent_priorities(K, t) ==
  LET held == mutex_chain(K, t)
  IN  {Ceiling[m] : m \in {n \in held : Policy[n] = "ceiling"}}
      \cup {K.priority[Head(K.block_list[m])] :
              m \in {n \in held : Policy[n] = "inherit" /\ K.block_list[n] # <<>>}}

chg_pri_mutex(K, t, p) == Min({p} \cup lent_priorities(K, t))

exceeds_ceiling(K, t, p) ==
  \E m \in Mutex :
    /\ Policy[m] = "ceiling" /\ p < Ceiling[m]
    /\ m \in mutex_chain(K, t) \/ (K.block_obj[t] = m /\ m \in K.live)

-----------------------------------------------------------------------------
(* Priority inheritance.  change_internal_task_priority, mtx_chg_pri and    *)
(* release_mutex call each other; mutex_recursion_levels stops the chain    *)
(* after CONFIG_RAW_MUTEX_RECURSION_LEVELS + 1 = 4 nested mtx_chg_pri.  The *)
(* operators below take the rest of the chain as an argument and the chain  *)
(* is unrolled from its deepest call.                                       *)

change_priority_then(K, t, p, Chain(_, _, _)) ==
  LET K1 == [K EXCEPT !.priority[t] = p]
      K2 == [remove_ready_list(K, t) EXCEPT !.priority[t] = p]
  IN  CASE K.task_state[t] = "RDY" ->
             IF t = K.raw_task_active THEN add_ready_list_head(K2, t)
                                      ELSE add_ready_list_end(K2, t)
        [] K.task_state[t] \in {"DLY", "SUSPENDED", "DLY_SUSPENDED"} -> K1
        [] K.task_state[t] \in Pending ->
             Chain(change_pend_list_priority(K1, t), t, K.priority[t])
        [] OTHER -> K

release_mutex_then(K, t, m, Change(_, _, _)) ==
  LET K1     == unlink_mutex(K, t, m)
      newpri == Min({K1.bpriority[t]} \cup lent_priorities(K1, t))
  IN  IF newpri = K1.priority[t] THEN K1 ELSE Change(K1, t, newpri)

mtx_chg_pri_then(K, t, oldpri, Change(_, _, _)) ==
  LET m     == K.block_obj[t]
      owner == K.mtxtsk[m]
  IN  IF ~ (m \in Mutex /\ m \in K.live) THEN K
      ELSE IF Policy[m] # "inherit" THEN K
      ELSE IF owner = NoTask THEN Fault(K)             \* null pointer read
      ELSE IF K.priority[owner] > K.priority[t]
      THEN Change(K, owner, K.priority[t])
      ELSE IF K.priority[owner] = oldpri
      THEN release_mutex_then(K, owner, NoObj, Change)
      ELSE K

levels_exceeded(K, t, oldpri) == Fault(K)
change_4(K, t, p) == change_priority_then(K, t, p, levels_exceeded)
mtx_chg_3(K, t, oldpri) == mtx_chg_pri_then(K, t, oldpri, change_4)
change_3(K, t, p) == change_priority_then(K, t, p, mtx_chg_3)
mtx_chg_2(K, t, oldpri) == mtx_chg_pri_then(K, t, oldpri, change_3)
change_2(K, t, p) == change_priority_then(K, t, p, mtx_chg_2)
mtx_chg_1(K, t, oldpri) == mtx_chg_pri_then(K, t, oldpri, change_2)
change_1(K, t, p) == change_priority_then(K, t, p, mtx_chg_1)

\* Mutant: the owner of a mutex passes nothing on to the task it waits for.
mtx_chg_pri_Ignored(K, t, oldpri) == K

mtx_chg_pri(K, t, oldpri) == mtx_chg_pri_then(K, t, oldpri, change_1)

change_internal_task_priority(K, t, p) == change_priority_then(K, t, p, mtx_chg_pri)

release_mutex(K, t, m) == release_mutex_then(K, t, m, change_internal_task_priority)

\* A waiter of a mutex is gone: its owner may lose the inherited priority.
mutex_state_change(K, t) ==
  LET m     == K.block_obj[t]
      owner == K.mtxtsk[m]
  IN  IF ~ (m \in Mutex /\ m \in K.live) THEN K
      ELSE IF Policy[m] # "inherit" THEN K
      ELSE IF owner = NoTask THEN Fault(K)             \* null pointer read
      ELSE IF K.priority[owner] = K.priority[t] THEN release_mutex(K, owner, NoObj)
      ELSE K

\* Mutant: the new owner keeps its priority.
raise_to_ceiling_Skipped(K, t, m) == K

\* The new owner of a ceiling mutex runs at the ceiling.
raise_to_ceiling(K, t, m) ==
  IF Policy[m] = "ceiling" /\ K.priority[t] > Ceiling[m]
  THEN change_internal_task_priority(K, t, Ceiling[m])
  ELSE K

\* One round of the loop of raw_task_free_mutex: owner_nested is not reset.
free_one_mutex(K, m) ==
  IF K.block_list[m] = <<>> THEN [K EXCEPT !.mtxtsk[m] = NoTask]
  ELSE LET t == Head(K.block_list[m])
       IN  raise_to_ceiling(push_mutex(wake_up(K, t, "OK"), t, m), t, m)

-----------------------------------------------------------------------------
(* raw_tick.c, raw_task.c: a wait that ends by timeout or by raw_task_wait_abort. *)

\* Mutant: a suspended task keeps the state of one with a timeout.
tick_expire_KeepsState(K, t) ==
  LET K1 == [tick_list_remove(K, t) EXCEPT !.block_status[t] = "OK"]
  IN  IF K.task_state[t] = "DLY" THEN make_ready(K1, t) ELSE K1

\* One round of the loop of tick_list_update, for a task whose time has come.
tick_expire(K, t) ==
  LET K1 == tick_list_remove(K, t)
  IN  CASE K.task_state[t] = "DLY" ->
             [make_ready(K1, t) EXCEPT !.block_status[t] = "OK"]
        [] K.task_state[t] = "DLY_SUSPENDED" ->
             [K1 EXCEPT !.block_status[t] = "OK", !.task_state[t] = "SUSPENDED"]
        [] K.task_state[t] \in {"PEND_TIMEOUT", "PEND_TIMEOUT_SUSPENDED"} ->
             [mutex_state_change([make_runnable(K1, t) EXCEPT !.block_status[t] = "TIMEOUT"], t)
                EXCEPT !.block_obj[t] = NoObj]
        [] OTHER -> Fault(K)

wait_abort(K, t) ==
  LET K1 == tick_list_remove(K, t)
  IN  CASE K.task_state[t] = "SUSPENDED" -> make_ready(K, t)
        [] K.task_state[t] \in {"DLY", "DLY_SUSPENDED"} ->
             [make_ready(K1, t) EXCEPT !.block_status[t] = "ABORT"]
        [] K.task_state[t] \in Pending ->
             [mutex_state_change([make_ready(unlink_blocked(K1, t), t)
                                    EXCEPT !.block_status[t] = "ABORT"], t)
                EXCEPT !.block_obj[t] = NoObj]
        [] OTHER -> K

-----------------------------------------------------------------------------
(* What holds of the kernel record between two of these functions, whatever *)
(* the tasks do: the part of the inductive invariant that is about k alone. *)

\* task_bit_map and highest_priority are what the ready lists say.
IndexOK(K) ==
  /\ K.task_bit_map = {p \in Prio : K.task_ready_list[p] # <<>>}
  /\ K.highest_priority \in K.task_bit_map
  /\ \A p \in K.task_bit_map : K.highest_priority <= p

\* A block is linked on a list at most once.
ReadyOnce(K) == \A p \in Prio : NoDup(K.task_ready_list[p])
BlockOnce(K) == \A o \in Obj : NoDup(K.block_list[o])
Once(K) == ReadyOnce(K) /\ BlockOnce(K) /\ NoDup(K.tick_head)

\* The first waiter is the most urgent one, but for objects that are served
\* first come first served.
BlockSorted(K) == \A o \in Obj \ FifoObj : Sorted(K.block_list[o], K.priority)

\* The block of t is linked where its state says, and nowhere else.
LinkedAs(K, t) ==
  /\ \A p \in Prio : In(t, K.task_ready_list[p]) <=> (K.task_state[t] = "RDY" /\ K.priority[t] = p)
  /\ \A o \in Obj : In(t, K.block_list[o]) <=> (K.task_state[t] \in Pending /\ K.block_obj[t] = o)
  /\ K.task_state[t] \in Pending => K.block_obj[t] \in Obj
  /\ In(t, K.tick_head) <=> K.task_state[t] \in Timed

\* The idle task is always ready and holds no mutex.
IdleOK(K) ==
  /\ K.task_state[Idle] = "RDY" /\ K.priority[Idle] = IdlePrio
  /\ \A m \in Mutex : K.mtxtsk[m] # Idle

Consistent(K) ==
  /\ K \in KernelState
  /\ IndexOK(K) /\ Once(K) /\ BlockSorted(K) /\ IdleOK(K)
  /\ \A t \in Task : LinkedAs(K, t)
  /\ Mutex = {} => ~ K.fault
=============================================================================
