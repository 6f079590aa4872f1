------------------------------ MODULE RawTimer ------------------------------
(***************************************************************************)
(* Software timers (raw_timer.c): the timer list, the timer task and the   *)
(* tasks that use timers.                                                  *)
(*                                                                         *)
(* timer_sem and timer_mutex are what AbsSem and AbsMutex promise.  The    *)
(* tasks may be preempted anywhere, so their priorities are left out.      *)
(* An API function reads the state of the timer, takes timer_mutex,        *)
(* changes the timer and releases the mutex: the check is one action, what *)
(* follows is another, because only a holder of the mutex could tell the   *)
(* places in between.  The timer task keeps the mutex while it calls the   *)
(* callbacks, and its steps are actions of their own.  A callback "should  *)
(* not touch any timer related API".  What raw_timeout_param points to is  *)
(* left out.                                                               *)
(***************************************************************************)
EXTENDS Integers, FiniteSets

CONSTANTS
  Timer,       \* the RAW_TIMER blocks
  Client,      \* the tasks that use timers
  Head,        \* timer_head
  NoTimer,     \* the null timer pointer
  Uses,        \* the timers each client uses
  Params,      \* <<initial_ticks, reschedule_ticks>> for create and change of each
               \* timer; one whose reschedule_ticks are 0 runs once
  CountMod,    \* raw_timer_count counts modulo CountMod
  Rate,        \* RAW_TIMER_RATE
  MaxPending   \* bound: ticks that wait in timer_sem

ASSUME TimerAssumption ==
  /\ Head \notin Timer /\ NoTimer \notin Timer
  /\ Uses \in [Client -> SUBSET Timer]
  /\ CountMod \in Nat /\ Rate \in Nat \ {0} /\ MaxPending \in Nat \ {0}
  \* raw_timer_change does not refuse initial_ticks = 0.
  /\ Params \in [Timer -> SUBSET ((1 .. CountMod - 1) \X (0 .. CountMod - 1))]

VARIABLES
  timer,            \* the fields of the blocks; match is 0 where it is not read
  next, previous,   \* timer_head and the timer_list nodes of the blocks
  raw_timer_count,
  raw_timer_ctrl,
  timer_sem,        \* tokens of timer_sem
  timer_task,       \* where the timer task is, with its iter and iter_temp
  client            \* the API function a client is in, after its checks

timerVars == <<timer, next, previous, raw_timer_count, raw_timer_ctrl, timer_sem,
               timer_task, client>>
list == <<next, previous>>

Node == Timer \cup {Head}
NoTicks == <<0, 0>>
NoCall == [op |-> "none", timer |-> NoTimer, param |-> NoTicks]

NewTimer == [exists |-> FALSE, state |-> "DEACTIVE", ticks |-> NoTicks, match |-> 0,
             linked |-> FALSE]

\* ticks are <<init_count, reschedule_ticks>>.
init_count(t) == timer[t].ticks[1]
reschedule_ticks(t) == timer[t].ticks[2]

\* timer_mutex is held by the timer task.
Held == timer_task.at \in {"loop", "callback"}

TimerInit ==
  /\ timer = [t \in Timer |-> NewTimer]
  /\ next = [n \in Node |-> n] /\ previous = [n \in Node |-> n]
  /\ raw_timer_count = 0 /\ raw_timer_ctrl = Rate /\ timer_sem = 0
  /\ timer_task = [at |-> "start", iter |-> Head, iter_temp |-> Head]
  /\ client = [c \in Client |-> NoCall]

-----------------------------------------------------------------------------
(* The list: a pair <<next, previous>>.                                     *)

\* list_insert(q, t), before the node q.
inserted(L, q, t) ==
  LET before == L[2][q]
  IN  << [L[1] EXCEPT ![t] = q, ![before] = t], [L[2] EXCEPT ![t] = before, ![q] = t] >>

\* The pointers of t keep their values, which are not read while t is off the
\* list: t itself stands for them.
list_delete(L, t) ==
  << [L[1] EXCEPT ![L[2][t]] = L[1][t], ![t] = t],
     [L[2] EXCEPT ![L[1][t]] = L[2][t], ![t] = t] >>

timer_list_remove(L, t) == IF timer[t].linked THEN list_delete(L, t) ELSE L

remain(t) == (timer[t].match - raw_timer_count) % CountMod

\* Mutant: sorted by match, wrong when raw_timer_count wraps.
later_node_ByMatch(L, val) ==
  LET node[i \in 0 .. Cardinality(Timer)] ==
        IF i = 0 THEN L[1][Head]
        ELSE IF node[i - 1] = Head \/ timer[node[i - 1]].match > (raw_timer_count + val) % CountMod
        THEN node[i - 1]
        ELSE L[1][node[i - 1]]
  IN  node[Cardinality(Timer)]

\* The loop of timer_list_priority_insert: the first node with more than val
\* ticks left, or the head.
later_node(L, val) ==
  LET node[i \in 0 .. Cardinality(Timer)] ==
        IF i = 0 THEN L[1][Head]
        ELSE IF node[i - 1] = Head \/ remain(node[i - 1]) > val THEN node[i - 1]
        ELSE L[1][node[i - 1]]
  IN  node[Cardinality(Timer)]

timer_list_priority_insert(L, t, val) == inserted(L, later_node(L, val), t)

\* raw_timer_count + n
MatchIn(n) == (raw_timer_count + n) % CountMod

-----------------------------------------------------------------------------
(* The API, called by a task.                                               *)

raw_timer_create(c, t, param, auto_activate) ==
  /\ client[c] = NoCall /\ ~ timer[t].exists
  /\ timer' = [timer EXCEPT ![t] = [NewTimer EXCEPT !.exists = TRUE, !.ticks = param]]
  /\ next' = [next EXCEPT ![t] = t] /\ previous' = [previous EXCEPT ![t] = t]
  /\ client' = IF auto_activate
               THEN [client EXCEPT ![c] = [NoCall EXCEPT !.op = "activate", !.timer = t]]
               ELSE client
  /\ UNCHANGED <<raw_timer_count, raw_timer_ctrl, timer_sem, timer_task>>

\* The checks at the beginning of a call, without the mutex.
Checked(c, op, t, param) ==
  /\ client[c] = NoCall
  /\ timer[t].exists
  /\ client' = [client EXCEPT ![c] = [op |-> op, timer |-> t, param |-> param]]
  /\ UNCHANGED <<timer, list, raw_timer_count, raw_timer_ctrl, timer_sem, timer_task>>

check_activate(c, t) ==
  timer[t].state \notin {"ACTIVE", "DELETED"} /\ Checked(c, "activate", t, NoTicks)
check_change(c, t, param) ==
  timer[t].state = "DEACTIVE" /\ Checked(c, "change", t, param)
check_deactivate(c, t) ==
  timer[t].state \notin {"DEACTIVE", "DELETED"} /\ Checked(c, "deactivate", t, NoTicks)
check_delete(c, t) ==
  timer[t].state # "DELETED" /\ Checked(c, "delete", t, NoTicks)

\* From raw_mutex_get to raw_mutex_put.
Locked(c, op) ==
  /\ client[c].op = op /\ ~ Held
  /\ client' = [client EXCEPT ![c] = NoCall]
  /\ UNCHANGED <<raw_timer_count, raw_timer_ctrl, timer_sem, timer_task>>

SetList(L) == next' = L[1] /\ previous' = L[2]

raw_timer_activate(c) ==
  LET t == client[c].timer
  IN  /\ Locked(c, "activate")
      /\ SetList(timer_list_priority_insert(list, t, init_count(t)))
      /\ timer' = [timer EXCEPT ![t].match = MatchIn(init_count(t)),
                                ![t].linked = TRUE, ![t].state = "ACTIVE"]

raw_timer_change(c) ==
  LET t == client[c].timer
  IN  /\ Locked(c, "change")
      /\ timer' = [timer EXCEPT ![t].ticks = client[c].param]
      /\ UNCHANGED list

raw_timer_deactivate(c) ==
  LET t == client[c].timer
  IN  /\ Locked(c, "deactivate")
      /\ SetList(timer_list_remove(list, t))
      /\ timer' = [timer EXCEPT ![t].linked = FALSE, ![t].match = 0, ![t].state = "DEACTIVE"]

raw_timer_delete(c) ==
  LET t == client[c].timer
  IN  /\ Locked(c, "delete")
      /\ SetList(timer_list_remove(list, t))
      /\ timer' = [timer EXCEPT ![t].exists = FALSE, ![t].linked = FALSE, ![t].match = 0,
                                ![t].state = "DELETED"]

-----------------------------------------------------------------------------
(* The tick interrupt and the timer task.                                   *)

call_timer_task ==
  /\ timer_sem < MaxPending
  /\ raw_timer_ctrl' = IF raw_timer_ctrl = 1 THEN Rate ELSE raw_timer_ctrl - 1
  /\ timer_sem' = IF raw_timer_ctrl = 1 THEN timer_sem + 1 ELSE timer_sem
  /\ UNCHANGED <<timer, list, raw_timer_count, timer_task, client>>

TaskGoes(where) == timer_task' = [timer_task EXCEPT !.at = where]

timer_task_start ==
  /\ timer_task.at = "start"
  /\ timer_sem' = 0
  /\ TaskGoes("wait")
  /\ UNCHANGED <<timer, list, raw_timer_count, raw_timer_ctrl, client>>

timer_task_take ==
  /\ timer_task.at = "wait" /\ timer_sem > 0
  /\ timer_sem' = timer_sem - 1
  /\ TaskGoes("lock")
  /\ UNCHANGED <<timer, list, raw_timer_count, raw_timer_ctrl, client>>

timer_task_lock ==
  /\ timer_task.at = "lock"
  /\ raw_timer_count' = (raw_timer_count + 1) % CountMod
  /\ timer_task' = [at |-> "loop", iter |-> next[Head], iter_temp |-> Head]
  /\ UNCHANGED <<timer, list, raw_timer_ctrl, timer_sem, client>>

Expired == timer_task.iter # Head /\ timer[timer_task.iter].match = raw_timer_count

\* Mutant: a timer that runs once stays TIMER_ACTIVE.
timer_task_expire_StaysActive ==
  /\ timer_task.at = "loop" /\ Expired
  /\ LET t == timer_task.iter
         p == reschedule_ticks(t)
         L == timer_list_remove(list, t)
     IN  IF p > 0
         THEN /\ SetList(timer_list_priority_insert(L, t, p))
              /\ timer' = [timer EXCEPT ![t].match = MatchIn(p), ![t].linked = TRUE]
         ELSE /\ SetList(L)
              /\ timer' = [timer EXCEPT ![t].linked = FALSE, ![t].match = 0]
  /\ timer_task' = [timer_task EXCEPT !.at = "callback", !.iter_temp = next[timer_task.iter]]
  /\ UNCHANGED <<raw_timer_count, raw_timer_ctrl, timer_sem, client>>

\* The timer comes off the list, back on it if it has a period, and its
\* callback is called.
timer_task_expire ==
  /\ timer_task.at = "loop" /\ Expired
  /\ LET t == timer_task.iter
         p == reschedule_ticks(t)
         L == timer_list_remove(list, t)
     IN  IF p > 0
         THEN /\ SetList(timer_list_priority_insert(L, t, p))
              /\ timer' = [timer EXCEPT ![t].match = MatchIn(p), ![t].linked = TRUE]
         ELSE /\ SetList(L)
              /\ timer' = [timer EXCEPT ![t].state = "DEACTIVE", ![t].linked = FALSE, ![t].match = 0]
  /\ timer_task' = [timer_task EXCEPT !.at = "callback", !.iter_temp = next[timer_task.iter]]
  /\ UNCHANGED <<raw_timer_count, raw_timer_ctrl, timer_sem, client>>

\* Mutant: one timer is called per tick.
timer_task_callback_OnlyOne ==
  /\ timer_task.at = "callback"
  /\ UNCHANGED <<timer, list>>
  /\ timer_task' = [at |-> "wait", iter |-> Head, iter_temp |-> Head]
  /\ UNCHANGED <<raw_timer_count, raw_timer_ctrl, timer_sem, client>>

\* The callback returns, perhaps TIMER_CALLBACK_STOP.
timer_task_callback ==
  /\ timer_task.at = "callback"
  /\ \/ UNCHANGED <<timer, list>>
     \/ LET t == timer_task.iter
        IN  /\ timer[t].state # "DEACTIVE"
            /\ SetList(timer_list_remove(list, t))
            /\ timer' = [timer EXCEPT ![t].linked = FALSE, ![t].match = 0, ![t].state = "DEACTIVE"]
  /\ timer_task' = [at |-> "loop", iter |-> timer_task.iter_temp, iter_temp |-> Head]
  /\ UNCHANGED <<raw_timer_count, raw_timer_ctrl, timer_sem, client>>

timer_task_unlock ==
  /\ timer_task.at = "loop" /\ ~ Expired
  /\ timer_task' = [at |-> "wait", iter |-> Head, iter_temp |-> Head]
  /\ UNCHANGED <<timer, list, raw_timer_count, raw_timer_ctrl, timer_sem, client>>

TimerTaskStep ==
  \/ timer_task_start
  \/ timer_task_take
  \/ timer_task_lock
  \/ timer_task_expire
  \/ timer_task_callback
  \/ timer_task_unlock

ClientStep(c) ==
  \/ \E t \in Uses[c] :
       \/ \E param \in Params[t] :
            \/ \E auto_activate \in BOOLEAN : raw_timer_create(c, t, param, auto_activate)
            \/ check_change(c, t, param)
       \/ check_activate(c, t)
       \/ check_deactivate(c, t)
       \/ check_delete(c, t)
  \/ raw_timer_activate(c)
  \/ raw_timer_change(c)
  \/ raw_timer_deactivate(c)
  \/ raw_timer_delete(c)

TimerNext ==
  \/ call_timer_task
  \/ TimerTaskStep
  \/ \E c \in Client : ClientStep(c)

TimerSpec == TimerInit /\ [][TimerNext]_timerVars

-----------------------------------------------------------------------------

on_list ==
  LET from[i \in 0 .. Cardinality(Timer)] ==
        IF i = 0 THEN {Head} ELSE from[i - 1] \cup {next[n] : n \in from[i - 1]}
  IN  from[Cardinality(Timer)]

\* The list is circular in both directions, has the active timers on it and no
\* others, and is sorted by the ticks that remain, at any moment, also while the
\* timer task is inside it and calls callbacks, and when raw_timer_count wraps:
\* the loop of timer_task stops at the first timer that is not due, and goes on
\* with the node it has remembered in iter_temp.
TimerListOK ==
  /\ \A n \in on_list : previous[next[n]] = n /\ next[previous[n]] = n
  /\ \A t \in Timer : /\ t \in on_list <=> timer[t].linked
                     /\ timer[t].linked <=> timer[t].state = "ACTIVE"
  /\ \A t \in on_list \ {Head} : next[t] # Head => remain(t) <= remain(next[t])

\* The timers that are still to be called in the tick at hand.
still_due == {t \in Timer : Held /\ timer[t].linked /\ timer[t].match = raw_timer_count}

Abs == INSTANCE AbsTimer WITH
  Ticks  <- 0 .. CountMod - 1,
  init   <- [t \in Timer |-> init_count(t)],
  period <- [t \in Timer |-> reschedule_ticks(t)],
  left   <- [t \in Timer |-> IF timer[t].linked /\ t \notin still_due THEN remain(t) ELSE 0],
  due    <- still_due

\* Every timer is called in its tick and in no other, however many expire in
\* the same tick, are restarted among the ones that follow, stopped by their
\* callback, or stopped and deleted by tasks that wait for the mutex meanwhile.
ImplementsAbsTimer == Abs!Spec

\* The tick interrupt keeps coming, the timer task goes on when it can, and
\* callbacks return.
TimerFairness ==
  /\ WF_timerVars(call_timer_task)
  /\ WF_timerVars(TimerTaskStep)

FairTimerSpec == TimerSpec /\ TimerFairness

\* An active timer is called, unless a task stops it.
TimerExpires ==
  \A t \in Timer :
    timer[t].state = "ACTIVE"
      ~> timer[t].state # "ACTIVE" \/ (timer_task.at = "callback" /\ timer_task.iter = t)

\* raw_timer.c:176, "RAW_TIMER_STATE_INVALID: means timer is already active or
\* timer is deleted": an activation that succeeds is not one of such a timer.
ActivateRefusesActive ==
  [][\A c \in Client :
       raw_timer_activate(c)
         => timer[client[c].timer].state \notin {"ACTIVE", "DELETED"}]_timerVars
=============================================================================
