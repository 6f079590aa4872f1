------------------------------ MODULE RawEvent ------------------------------
(***************************************************************************)
(* Event flags (raw_event.c) on top of tasks, scheduler and tick.  A word  *)
(* of flags is the set of its bits.  The loops over the waiting tasks run  *)
(* in one critical section and are one step here (wake_waiters): nothing     *)
(* sees the places in between.                                             *)
(***************************************************************************)
EXTENDS RawTask

CONSTANTS
  Event,      \* the events
  Flag,       \* the bits of a flag word
  InitFlags,  \* flag words for raw_event_create
  SetFlags,   \* flag words for raw_event_set with RAW_OR
  KeepFlags,  \* flag words for raw_event_set with RAW_AND
  Request     \* what raw_event_get asks for

\* RAW_AND_CLEAR is [all |-> TRUE, clear |-> TRUE].
ASSUME EventAssumption ==
  /\ Event \subseteq Obj \ (Mutex \cup FifoObj)
  /\ InitFlags \subseteq SUBSET Flag
  /\ SetFlags \subseteq SUBSET Flag /\ KeepFlags \subseteq SUBSET Flag
  /\ Request \subseteq [want : SUBSET Flag, all : BOOLEAN, clear : BOOLEAN]

VARIABLES
  flags,
  event_wait   \* of a task inside raw_event_get: raw_suspend_option and
               \* raw_suspend_flags, and what was stored through actual_flags_ptr

eventVars == <<flags, event_wait>>

NoRequest == [want |-> {}, all |-> FALSE, clear |-> FALSE]
NotWaiting == [request |-> NoRequest, actual |-> {}]

EventInit ==
  /\ flags = [e \in Event |-> {}]
  /\ event_wait = [t \in Task |-> NotWaiting]

satisfied(r, f) == IF r.all THEN r.want \subseteq f ELSE r.want \cap f # {}

consumed(r) == IF r.clear THEN r.want ELSE {}

raw_event_create(e, f) ==
  /\ Boot \/ Caller
  /\ e \notin k.live
  /\ k' = [k EXCEPT !.block_list[e] = <<>>, !.live = @ \cup {e}]
  /\ flags' = [flags EXCEPT ![e] = f]
  /\ UNCHANGED <<sys, pc, call, loop, event_wait>>

event_take(e, r) ==
  /\ TaskRuns
  /\ e \in k.live /\ satisfied(r, flags[e])
  /\ flags' = [flags EXCEPT ![e] = @ \ consumed(r)]
  /\ UNCHANGED <<k, sys, pc, call, loop, event_wait>>

\* raw_event_get when the request is not satisfied and the task may wait.
raw_event_get(e, r, timeout) ==
  /\ TaskRuns
  /\ e \in k.live /\ ~ satisfied(r, flags[e])
  /\ MayStop(active)
  /\ event_wait' = [event_wait EXCEPT ![active] = [request |-> r, actual |-> {}]]
  /\ k' = raw_pend_object(k, e, active, timeout)
  /\ Block(e)
  /\ UNCHANGED <<sys, loop, flags>>

\* event_set with RAW_AND: flags are cleared and no task is looked at.
event_set_and(e, f) ==
  /\ Boot \/ Caller
  /\ e \in k.live
  /\ flags' = [flags EXCEPT ![e] = @ \cap f]
  /\ UNCHANGED <<k, sys, pc, call, loop, event_wait>>

\* Mutant: the first task that is released takes its flags away from the next ones.
event_set_or_OneByOne(e, f) ==
  LET One(S, t) == IF satisfied(event_wait[t].request, S.flags)
                   THEN [kernel |-> wake_up(S.kernel, t, "OK"),
                         flags  |-> S.flags \ consumed(event_wait[t].request),
                         woken  |-> S.woken \cup {t}]
                   ELSE S
      S == FoldLeft(One, [kernel |-> k, flags |-> flags[e] \cup f, woken |-> {}], Waiters(e))
  IN  /\ Caller /\ e \in k.live
      /\ k' = S.kernel
      /\ flags' = [flags EXCEPT ![e] = S.flags]
      /\ event_wait' = [t \in Task |-> IF t \in S.woken
                          THEN [event_wait[t] EXCEPT !.actual = flags[e] \cup f]
                          ELSE event_wait[t]]
      /\ Resched
      /\ UNCHANGED <<sys, call, loop>>

\* event_set with RAW_OR: every waiting task is judged by current_event_flags,
\* the flags before any of them is cleared.
event_set_or(e, f) ==
  LET current_event_flags == flags[e] \cup f
      released == {t \in ToSet(Waiters(e)) :
                     satisfied(event_wait[t].request, current_event_flags)}
  IN  /\ Caller
      /\ e \in k.live
      /\ k' = wake_waiters(k, e, released, "OK")
      /\ event_wait' = [t \in Task |-> IF t \in released
                          THEN [event_wait[t] EXCEPT !.actual = current_event_flags]
                          ELSE event_wait[t]]
      /\ flags' = [flags EXCEPT ![e] =
           current_event_flags \ UNION {consumed(event_wait[t].request) : t \in released}]
      /\ Resched
      /\ UNCHANGED <<sys, call, loop>>

raw_event_delete(e) ==
  /\ TaskRuns
  /\ e \in k.live
  /\ k' = wake_waiters([k EXCEPT !.live = @ \ {e}], e, Task, "DEL")
  /\ flags' = [flags EXCEPT ![e] = {}]
  /\ Resched
  /\ UNCHANGED <<sys, call, loop, event_wait>>

\* The fields of a task that is not inside raw_event_get are not read.
event_calls_end ==
  /\ event_wait' = [t \in Task |-> IF call'[t] = "none" THEN NotWaiting ELSE event_wait[t]]
  /\ UNCHANGED flags

EventOp(e) ==
  \/ \E f \in InitFlags : raw_event_create(e, f)
  \/ \E f \in SetFlags : event_set_or(e, f)
  \/ \E f \in KeepFlags : event_set_and(e, f)
  \/ \E r \in Request : event_take(e, r)
  \/ \E r \in Request, timeout \in Timeouts : raw_event_get(e, r, timeout)
  \/ raw_event_delete(e)

-----------------------------------------------------------------------------

\* No wake-up is lost: a task does not wait for flags that are set, however the
\* gets, sets, clears, timeouts and wake-ups of several tasks interleave.
\* raw_event_get looks at the flags only once, event_set at the tasks that are
\* on the list at that moment.
NoSatisfiedWaiter ==
  \A e \in Event : e \in k.live =>
    \A i \in DOMAIN Waiters(e) : ~ satisfied(event_wait[Waiters(e)[i]].request, flags[e])

eventWaitOf(t) ==
  IF call[t] \notin Event \/ k.task_state[t] = "DELETED" THEN [on |-> "none"]
  ELSE IF k.task_state[t] \in Pending
  THEN [on |-> call[t], request |-> event_wait[t].request, outcome |-> "waiting"]
  ELSE IF k.block_status[t] = "OK"
  THEN [on |-> call[t], outcome |-> "granted", got |-> event_wait[t].actual]
  ELSE [on |-> call[t], outcome |-> "refused"]

AbsE == INSTANCE AbsEvent WITH
  Satisfies <- satisfied,
  Consumes <- consumed,
  exists <- k.live \cap Event,
  wait   <- [t \in Task |-> eventWaitOf(t)]

\* Every step is a step of the abstract events: a set releases all the tasks
\* whose request is satisfied at that moment, in one step, also when some of
\* them clear the flags that release the others, and a released task returns
\* the flags that released it.
ImplementsAbsEvent == AbsE!Spec
=============================================================================
