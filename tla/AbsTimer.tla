------------------------------ MODULE AbsTimer ------------------------------
(***************************************************************************)
(* What raw_timer.c promises its users, without lists, match values, tasks *)
(* or mutex: an armed timer counts the timer ticks down, is called in the  *)
(* tick that brings it to 0, neither earlier nor later, and starts over    *)
(* with its period if it has one.                                          *)
(***************************************************************************)
EXTENDS Integers

CONSTANTS Timer, Ticks

VARIABLES
  init,     \* ticks from the activation to the first call
  period,   \* ticks from one call to the next, or 0
  left,     \* ticks left of an armed timer, 0 for one that is not armed
  due       \* the timers still to be called in this tick

vars == <<init, period, left, due>>

Init ==
  /\ init = [t \in Timer |-> 0] /\ period = [t \in Timer |-> 0]
  /\ left = [t \in Timer |-> 0] /\ due = {}

\* raw_timer_create and raw_timer_change, of a timer that is not armed.
SetTicks(t, n, p) ==
  /\ left[t] = 0 /\ t \notin due
  /\ init' = [init EXCEPT ![t] = n] /\ period' = [period EXCEPT ![t] = p]
  /\ UNCHANGED <<left, due>>

Arm(t) ==
  /\ due = {} /\ left[t] = 0
  /\ left' = [left EXCEPT ![t] = init[t]]
  /\ UNCHANGED <<init, period, due>>

\* By a task that stops or deletes the timer, or by the callback.
Disarm(t) ==
  /\ t \notin due
  /\ left' = [left EXCEPT ![t] = 0]
  /\ UNCHANGED <<init, period, due>>

Tick ==
  /\ due = {}
  /\ due' = {t \in Timer : left[t] = 1}
  /\ left' = [t \in Timer |-> IF left[t] > 0 THEN left[t] - 1 ELSE 0]
  /\ UNCHANGED <<init, period>>

Call(t) ==
  /\ t \in due
  /\ due' = due \ {t}
  /\ left' = [left EXCEPT ![t] = period[t]]
  /\ UNCHANGED <<init, period>>

Next ==
  \/ Tick
  \/ \E t \in Timer : Arm(t) \/ Disarm(t) \/ Call(t)
  \/ \E t \in Timer, n \in Ticks, p \in Ticks : SetTicks(t, n, p)

Spec == Init /\ [][Next]_vars
=============================================================================
