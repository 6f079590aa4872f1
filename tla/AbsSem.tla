------------------------------- MODULE AbsSem -------------------------------
(***************************************************************************)
(* What raw_sem.c promises its users, without priorities, lists or ticks:  *)
(* a semaphore is a number of tokens; a put gives one to a waiting task or  *)
(* adds one; a get takes one or waits; a wait ends with a token or with a   *)
(* refusal (timeout, abort, deleted semaphore), never with both or neither. *)
(***************************************************************************)
EXTENDS Integers

CONSTANTS Task, Sem, SemMax

VARIABLES
  exists,    \* the semaphores that are created and not deleted
  tokens,    \* the tokens of each semaphore
  wait       \* each task's wait: outside of one, or waiting for a semaphore,
             \* or with the outcome of the wait at hand

vars == <<exists, tokens, wait>>

Outside == [on |-> "none", outcome |-> "none"]
Wait == {Outside} \cup [on : Sem, outcome : {"waiting", "granted", "refused"}]

Waiting(s) == {t \in Task : wait[t] = [on |-> s, outcome |-> "waiting"]}

Init ==
  /\ exists = {}
  /\ tokens = [s \in Sem |-> 0]
  /\ wait = [t \in Task |-> Outside]

Create(s, n) ==
  /\ s \notin exists /\ Waiting(s) = {}
  /\ exists' = exists \cup {s}
  /\ tokens' = [tokens EXCEPT ![s] = n]
  /\ UNCHANGED wait

Delete(s) ==
  /\ s \in exists
  /\ exists' = exists \ {s}
  /\ tokens' = [tokens EXCEPT ![s] = 0]
  /\ UNCHANGED wait

Put(s) ==
  /\ s \in exists /\ Waiting(s) = {} /\ tokens[s] < SemMax
  /\ tokens' = [tokens EXCEPT ![s] = @ + 1]
  /\ UNCHANGED <<exists, wait>>

Take(s) ==
  /\ s \in exists /\ tokens[s] > 0
  /\ tokens' = [tokens EXCEPT ![s] = @ - 1]
  /\ UNCHANGED <<exists, wait>>

Set(s, n) ==
  /\ s \in exists /\ Waiting(s) = {}
  /\ tokens' = [tokens EXCEPT ![s] = n]
  /\ UNCHANGED <<exists, wait>>

Begin(t, s) ==
  /\ s \in exists /\ tokens[s] = 0 /\ wait[t] = Outside
  /\ wait' = [wait EXCEPT ![t] = [on |-> s, outcome |-> "waiting"]]
  /\ UNCHANGED <<exists, tokens>>

Grant(t) ==
  /\ wait[t].outcome = "waiting" /\ wait[t].on \in exists
  /\ wait' = [wait EXCEPT ![t].outcome = "granted"]
  /\ UNCHANGED <<exists, tokens>>

Refuse(t) ==
  /\ wait[t].outcome = "waiting"
  /\ wait' = [wait EXCEPT ![t].outcome = "refused"]
  /\ UNCHANGED <<exists, tokens>>

\* The task returns from the call, or is deleted inside it.
Leave(t) ==
  /\ wait[t] # Outside
  /\ wait' = [wait EXCEPT ![t] = Outside]
  /\ UNCHANGED <<exists, tokens>>

Next ==
  \/ \E s \in Sem : Delete(s) \/ Put(s) \/ Take(s)
  \/ \E s \in Sem, n \in 0 .. SemMax : Create(s, n) \/ Set(s, n)
  \/ \E t \in Task, s \in Sem : Begin(t, s)
  \/ \E t \in Task : Grant(t) \/ Refuse(t) \/ Leave(t)

Spec == Init /\ [][Next]_vars

\* No task waits for a token that is there, and the counter stays in its range.
NoIdleToken ==
  \A s \in Sem :
    /\ tokens[s] \in 0 .. SemMax
    /\ tokens[s] > 0 => Waiting(s) = {}
=============================================================================
