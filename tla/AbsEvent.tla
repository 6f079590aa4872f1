------------------------------ MODULE AbsEvent ------------------------------
(***************************************************************************)
(* What raw_event.c promises its users, without priorities, lists or       *)
(* ticks: an event is a set of flags; a set releases, together, every task  *)
(* whose request the new flags satisfy, and then takes away the flags that  *)
(* the released tasks asked to clear.                                       *)
(***************************************************************************)
EXTENDS Integers

CONSTANTS Task, Event, Flag, Request, Satisfies(_, _), Consumes(_)

VARIABLES
  exists,    \* the events that are created and not deleted
  flags,     \* the flags of each event
  wait       \* each task's wait: what it waits for, or the outcome, with the
             \* flags that satisfied its request

vars == <<exists, flags, wait>>

Outside == [on |-> "none"]
Waiting(e, r) == [on |-> e, request |-> r, outcome |-> "waiting"]

IsWaiting(t, e) == \E r \in Request : wait[t] = Waiting(e, r)

Init ==
  /\ exists = {}
  /\ flags = [e \in Event |-> {}]
  /\ wait = [t \in Task |-> Outside]

Create(e, f) ==
  /\ e \notin exists
  /\ exists' = exists \cup {e}
  /\ flags' = [flags EXCEPT ![e] = f]
  /\ UNCHANGED wait

Delete(e) ==
  /\ e \in exists
  /\ exists' = exists \ {e}
  /\ flags' = [flags EXCEPT ![e] = {}]
  /\ wait' = [t \in Task |-> IF IsWaiting(t, e)
                             THEN [on |-> e, outcome |-> "refused"] ELSE wait[t]]

Take(e, r) ==
  /\ e \in exists /\ Satisfies(r, flags[e])
  /\ flags' = [flags EXCEPT ![e] = @ \ Consumes(r)]
  /\ UNCHANGED <<exists, wait>>

Begin(t, e, r) ==
  /\ e \in exists /\ ~ Satisfies(r, flags[e]) /\ wait[t] = Outside
  /\ wait' = [wait EXCEPT ![t] = Waiting(e, r)]
  /\ UNCHANGED <<exists, flags>>

Clear(e, f) ==
  /\ e \in exists
  /\ flags' = [flags EXCEPT ![e] = @ \cap f]
  /\ UNCHANGED <<exists, wait>>

Set(e, f) ==
  /\ e \in exists
  /\ LET now == flags[e] \cup f
         released == {t \in Task : IsWaiting(t, e) /\ Satisfies(wait[t].request, now)}
     IN  /\ wait' = [t \in Task |-> IF t \in released
                       THEN [on |-> e, outcome |-> "granted", got |-> now] ELSE wait[t]]
         /\ flags' = [flags EXCEPT
                        ![e] = now \ UNION {Consumes(wait[t].request) : t \in released}]
  /\ UNCHANGED exists

\* Timeout or abort.
Refuse(t) ==
  /\ \E e \in Event : /\ IsWaiting(t, e)
                      /\ wait' = [wait EXCEPT ![t] = [on |-> e, outcome |-> "refused"]]
  /\ UNCHANGED <<exists, flags>>

\* The task returns from the call, or is deleted inside it.
Leave(t) ==
  /\ wait[t] # Outside
  /\ wait' = [wait EXCEPT ![t] = Outside]
  /\ UNCHANGED <<exists, flags>>

Next ==
  \/ \E e \in Event : Delete(e)
  \/ \E e \in Event, f \in SUBSET Flag : Create(e, f) \/ Clear(e, f) \/ Set(e, f)
  \/ \E e \in Event, r \in Request : Take(e, r) \/ \E t \in Task : Begin(t, e, r)
  \/ \E t \in Task : Refuse(t) \/ Leave(t)

Spec == Init /\ [][Next]_vars
=============================================================================
