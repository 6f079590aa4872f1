------------------------------ MODULE AbsQueue ------------------------------
(***************************************************************************)
(* What raw_queue.c and raw_queue_size.c promise their users: a queue is a *)
(* bounded sequence of messages; a message posted while tasks wait is given *)
(* to one of them (or to all), any other is received in its turn, unless   *)
(* the queue is flushed or deleted; no message is lost, invented or        *)
(* received twice.                                                         *)
(***************************************************************************)
EXTENDS Integers, Sequences

CONSTANTS Task, Queue, Msg, Size

VARIABLES
  exists,    \* the queues that are created and not deleted
  contents,  \* the messages of each queue, the next to receive first
  wait       \* each task's wait: the queue it waits for, or the outcome, with
             \* the message it was given

vars == <<exists, contents, wait>>

Outside == [on |-> "none"]
Waiting(q) == {t \in Task : wait[t] = [on |-> q, outcome |-> "waiting"]}
Given(q, m) == [on |-> q, outcome |-> "given", msg |-> m]
Refused(q) == [on |-> q, outcome |-> "refused"]

Init ==
  /\ exists = {}
  /\ contents = [q \in Queue |-> <<>>]
  /\ wait = [t \in Task |-> Outside]

Create(q) ==
  /\ q \notin exists
  /\ exists' = exists \cup {q}
  /\ UNCHANGED <<contents, wait>>

Delete(q) ==
  /\ q \in exists
  /\ exists' = exists \ {q}
  /\ contents' = [contents EXCEPT ![q] = <<>>]
  /\ wait' = [t \in Task |-> IF t \in Waiting(q) THEN Refused(q) ELSE wait[t]]

\* A message is stored only when nobody waits for it.
Store(q, m) ==
  /\ q \in exists /\ Waiting(q) = {} /\ Len(contents[q]) < Size[q]
  /\ contents' \in {[contents EXCEPT ![q] = Append(@, m)],
                    [contents EXCEPT ![q] = <<m>> \o @]}
  /\ UNCHANGED <<exists, wait>>

Give(q, m) ==
  /\ q \in exists
  /\ \E some \in {Waiting(q)} \cup {{t} : t \in Waiting(q)} :
       /\ some # {}
       /\ wait' = [t \in Task |-> IF t \in some THEN Given(q, m) ELSE wait[t]]
  /\ UNCHANGED <<exists, contents>>

Receive(q) ==
  /\ q \in exists /\ contents[q] # <<>>
  /\ contents' = [contents EXCEPT ![q] = Tail(@)]
  /\ UNCHANGED <<exists, wait>>

Begin(t, q) ==
  /\ q \in exists /\ contents[q] = <<>> /\ wait[t] = Outside
  /\ wait' = [wait EXCEPT ![t] = [on |-> q, outcome |-> "waiting"]]
  /\ UNCHANGED <<exists, contents>>

Flush(q) ==
  /\ q \in exists
  /\ contents' = [contents EXCEPT ![q] = <<>>]
  /\ UNCHANGED <<exists, wait>>

\* Timeout or abort.
Refuse(t) ==
  /\ \E q \in Queue : t \in Waiting(q) /\ wait' = [wait EXCEPT ![t] = Refused(q)]
  /\ UNCHANGED <<exists, contents>>

\* The task returns from the call, or is deleted inside it.
Leave(t) ==
  /\ wait[t] # Outside
  /\ wait' = [wait EXCEPT ![t] = Outside]
  /\ UNCHANGED <<exists, contents>>

Next ==
  \/ \E q \in Queue : Create(q) \/ Delete(q) \/ Receive(q) \/ Flush(q)
  \/ \E q \in Queue, m \in Msg : Store(q, m) \/ Give(q, m)
  \/ \E t \in Task : Refuse(t) \/ Leave(t) \/ \E q \in Queue : Begin(t, q)

Spec == Init /\ [][Next]_vars
=============================================================================
