------------------------------ MODULE RawQueue ------------------------------
(***************************************************************************)
(* Message queues (raw_queue.c): a ring of message pointers.  queue_start  *)
(* is slot 0 and queue_end is slot QSize.  peak_numbers is not modelled.   *)
(* The callbacks queue_full_callback and queue_send_notify run in the      *)
(* caller's context after the critical section: what they call is what the *)
(* caller may call next.                                                   *)
(***************************************************************************)
EXTENDS RawMsg

CONSTANT Queue   \* the queues

ASSUME QueueAssumption == Queue \subseteq DOMAIN QSize

VARIABLE msg_q

\* A slot that holds no message is not read; NoMsg stands for what is in it.
NewRing(q) == [slot |-> [i \in 0 .. QSize[q] - 1 |-> NoMsg],
               write |-> 0, read |-> 0, current_numbers |-> 0]

QueueInit == msg_q = [q \in Queue |-> NewRing(q)]

raw_queue_create(q) ==
  /\ Boot \/ Caller
  /\ q \notin k.live
  /\ k' = [k EXCEPT !.block_list[q] = <<>>, !.live = @ \cup {q}]
  /\ msg_q' = [msg_q EXCEPT ![q] = NewRing(q)]
  /\ UNCHANGED <<sys, pc, call, loop, msg>>

QueueFull(q) == msg_q[q].current_numbers >= QSize[q]

put_at_end(Q, m, size) ==
  [Q EXCEPT !.slot[Q.write] = m, !.write = (@ + 1) % size]

put_at_front(Q, m, size) ==
  LET read == (IF Q.read = 0 THEN size ELSE Q.read) - 1
  IN  [Q EXCEPT !.read = read, !.slot[read] = m]

\* msg_post when no task waits.
msg_post_store(q, m) ==
  /\ Boot \/ Caller
  /\ q \in k.live /\ ~ QueueFull(q) /\ Waiters(q) = <<>>
  /\ LET Q == [msg_q[q] EXCEPT !.current_numbers = @ + 1]
     IN  msg_q' \in {[msg_q EXCEPT ![q] = put_at_end(Q, m, QSize[q])],
                     [msg_q EXCEPT ![q] = put_at_front(Q, m, QSize[q])]}
  /\ UNCHANGED <<k, sys, pc, call, loop, msg>>

\* msg_post when tasks wait.
msg_post_send(q, m, all) ==
  /\ Caller
  /\ q \in k.live /\ ~ QueueFull(q) /\ Waiters(q) # <<>>
  /\ send_to_waiters(q, m, all)
  /\ UNCHANGED <<sys, call, loop, msg_q>>

\* raw_queue_receive with a message there.
queue_receive(q) ==
  /\ Caller
  /\ q \in k.live /\ msg_q[q].current_numbers > 0
  /\ LET Q == msg_q[q]
     IN  msg_q' = [msg_q EXCEPT ![q] =
           [Q EXCEPT !.slot[Q.read] = NoMsg, !.read = (@ + 1) % QSize[q],
                     !.current_numbers = @ - 1]]
  /\ UNCHANGED <<k, sys, pc, call, loop, msg>>

raw_queue_receive(q, timeout) ==
  /\ q \in k.live /\ msg_q[q].current_numbers = 0
  /\ raw_queue_wait(q, timeout)
  /\ UNCHANGED <<sys, loop, msg_q>>

raw_queue_flush(q) ==
  /\ TaskRuns
  /\ q \in k.live
  /\ msg_q' = [msg_q EXCEPT ![q] = NewRing(q)]
  /\ UNCHANGED <<k, sys, pc, call, loop, msg>>

\* What is in the block of a deleted queue is not read: it is that of a new one.
raw_queue_delete(q) ==
  /\ q \in k.live
  /\ queue_delete(q)
  /\ msg_q' = [msg_q EXCEPT ![q] = NewRing(q)]
  /\ UNCHANGED <<sys, loop>>

QueueOp(q) ==
  \/ raw_queue_create(q)
  \/ \E m \in Msg : msg_post_store(q, m) \/ \E all \in BOOLEAN : msg_post_send(q, m, all)
  \/ queue_receive(q)
  \/ \E timeout \in Timeouts : raw_queue_receive(q, timeout)
  \/ raw_queue_flush(q)
  \/ raw_queue_delete(q)

-----------------------------------------------------------------------------

\* The slots between read and write are the current_numbers ones that hold a
\* message, also after any number of wraps at both ends, and no message lies in
\* a queue that tasks wait for: raw_queue_receive looks at current_numbers only.
RingOK ==
  \A q \in Queue : q \in k.live =>
    LET Q == msg_q[q]
    IN  /\ \A i \in 0 .. QSize[q] - 1 :
             Q.slot[(Q.read + i) % QSize[q]] # NoMsg <=> i < Q.current_numbers
        /\ Q.write = (Q.read + Q.current_numbers) % QSize[q]
        /\ Q.current_numbers > 0 => Waiters(q) = <<>>

AbsQ == INSTANCE AbsQueue WITH
  Size <- QSize,
  exists   <- k.live \cap Queue,
  contents <- [q \in Queue |-> IF q \notin k.live THEN <<>>
                 ELSE [i \in 1 .. msg_q[q].current_numbers |->
                         msg_q[q].slot[(msg_q[q].read + i - 1) % QSize[q]]]],
  wait     <- [t \in Task |-> msgWaitOf(t, Queue)]

\* Every step is a step of the abstract queues: a message posted is given to a
\* waiting task or received once, in its turn; the task it was given to returns
\* it however late it gets the processor.
ImplementsAbsQueue == AbsQ!Spec
=============================================================================
