------------------------------- MODULE RawMsg -------------------------------
(***************************************************************************)
(* What the two kinds of message queue have in common: a message posted    *)
(* while tasks wait goes into the task block of a waiting task, not into   *)
(* the queue.  A message is a pointer, or a pointer and a size.            *)
(***************************************************************************)
EXTENDS RawTask

CONSTANTS
  Msg,     \* the messages
  NoMsg,   \* the null message pointer
  QSize    \* number of messages of each queue

ASSUME MsgAssumption ==
  /\ NoMsg \notin Msg
  /\ \A q \in DOMAIN QSize : q \in Obj \ (Mutex \cup FifoObj) /\ QSize[q] \in Nat \ {0}

VARIABLE msg   \* msg of the task blocks

MsgInit == msg = [t \in Task |-> NoMsg]

(* wake_send_msg: to every waiting task, or to the most urgent one. *)

\* Mutant: waking all goes over the list but gives the message to the first task.
send_to_waiters_OneMsg(q, m, all) ==
  /\ k' = wake_waiters(k, q, IF all THEN Task ELSE {Head(Waiters(q))}, "OK")
  /\ msg' = [msg EXCEPT ![Head(Waiters(q))] = m]
  /\ Resched

send_to_waiters(q, m, all) ==
  LET woken == IF all THEN ToSet(Waiters(q)) ELSE {Head(Waiters(q))}
  IN  /\ k' = wake_waiters(k, q, woken, "OK")
      /\ msg' = [t \in Task |-> IF t \in woken THEN m ELSE msg[t]]
      /\ Resched

raw_queue_wait(q, timeout) ==
  /\ TaskRuns
  /\ MayStop(active)
  /\ k' = raw_pend_object(k, q, active, timeout)
  /\ Block(q)
  /\ UNCHANGED msg

queue_delete(q) ==
  /\ TaskRuns
  /\ k' = wake_waiters([k EXCEPT !.live = @ \ {q}], q, Task, "DEL")
  /\ Resched
  /\ UNCHANGED <<call, msg>>

\* block_state_post_process hands task->msg over; it is not read again before
\* the next wake-up writes it.
msg_calls_end ==
  msg' = [t \in Task |-> IF call'[t] = "none" THEN NoMsg ELSE msg[t]]

\* What a task's wait for a queue of Q looks like from outside.
msgWaitOf(t, Q) ==
  IF call[t] \notin Q \/ k.task_state[t] = "DELETED" THEN [on |-> "none"]
  ELSE IF k.task_state[t] \in Pending THEN [on |-> call[t], outcome |-> "waiting"]
  ELSE IF k.block_status[t] = "OK"
  THEN [on |-> call[t], outcome |-> "given", msg |-> msg[t]]
  ELSE [on |-> call[t], outcome |-> "refused"]
=============================================================================
