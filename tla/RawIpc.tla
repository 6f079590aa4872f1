------------------------------- MODULE RawIpc -------------------------------
(***************************************************************************)
(* Events and the three kinds of message queue on one kernel.              *)
(***************************************************************************)
EXTENDS RawEvent, RawQueue, RawQueueSize, RawQueueBuffer

CONSTANT Uses   \* bound: the application uses the objects of one of these sets

\* The type in a control block says of which kind an object is.
ASSUME IpcAssumption ==
  /\ Event \cap (Queue \cup SizeQueue \cup BufQueue) = {}
  /\ Queue \cap (SizeQueue \cup BufQueue) = {} /\ SizeQueue \cap BufQueue = {}

VARIABLE used   \* the objects the application uses (no variable of the code)

ipcVars == <<taskVars, eventVars, msg, msg_q, size_q, buf_q, used>>

IpcInit ==
  /\ TaskInit /\ EventInit /\ MsgInit /\ QueueInit /\ QueueSizeInit /\ QueueBufferInit
  /\ used \in Uses

KernelStep ==
  /\ TaskNext
  /\ event_calls_end /\ msg_calls_end
  /\ UNCHANGED <<msg_q, size_q, buf_q, used>>

EventStep ==
  /\ \E e \in used \cap Event : EventOp(e)
  /\ UNCHANGED <<msg, msg_q, size_q, buf_q, used>>

QueueStep ==
  /\ \E q \in used \cap Queue : QueueOp(q)
  /\ UNCHANGED <<eventVars, size_q, buf_q, used>>

QueueSizeStep ==
  /\ \E q \in used \cap SizeQueue : SizeQueueOp(q)
  /\ UNCHANGED <<eventVars, msg_q, buf_q, used>>

QueueBufferStep ==
  /\ \E q \in used \cap BufQueue : BufQueueOp(q)
  /\ UNCHANGED <<eventVars, msg_q, size_q, used>>

IpcNext == KernelStep \/ EventStep \/ QueueStep \/ QueueSizeStep \/ QueueBufferStep

IpcSpec == IpcInit /\ [][IpcNext]_ipcVars

\* The rings, nodes and buffers hold what their indices and counts say, no slot, node
\* or byte is lost, and nobody waits for flags or messages that are there: what the
\* critical sections of raw_event.c and of the queues leave for each other.
ObjectsOK == NoSatisfiedWaiter /\ RingOK /\ NodesOK /\ BufferOK
=============================================================================
