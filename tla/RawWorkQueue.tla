---------------------------- MODULE RawWorkQueue ----------------------------
(***************************************************************************)
(* Work queues (extension/lib/raw_work_queue.c): a call is written into a  *)
(* descriptor from one global free list and posted to the raw_queue of a   *)
(* work queue, whose task runs the handler and frees the descriptor.  The  *)
(* list and the queue are changed in critical sections of their own, so    *)
(* that tasks and interrupt handlers preempt sche_work_queue in between.   *)
(* raw_queue is modelled by what AbsQueue promises: FIFO, and a full queue *)
(* refuses.                                                                *)
(***************************************************************************)
EXTENDS Integers, Sequences, SequencesExt, FiniteSetsExt

CONSTANTS
  WorkQueue,    \* the work queues
  Scheduler,    \* tasks and interrupt handlers that call sche_work_queue
  Work,         \* what they want done: a handler with its arguments
  Descriptor,   \* the OBJECT_WORK_QUEUE_MSG blocks
  WorkQSize,    \* messages that fit into the queue of a work queue
  NoWork

ASSUME WorkAssumption ==
  /\ WorkQSize \in Nat \ {0} /\ IsFiniteSet(Descriptor)
  /\ NoWork \notin Work \cup Descriptor \cup WorkQueue

VARIABLES
  free_work_queue_msg,  \* the free list
  work_of,              \* handler, arg and msg of each descriptor
  work_queue,           \* the descriptors posted to each work queue
  running,              \* the descriptor each work queue task handles, or NoWork
  scheduling            \* what each caller of sche_work_queue is doing

workVars == <<free_work_queue_msg, work_of, work_queue, running, scheduling>>

Idle == [pc |-> "idle", desc |-> NoWork, queue |-> NoWork]

\* global_work_queue_init and work_queue_create.
WorkInit ==
  /\ free_work_queue_msg = SetToSeq(Descriptor)
  /\ work_of = [d \in Descriptor |-> NoWork]
  /\ work_queue = [q \in WorkQueue |-> <<>>]
  /\ running = [q \in WorkQueue |-> NoWork]
  /\ scheduling = [s \in Scheduler |-> Idle]

\* sche_work_queue takes a descriptor, or returns RAW_WORK_QUEUE_MSG_MAX.
sche_work_queue(s, q, w) ==
  /\ scheduling[s] = Idle /\ free_work_queue_msg # <<>>
  /\ LET d == Head(free_work_queue_msg)
     IN  /\ work_of' = [work_of EXCEPT ![d] = w]
         /\ scheduling' = [scheduling EXCEPT ![s] = [pc |-> "post", desc |-> d, queue |-> q]]
  /\ free_work_queue_msg' = Tail(free_work_queue_msg)
  /\ UNCHANGED <<work_queue, running>>

\* raw_queue_end_post, which a full queue refuses.
post_work(s) ==
  /\ scheduling[s].pc = "post"
  /\ LET q == scheduling[s].queue
     IN  IF Len(work_queue[q]) < WorkQSize
         THEN /\ work_queue' = [work_queue EXCEPT ![q] = Append(@, scheduling[s].desc)]
              /\ scheduling' = [scheduling EXCEPT ![s] = Idle]
         ELSE /\ scheduling' = [scheduling EXCEPT ![s].pc = "back"]
              /\ UNCHANGED work_queue
  /\ UNCHANGED <<free_work_queue_msg, work_of, running>>

\* Mutant: a refused descriptor is not put back.
put_back_Forgotten(s) ==
  /\ scheduling[s].pc = "back"
  /\ scheduling' = [scheduling EXCEPT ![s] = Idle]
  /\ UNCHANGED <<free_work_queue_msg, work_of, work_queue, running>>

\* A refused descriptor goes back to the front of the free list.
put_back(s) ==
  /\ scheduling[s].pc = "back"
  /\ free_work_queue_msg' = <<scheduling[s].desc>> \o free_work_queue_msg
  /\ scheduling' = [scheduling EXCEPT ![s] = Idle]
  /\ UNCHANGED <<work_of, work_queue, running>>

\* work_queue_task: the next descriptor, whose handler is then called.
receive_work(q) ==
  /\ running[q] = NoWork /\ work_queue[q] # <<>>
  /\ running' = [running EXCEPT ![q] = Head(work_queue[q])]
  /\ work_queue' = [work_queue EXCEPT ![q] = Tail(@)]
  /\ UNCHANGED <<free_work_queue_msg, work_of, scheduling>>

\* The handler has returned.
free_work(q) ==
  /\ running[q] # NoWork
  /\ free_work_queue_msg' = <<running[q]>> \o free_work_queue_msg
  /\ running' = [running EXCEPT ![q] = NoWork]
  /\ UNCHANGED <<work_of, work_queue, scheduling>>

WorkNext ==
  \/ \E s \in Scheduler :
       \/ \E q \in WorkQueue, w \in Work : sche_work_queue(s, q, w)
       \/ post_work(s) \/ put_back(s)
  \/ \E q \in WorkQueue : receive_work(q) \/ free_work(q)

WorkSpec == WorkInit /\ [][WorkNext]_workVars

-----------------------------------------------------------------------------

\* Where a descriptor is: on the free list, in a queue, with a task, with a caller.
places(d) ==
       (IF d \in ToSet(free_work_queue_msg) THEN {<<"free", NoWork>>} ELSE {})
  \cup {"queue"}   \X {q \in WorkQueue : d \in ToSet(work_queue[q])}
  \cup {"running"} \X {q \in WorkQueue : running[q] = d}
  \cup {"calling"} \X {s \in Scheduler : scheduling[s].desc = d}

\* Every descriptor is in one place at all times, and once: none leaks when a queue
\* refuses it, and none is written for a new call while an older one waits in it.
DescriptorsOK ==
  /\ IsInjective(free_work_queue_msg)
  /\ \A q \in WorkQueue : IsInjective(work_queue[q])
  /\ \A d \in Descriptor : Cardinality(places(d)) = 1
=============================================================================
