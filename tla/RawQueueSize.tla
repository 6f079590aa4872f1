---------------------------- MODULE RawQueueSize ----------------------------
(***************************************************************************)
(* Queues of messages with a size (raw_queue_size.c): the nodes of a queue *)
(* are linked on a free list or, from read to write, on the list of the    *)
(* stored messages.  The next pointers are modelled one by one, because    *)
(* the code leaves old ones behind: the first message of an empty queue    *)
(* keeps the next pointer it had on the free list.                         *)
(***************************************************************************)
EXTENDS RawMsg

CONSTANT
  SizeQueue,   \* the queues
  Null         \* the null node pointer

ASSUME QueueSizeAssumption ==
  /\ SizeQueue \subseteq DOMAIN QSize
  /\ \A q \in SizeQueue : Null \notin 1 .. QSize[q]

VARIABLE size_q

\* raw_queue_size_create links all nodes on the free list.
NewSizeQueue(n) ==
  [next |-> [i \in 1 .. n |-> IF i = n THEN Null ELSE i + 1],
   msg_ptr |-> [i \in 1 .. n |-> NoMsg],
   free_msg |-> 1, read |-> Null, write |-> Null, queue_current_msg |-> 0]

QueueSizeInit == size_q = [q \in SizeQueue |-> NewSizeQueue(QSize[q])]

\* read and write are not initialised by the code and not used before the first
\* post sets them.
raw_queue_size_create(q) ==
  /\ Boot \/ Caller
  /\ q \notin k.live
  /\ k' = [k EXCEPT !.block_list[q] = <<>>, !.live = @ \cup {q}]
  /\ size_q' = [size_q EXCEPT ![q] = NewSizeQueue(QSize[q])]
  /\ UNCHANGED <<sys, pc, call, loop, msg>>

SizeQueueFull(q) == size_q[q].queue_current_msg >= QSize[q]

append_node(Q, n) ==
  [Q EXCEPT !.next[Q.write] = n, !.next[n] = Null, !.write = n]

\* Mutant: the new first node is not linked to the old one.
prepend_node_Unlinked(Q, n) == [Q EXCEPT !.read = n]

prepend_node(Q, n) == [Q EXCEPT !.next[n] = Q.read, !.read = n]

\* msg_size_post when no task waits.
msg_size_post_store(q, m) ==
  /\ Boot \/ Caller
  /\ q \in k.live /\ ~ SizeQueueFull(q) /\ Waiters(q) = <<>>
  /\ LET n == size_q[q].free_msg
         Q == [size_q[q] EXCEPT !.free_msg = size_q[q].next[n], !.msg_ptr[n] = m,
                                !.queue_current_msg = @ + 1]
         Store == IF size_q[q].queue_current_msg = 0
                  THEN {[Q EXCEPT !.write = n, !.read = n]}
                  ELSE {append_node(Q, n), prepend_node(Q, n)}
     IN  \E Stored \in Store : size_q' = [size_q EXCEPT ![q] = Stored]
  /\ UNCHANGED <<k, sys, pc, call, loop, msg>>

msg_size_post_send(q, m, all) ==
  /\ Caller
  /\ q \in k.live /\ ~ SizeQueueFull(q) /\ Waiters(q) # <<>>
  /\ send_to_waiters(q, m, all)
  /\ UNCHANGED <<sys, call, loop, size_q>>

free_node(Q, n) == [Q EXCEPT !.msg_ptr[n] = NoMsg, !.next[n] = Q.free_msg, !.free_msg = n]

\* raw_queue_size_receive with a message there.  A node on the free list keeps
\* its message; it is not read again, and NoMsg stands for that.
queue_size_receive(q) ==
  /\ Caller
  /\ q \in k.live /\ size_q[q].queue_current_msg > 0
  /\ LET n    == size_q[q].read
         next == size_q[q].next[n]
         Q    == IF next # Null
                 THEN [size_q[q] EXCEPT !.read = next, !.queue_current_msg = @ - 1]
                 ELSE [size_q[q] EXCEPT !.read = Null, !.write = Null,
                                        !.queue_current_msg = 0]
     IN  size_q' = [size_q EXCEPT ![q] = free_node(Q, n)]
  /\ UNCHANGED <<k, sys, pc, call, loop, msg>>

raw_queue_size_receive(q, timeout) ==
  /\ q \in k.live /\ size_q[q].queue_current_msg = 0
  /\ raw_queue_wait(q, timeout)
  /\ UNCHANGED <<sys, loop, size_q>>

\* Mutant: the flushed nodes are not linked to the free ones.
raw_queue_size_flush_DropsFree(q) ==
  /\ TaskRuns
  /\ q \in k.live
  /\ LET Q == size_q[q]
     IN  size_q' = IF Q.queue_current_msg = 0 THEN size_q
           ELSE [size_q EXCEPT ![q] =
                  [Q EXCEPT !.next[Q.write] = Null, !.free_msg = Q.read,
                            !.msg_ptr = [n \in 1 .. QSize[q] |-> NoMsg],
                            !.queue_current_msg = 0, !.read = Null, !.write = Null]]
  /\ UNCHANGED <<k, sys, pc, call, loop, msg>>

raw_queue_size_flush(q) ==
  /\ TaskRuns
  /\ q \in k.live
  /\ LET Q == size_q[q]
     IN  size_q' = IF Q.queue_current_msg = 0 THEN size_q
           ELSE [size_q EXCEPT ![q] =
                  [Q EXCEPT !.next[Q.write] = Q.free_msg, !.free_msg = Q.read,
                            !.msg_ptr = [n \in 1 .. QSize[q] |-> NoMsg],
                            !.queue_current_msg = 0, !.read = Null, !.write = Null]]
  /\ UNCHANGED <<k, sys, pc, call, loop, msg>>

\* What is in the block of a deleted queue is not read: it is that of a new one.
raw_queue_size_delete(q) ==
  /\ q \in k.live
  /\ queue_delete(q)
  /\ size_q' = [size_q EXCEPT ![q] = NewSizeQueue(QSize[q])]
  /\ UNCHANGED <<sys, loop>>

SizeQueueOp(q) ==
  \/ raw_queue_size_create(q)
  \/ \E m \in Msg : msg_size_post_store(q, m) \/ \E all \in BOOLEAN : msg_size_post_send(q, m, all)
  \/ queue_size_receive(q)
  \/ \E timeout \in Timeouts : raw_queue_size_receive(q, timeout)
  \/ raw_queue_size_flush(q)
  \/ raw_queue_size_delete(q)

-----------------------------------------------------------------------------

\* The nodes from a pointer on, at most n of them.
nodes(Q, first, n) ==
  LET node[i \in 1 .. n] ==
        IF i = 1 THEN first
        ELSE IF node[i - 1] = Null THEN Null ELSE Q.next[node[i - 1]]
  IN  SubSeq(node, 1, Cardinality({i \in 1 .. n : node[i] # Null}))

stored_nodes(q) == nodes(size_q[q], size_q[q].read, size_q[q].queue_current_msg)
free_nodes(q) == nodes(size_q[q], size_q[q].free_msg, QSize[q] + 1)

\* No node is lost or linked twice: each is stored or free, whatever old next
\* pointers are left behind, and the stored ones end at write.  msg_size_post
\* takes free_msg without a test for the null pointer.
NodesOK ==
  \A q \in SizeQueue : q \in k.live =>
    LET stored == stored_nodes(q)
        free   == free_nodes(q)
    IN  /\ NoDup(stored \o free)
        /\ ToSet(stored \o free) = 1 .. QSize[q]
        /\ Len(stored) = size_q[q].queue_current_msg
        /\ stored # <<>> => Last(stored) = size_q[q].write

AbsSQ == INSTANCE AbsQueue WITH
  Queue <- SizeQueue, Size <- QSize,
  exists   <- k.live \cap SizeQueue,
  contents <- [q \in SizeQueue |-> IF q \notin k.live THEN <<>>
                 ELSE [i \in 1 .. Len(stored_nodes(q)) |-> size_q[q].msg_ptr[stored_nodes(q)[i]]]],
  wait     <- [t \in Task |-> msgWaitOf(t, SizeQueue)]

\* The same promise as that of the ring, by the linked nodes.
ImplementsAbsQueueSize == AbsSQ!Spec
=============================================================================
