--------------------------- MODULE RawQueueBuffer ---------------------------
(***************************************************************************)
(* Byte queues (raw_queue_buffer.c): messages of any length are copied     *)
(* into a ring of bytes, each behind a header that holds its length.  A    *)
(* message is the sequence of its bytes.  A message that is posted while a *)
(* task waits is copied to that task's buffer (task->msg, qb_msg_size).    *)
(***************************************************************************)
EXTENDS RawMsg

CONSTANTS
  BufQueue,   \* the byte queues
  BufSize,    \* bufsz of each: a multiple of HeaderSz (raw_queue_buffer_create)
  MaxMsgSize, \* maxmsz
  HeaderSz,   \* HEADERSZ and ROUND_SIZE
  MsgSize     \* bound: the lengths of the messages posted

ASSUME BufQueueAssumption ==
  /\ BufQueue \subseteq Obj \ (Mutex \cup FifoObj)
  /\ HeaderSz \in Nat \ {0} /\ MaxMsgSize \in Nat /\ MsgSize \subseteq Nat
  /\ \A q \in BufQueue : BufSize[q] \in Nat \ {0} /\ BufSize[q] % HeaderSz = 0

VARIABLE buf_q

Bytes(m, n) == [i \in 1 .. n |-> <<m, i>>]

\* raw_queue_buffer_end_post refuses a message longer than maxmsz.
BufMsg == {Bytes(m, n) : m \in Msg, n \in {l \in MsgSize : l <= MaxMsgSize}}

\* A byte that belongs to no message is not read; <<>> stands for it.  A header
\* is <<NoMsg, length>>.
NewBuffer(q) ==
  [buffer |-> [i \in 0 .. BufSize[q] - 1 |-> <<>>], bufsz |-> BufSize[q],
   frbufsz |-> BufSize[q], head |-> 0, tail |-> 0]

QueueBufferInit == buf_q = [q \in BufQueue |-> NewBuffer(q)]

Round(n) == ((n + HeaderSz - 1) \div HeaderSz) * HeaderSz

\* Mutant: the header is not counted.
is_queue_buffer_free_NoHeader(Q, n) == n <= Q.frbufsz

is_queue_buffer_free(Q, n) == HeaderSz + n <= Q.frbufsz

is_buffer_empty(Q) == Q.frbufsz = Q.bufsz

wrap(Q, i) == IF i >= Q.bufsz THEN 0 ELSE i

\* Where the i-th byte behind a header at h lies: the bytes that do not fit
\* before the end of the buffer go to its start.
place(Q, h, i) == (wrap(Q, h + HeaderSz) + i - 1) % Q.bufsz

\* Where the header after n bytes behind a header at h goes.
end_of_message(Q, h, n) ==
  LET body  == wrap(Q, h + HeaderSz)
      remsz == Q.bufsz - body
  IN  wrap(Q, IF remsz < n THEN Round(n - remsz) ELSE body + Round(n))

msg_to_end_buffer(Q, m) ==
  LET written(i) == {j \in DOMAIN m : place(Q, Q.tail, j) = i}
  IN  [Q EXCEPT !.frbufsz = @ - (HeaderSz + Round(Len(m))),
                !.buffer = [i \in DOMAIN @ |->
                   IF i = Q.tail THEN <<NoMsg, Len(m)>>
                   ELSE IF written(i) = {} THEN @[i] ELSE m[CHOOSE j \in written(i) : TRUE]],
                !.tail = end_of_message(Q, Q.tail, Len(m))]

has_header(Q, h) == Q.buffer[h] # <<>> /\ Q.buffer[h][1] = NoMsg
size_at(Q, h) == Q.buffer[h][2]

\* The bytes that buffer_to_msg copies, from a header at h on.
message_at(Q, h) == [i \in 1 .. size_at(Q, h) |-> Q.buffer[place(Q, h, i)]]

buffer_to_msg(Q) ==
  LET n == size_at(Q, Q.head)
      read == {Q.head} \cup {place(Q, Q.head, i) : i \in 1 .. n}
  IN  [Q EXCEPT !.frbufsz = @ + (HeaderSz + Round(n)),
                !.head = end_of_message(Q, Q.head, n),
                !.buffer = [i \in DOMAIN @ |-> IF i \in read THEN <<>> ELSE @[i]]]

raw_queue_buffer_create(q) ==
  /\ Boot \/ Caller
  /\ q \notin k.live
  /\ k' = [k EXCEPT !.block_list[q] = <<>>, !.live = @ \cup {q}]
  /\ buf_q' = [buf_q EXCEPT ![q] = NewBuffer(q)]
  /\ UNCHANGED <<sys, pc, call, loop, msg>>

\* queue_buffer_post when no task waits.
queue_buffer_store(q, m) ==
  /\ Boot \/ Caller
  /\ q \in k.live /\ is_queue_buffer_free(buf_q[q], Len(m)) /\ Waiters(q) = <<>>
  /\ buf_q' = [buf_q EXCEPT ![q] = msg_to_end_buffer(@, m)]
  /\ UNCHANGED <<k, sys, pc, call, loop, msg>>

\* queue_buffer_post when tasks wait: the room is looked at all the same.
queue_buffer_send(q, m) ==
  /\ Caller
  /\ q \in k.live /\ is_queue_buffer_free(buf_q[q], Len(m)) /\ Waiters(q) # <<>>
  /\ send_to_waiters(q, m, FALSE)
  /\ UNCHANGED <<sys, call, loop, buf_q>>

\* raw_queue_buffer_receive, which an interrupt may not call.
queue_buffer_receive(q) ==
  /\ TaskRuns
  /\ q \in k.live /\ ~ is_buffer_empty(buf_q[q])
  /\ buf_q' = [buf_q EXCEPT ![q] = buffer_to_msg(@)]
  /\ UNCHANGED <<k, sys, pc, call, loop, msg>>

raw_queue_buffer_receive(q, timeout) ==
  /\ q \in k.live /\ is_buffer_empty(buf_q[q])
  /\ raw_queue_wait(q, timeout)
  /\ UNCHANGED <<sys, loop, buf_q>>

raw_queue_buffer_flush(q) ==
  /\ TaskRuns
  /\ q \in k.live
  /\ buf_q' = [buf_q EXCEPT ![q] = NewBuffer(q)]
  /\ UNCHANGED <<k, sys, pc, call, loop, msg>>

\* What is in the block of a deleted queue is not read: it is that of a new one.
raw_queue_buffer_delete(q) ==
  /\ q \in k.live
  /\ queue_delete(q)
  /\ buf_q' = [buf_q EXCEPT ![q] = NewBuffer(q)]
  /\ UNCHANGED <<sys, loop>>

BufQueueOp(q) ==
  \/ raw_queue_buffer_create(q)
  \/ \E m \in BufMsg : queue_buffer_store(q, m) \/ queue_buffer_send(q, m)
  \/ queue_buffer_receive(q)
  \/ \E timeout \in Timeouts : raw_queue_buffer_receive(q, timeout)
  \/ raw_queue_buffer_flush(q)
  \/ raw_queue_buffer_delete(q)

-----------------------------------------------------------------------------

\* The free bytes are the ones from tail to head: a header and a rounded length
\* never go past them, although the room is compared with the unrounded length,
\* and an empty queue has head and tail at one place.  Each message, split over
\* the end of the buffer or not, ends where the next begins, the last at tail.
\* No message lies in a queue that tasks wait for.
BufferOK ==
  \A q \in BufQueue : q \in k.live =>
    LET Q == buf_q[q]
        H == {h \in DOMAIN Q.buffer : has_header(Q, h)}
    IN  /\ Q.frbufsz \in 0 .. Q.bufsz
        /\ Q.tail = (Q.head + Q.bufsz - Q.frbufsz) % Q.bufsz
        /\ {Q.head} \cup {end_of_message(Q, h, size_at(Q, h)) : h \in H} = H \cup {Q.tail}
        /\ Q.frbufsz # Q.bufsz => Waiters(q) = <<>>

\* The messages in the order of their headers from head on.
stored_messages(Q) ==
  IF is_buffer_empty(Q) THEN <<>>
  ELSE SelectSeq([i \in 1 .. Q.bufsz |->
                    LET h == (Q.head + i - 1) % Q.bufsz
                    IN  IF has_header(Q, h) THEN message_at(Q, h) ELSE NoMsg],
                 LAMBDA m : m # NoMsg)

AbsBQ == INSTANCE AbsQueue WITH
  Queue <- BufQueue, Msg <- BufMsg,
  Size <- [q \in BufQueue |-> BufSize[q] \div HeaderSz],
  exists   <- k.live \cap BufQueue,
  contents <- [q \in BufQueue |-> IF q \notin k.live THEN <<>> ELSE stored_messages(buf_q[q])],
  wait     <- [t \in Task |-> msgWaitOf(t, BufQueue)]

\* Every step is a step of the abstract queues: whatever is split over the end
\* of the buffer, the bytes that are received are the ones that were posted.
ImplementsAbsQueueBuffer == AbsBQ!Spec
=============================================================================
