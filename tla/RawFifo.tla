------------------------------- MODULE RawFifo -------------------------------
(***************************************************************************)
(* Byte fifos (extension/lib/fifo.c and fifo_lock.c): a buffer with two    *)
(* counters that run on and wrap at the width of their type, and whose low *)
(* bits are the positions in the buffer.  Calls of fifo.c are critical     *)
(* sections; those of fifo_lock.c run between a lock and an unlock of the  *)
(* caller.  A call moves as many bytes as there is room for.               *)
(***************************************************************************)
EXTENDS Integers, Sequences, SequencesExt

CONSTANTS
  FifoSize,    \* size: a power of 2 (a size below 2 is refused by fifo_init)
  FifoWrap,    \* 2 to the width of in and out: 2^32 in the code
  FifoUser,    \* callers of fifo_lock.c
  FifoByte,
  FifoLen,     \* bound: the lengths asked for
  Nobody

ASSUME FifoAssumption ==
  /\ FifoSize \in Nat /\ (\E i \in 1 .. 31 : FifoSize = 2 ^ i) /\ FifoSize > 1
  /\ FifoWrap \in Nat /\ FifoWrap % FifoSize = 0 /\ FifoWrap > FifoSize
  /\ FifoLen \subseteq Nat /\ Nobody \notin FifoUser

VARIABLES
  fifo,        \* in, out, free_bytes and the buffer
  fifo_user,   \* who is between user_lock and user_unlock
  fifo_buf     \* what the last call moved, and whether it was a write, a read or a peek

fifoVars == <<fifo, fifo_user, fifo_buf>>

FifoInit ==
  /\ fifo = [in |-> 0, out |-> 0, free_bytes |-> FifoSize,
             data |-> [i \in 0 .. FifoSize - 1 |-> Nobody]]
  /\ fifo_user = Nobody
  /\ fifo_buf = [op |-> "peek", bytes |-> <<>>]

used_bytes(F) == (F.in - F.out) % FifoWrap
fifo_unused(F) == FifoSize - used_bytes(F)

\* Mutant: what does not fit before the end of the buffer is not copied.
fifo_copy_in_NoWrap(F, bytes) ==
  [i \in 0 .. FifoSize - 1 |->
     LET k == i - (F.in % FifoSize)
     IN  IF k >= 0 /\ k < Len(bytes) THEN bytes[k + 1] ELSE F.data[i]]

\* The part up to the end of the buffer, and the rest at its start.
fifo_copy_in(F, bytes) ==
  [i \in 0 .. FifoSize - 1 |->
     LET k == (i - F.in) % FifoSize
     IN  IF k < Len(bytes) THEN bytes[k + 1] ELSE F.data[i]]

fifo_in(bytes) ==
  LET len == IF Len(bytes) > fifo_unused(fifo) THEN fifo_unused(fifo) ELSE Len(bytes)
      moved == SubSeq(bytes, 1, len)
  IN  /\ fifo' = [fifo EXCEPT !.data = fifo_copy_in(fifo, moved),
                              !.in = (@ + len) % FifoWrap, !.free_bytes = @ - len]
      /\ fifo_buf' = [op |-> "write", bytes |-> moved]

copy_out(F, len) == [i \in 1 .. len |-> F.data[(F.out + i - 1) % FifoSize]]

fifo_out_peek(F, len) ==
  copy_out(F, IF len > used_bytes(F) THEN used_bytes(F) ELSE len)

peek(len) ==
  /\ fifo_buf' = [op |-> "peek", bytes |-> fifo_out_peek(fifo, len)]
  /\ UNCHANGED fifo

take(moved) ==
  /\ fifo' = [fifo EXCEPT !.out = (@ + Len(moved)) % FifoWrap, !.free_bytes = @ + Len(moved)]
  /\ fifo_buf' = [op |-> "read", bytes |-> moved]

fifo_out(len) == take(fifo_out_peek(fifo, len))

\* All bytes there are, counted by free_bytes.
fifo_out_all == take(fifo_out_peek(fifo, FifoSize - fifo.free_bytes))

fifo_call(len) ==
  \/ \E bytes \in [1 .. len -> FifoByte] : fifo_in(bytes)
  \/ peek(len) \/ fifo_out(len) \/ fifo_out_all

\* A call of fifo.c.
fifo_step(len) == fifo_user = Nobody /\ fifo_call(len) /\ UNCHANGED fifo_user

\* A call of fifo_lock.c: user_lock, then the work and user_unlock.
user_lock(u) ==
  /\ fifo_user = Nobody
  /\ fifo_user' = u
  /\ UNCHANGED <<fifo, fifo_buf>>

fifo_lock_call(len) == fifo_user # Nobody /\ fifo_user' = Nobody /\ fifo_call(len)

FifoNext ==
  \/ \E len \in FifoLen : fifo_step(len) \/ fifo_lock_call(len)
  \/ \E u \in FifoUser : user_lock(u)

FifoSpec == FifoInit /\ [][FifoNext]_fifoVars

-----------------------------------------------------------------------------

fifo_bytes(F) == [i \in 1 .. FifoSize - F.free_bytes |-> F.data[(F.out + i - 1) % FifoSize]]

\* Bytes leave the fifo in the order in which they were written, once each, also
\* over the end of the buffer and when the counters wrap; a peek takes none.
FifoOrder ==
  [][ LET old == fifo_bytes(fifo)
          new == fifo_bytes(fifo')
          moved == fifo_buf'.bytes
      IN  fifo_buf' # fifo_buf \/ fifo' # fifo =>
            CASE fifo_buf'.op = "write" -> new = old \o moved /\ Len(new) <= FifoSize
              [] fifo_buf'.op = "read"  -> old = moved \o new
              [] OTHER                  -> new = old /\ IsPrefix(moved, old)
    ]_fifoVars
=============================================================================
