------------------------------- MODULE RawByte -------------------------------
(***************************************************************************)
(* Pools of memory of any size (raw_byte.c).  The pool is a ring of blocks *)
(* with a header of two words: the next block and whether this one is      *)
(* free.  A search goes around the ring, merges free neighbours on its     *)
(* way, and opens the critical section after every block; a task that sees *)
(* that another one took over the pool begins again.  Addresses and sizes  *)
(* are counted in words.  A header that a merge leaves behind stays in     *)
(* memory until the owner of the block writes over it.                     *)
(***************************************************************************)
EXTENDS Integers, FiniteSetsExt

CONSTANTS
  ByteTask,    \* the tasks that allocate and release
  PoolWords,   \* pool_size in words
  BlockMin,    \* RAW_BYTE_BLOCK_MIN in words: 5 in the code
  Request,     \* the sizes asked for, in whole words
  MergeStart   \* bound: whether a search merges the block that searches begin at

Header == 2

ASSUME ByteAssumption ==
  /\ PoolWords \in Nat /\ PoolWords > 2 * Header /\ BlockMin > Header
  /\ Request \subseteq Nat /\ MergeStart \in BOOLEAN

Address == 0 .. PoolWords - 1
LastBlock == PoolWords - Header
Data == [next |-> 0, state |-> "data"]

VARIABLES
  byte_mem,    \* the header at each address, or Data
  byte_pool,   \* available, fragments, search and owner of the pool
  byte_call,   \* the allocation each task is in
  byte_held    \* the blocks each task has

byteVars == <<byte_mem, byte_pool, byte_call, byte_held>>

NoTask == "nobody"
NoCall == [pc |-> "none", size |-> 0, current |-> 0, examine |-> 0]

\* raw_byte_pool_create: one free block, and one that ends the ring.
ByteInit ==
  /\ byte_mem = [a \in Address |->
       IF a = 0 THEN [next |-> LastBlock, state |-> "free"]
       ELSE IF a = LastBlock THEN [next |-> 0, state |-> "alloc"] ELSE Data]
  /\ byte_pool = [available |-> PoolWords - Header, fragments |-> 2, search |-> 0, owner |-> NoTask]
  /\ byte_call = [t \in ByteTask |-> NoCall]
  /\ byte_held = [t \in ByteTask |-> {}]

\* The size is rounded up to the next word, and a word more if it is a whole one.
raw_byte_allocate(t, words) ==
  /\ byte_call[t].pc = "none"
  /\ byte_pool' = [byte_pool EXCEPT !.owner = t]
  /\ byte_call' = [byte_call EXCEPT ![t] = [NoCall EXCEPT !.pc = "search", !.size = words + 1]]
  /\ UNCHANGED <<byte_mem, byte_held>>

free(a) == byte_mem[a].state = "free"
room(a) == byte_mem[a].next - a - Header

dec(n) == IF n = 0 THEN 0 ELSE n - 1

\* A block that is large enough is split if enough of it is left over.
split(a, size) ==
  LET rest == a + size + Header
  IN  IF room(a) - size < BlockMin THEN [byte_mem EXCEPT ![a].state = "alloc"]
      ELSE [byte_mem EXCEPT ![rest] = [next |-> byte_mem[a].next, state |-> "free"],
                            ![a] = [next |-> rest, state |-> "alloc"]]

\* The owner of the block at a writes over all of it.
written(mem, a) ==
  [b \in Address |-> IF a + Header <= b /\ b < mem[a].next THEN Data ELSE mem[b]]

take_block(t, P, a, size) ==
  LET mem == split(a, size)
  IN  /\ byte_mem' = written(mem, a)
      /\ byte_pool' = [P EXCEPT !.available = @ - (mem[a].next - a),
                                !.fragments = IF room(a) - size < BlockMin THEN @ ELSE @ + 1]
      /\ byte_call' = [byte_call EXCEPT ![t] = NoCall]
      /\ byte_held' = [byte_held EXCEPT ![t] = @ \cup {a}]

next_round(t, a, n) ==
  /\ byte_call' = [byte_call EXCEPT ![t].pc = "window", ![t].current = a, ![t].examine = n]
  /\ UNCHANGED byte_held

\* A free block that is too small is merged with its free neighbour.
merge_next(t, P, a, n) ==
  /\ MergeStart \/ byte_mem[a].next # P.search
  /\ byte_mem' = [byte_mem EXCEPT ![a].next = byte_mem[@].next]
  /\ byte_pool' = [P EXCEPT !.fragments = @ - 1]
  /\ next_round(t, a, dec(n))

\* A neighbour that is not free is skipped with it.
skip_two(t, P, a, n) ==
  /\ next_round(t, byte_mem[byte_mem[a].next].next, dec(dec(n)))
  /\ byte_pool' = P /\ UNCHANGED byte_mem

skip_one(t, P, a, n) ==
  /\ next_round(t, byte_mem[a].next, dec(n))
  /\ byte_pool' = P /\ UNCHANGED byte_mem

search_fails(t, P) ==
  /\ byte_call' = [byte_call EXCEPT ![t].pc = "failed"]
  /\ byte_pool' = P /\ UNCHANGED <<byte_mem, byte_held>>

\* One round of raw_byte_pool_search, at block a with n more to examine.
search_round(t, P, a, n) ==
  LET size == byte_call[t].size
  IN  IF ~ free(a) THEN skip_one(t, P, a, n)
      ELSE IF room(a) >= size THEN take_block(t, P, a, size)
      ELSE IF free(byte_mem[a].next) THEN merge_next(t, P, a, n)
      ELSE skip_two(t, P, a, n)

\* The owner is not looked at before the first round.
raw_byte_pool_search(t) ==
  /\ byte_call[t].pc = "search"
  /\ IF byte_call[t].size >= byte_pool.available THEN search_fails(t, byte_pool)
     ELSE search_round(t, byte_pool, byte_pool.search, byte_pool.fragments + 1)

\* Mutant: the search goes on where it was, whoever owns the pool.
search_again_Anyway(t) ==
  /\ byte_call[t].pc = "window"
  /\ LET P == [byte_pool EXCEPT !.owner = t]
         n == byte_call[t].examine
     IN  IF n = 0 THEN search_fails(t, P) ELSE search_round(t, P, byte_call[t].current, n)

\* After the window: the search begins again if another task owns the pool now.
search_again(t) ==
  /\ byte_call[t].pc = "window"
  /\ LET P == [byte_pool EXCEPT !.owner = t]
         ours == byte_pool.owner = t
         n == IF ours THEN byte_call[t].examine ELSE P.fragments + 1
     IN  IF n = 0 THEN search_fails(t, P)
         ELSE search_round(t, P, IF ours THEN byte_call[t].current ELSE P.search, n)

\* raw_byte_allocate tries again if another task owned the pool meanwhile, and
\* returns RAW_NO_MEMORY otherwise.
allocate_failed(t) ==
  /\ byte_call[t].pc = "failed"
  /\ IF byte_pool.owner # t
     THEN /\ byte_pool' = [byte_pool EXCEPT !.owner = t]
          /\ byte_call' = [byte_call EXCEPT ![t].pc = "search"]
     ELSE byte_call' = [byte_call EXCEPT ![t] = NoCall] /\ UNCHANGED byte_pool
  /\ UNCHANGED <<byte_mem, byte_held>>

raw_byte_release(t, a) ==
  /\ byte_call[t].pc = "none" /\ a \in byte_held[t]
  /\ byte_mem' = [byte_mem EXCEPT ![a].state = "free"]
  /\ byte_pool' = [byte_pool EXCEPT !.available = @ + (byte_mem[a].next - a),
                                    !.search = a, !.owner = t]
  /\ byte_held' = [byte_held EXCEPT ![t] = @ \ {a}]
  /\ UNCHANGED byte_call

ByteNext ==
  \E t \in ByteTask :
    \/ \E words \in Request : raw_byte_allocate(t, words)
    \/ raw_byte_pool_search(t) \/ search_again(t) \/ allocate_failed(t)
    \/ \E a \in byte_held[t] : raw_byte_release(t, a)

ByteSpec == ByteInit /\ [][ByteNext]_byteVars

-----------------------------------------------------------------------------

ring[n \in Nat] == IF n = 0 THEN 0 ELSE byte_mem[ring[n - 1]].next

\* The blocks that are reached from the start of the pool.
blocks == {ring[n] : n \in 0 .. byte_pool.fragments}

\* The blocks fill the pool without gap or overlap, fragments and available count
\* them and their free words, and the blocks that are not free are those that
\* tasks have, each had by one.  No search by the owner of the pool stands where
\* no block begins.
BytePoolOK ==
  LET B == blocks
      taken == {a \in B \ {LastBlock} : ~ free(a)}
  IN  /\ LastBlock \in B /\ byte_mem[LastBlock] = [next |-> 0, state |-> "alloc"]
      /\ \A a \in B \ {LastBlock} :
           /\ byte_mem[a].state \in {"free", "alloc"}
           /\ byte_mem[a].next \in B /\ byte_mem[a].next > a + Header
           /\ \A b \in B : b <= a \/ byte_mem[a].next <= b
      /\ byte_pool.fragments = Cardinality(B)
      /\ byte_pool.available = MapThenSumSet(LAMBDA a : IF free(a) THEN byte_mem[a].next - a ELSE 0, B)
      /\ taken = UNION {byte_held[t] : t \in ByteTask}
      /\ \A t, u \in ByteTask : t # u => byte_held[t] \cap byte_held[u] = {}
      /\ \A t \in ByteTask :
           byte_call[t].pc = "window" /\ byte_pool.owner = t => byte_call[t].current \in B

\* Searches begin at a block.
SearchStartsAtBlock == byte_pool.search \in blocks
=============================================================================
