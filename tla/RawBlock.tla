------------------------------ MODULE RawBlock ------------------------------
(***************************************************************************)
(* Pools of blocks of one size (raw_block.c).  The free blocks are linked  *)
(* through their own memory; the list is modelled as the sequence of the   *)
(* blocks it links, block i being the one at pool_start + i * block_size.  *)
(* A pool whose size is no multiple of block_size ends with a part of a    *)
(* block, which raw_block_pool_create links like the others and does not   *)
(* count.  Each call is one critical section.                              *)
(***************************************************************************)
EXTENDS Integers, Sequences

CONSTANTS
  BlockUser,   \* tasks and interrupt handlers
  PoolSize,    \* the pool_size of the pools that are created, in bytes
  BlockSize,   \* their block_size
  WordSize     \* sizeof(void *)

ASSUME BlockAssumption ==
  /\ PoolSize \subseteq Nat /\ BlockSize \subseteq Nat \ {0} /\ WordSize \in Nat \ {0}

VARIABLES
  block_pool,  \* pool_size, block_size, raw_block_pool_available and its list
  block_held   \* the blocks each user has

blockVars == <<block_pool, block_held>>

BlockInit ==
  /\ block_pool = [pool_size |-> 0, block_size |-> 1, available |-> 0, list |-> <<>>]
  /\ block_held = [u \in BlockUser |-> {}]

\* Block i ends within the pool.
whole(P, i) == i < P.pool_size \div P.block_size

\* Mutant: the part of a block at the end counts like a block.
new_pool_CountsPart(size, bsize) ==
  LET last == IF size % bsize = 0 THEN size \div bsize ELSE size \div bsize + 1
  IN  [pool_size |-> size, block_size |-> bsize,
       available |-> last, list |-> [i \in 1 .. last |-> i - 1]]

new_pool(size, bsize) ==
  LET last == IF size % bsize = 0 THEN size \div bsize ELSE size \div bsize + 1
  IN  [pool_size |-> size, block_size |-> bsize,
       available |-> size \div bsize, list |-> [i \in 1 .. last |-> i - 1]]

\* A size that is too small or not a multiple of a word is refused.
raw_block_pool_create(size, bsize) ==
  /\ block_pool.pool_size = 0
  /\ size >= bsize + bsize /\ size % WordSize = 0 /\ bsize % WordSize = 0
  /\ block_pool' = new_pool(size, bsize)
  /\ UNCHANGED block_held

\* A pool without a counted block returns RAW_NO_MEMORY and stays as it is.
raw_block_allocate(u) ==
  /\ block_pool.available # 0
  /\ block_held' = [block_held EXCEPT ![u] = @ \cup {Head(block_pool.list)}]
  /\ block_pool' = [block_pool EXCEPT !.available = @ - 1, !.list = Tail(@)]

\* A block is released by whoever has it.
raw_block_release(u, b) ==
  /\ b \in block_held[u]
  /\ block_held' = [block_held EXCEPT ![u] = @ \ {b}]
  /\ block_pool' = [block_pool EXCEPT !.available = @ + 1, !.list = <<b>> \o @]

\* A user hands a block to another one.
hand_over(u, v, b) ==
  /\ b \in block_held[u] /\ u # v
  /\ block_held' = [block_held EXCEPT ![u] = @ \ {b}, ![v] = @ \cup {b}]
  /\ UNCHANGED block_pool

BlockNext ==
  \/ \E size \in PoolSize, bsize \in BlockSize : raw_block_pool_create(size, bsize)
  \/ \E u \in BlockUser :
       \/ raw_block_allocate(u)
       \/ \E b \in block_held[u] :
            raw_block_release(u, b) \/ \E v \in BlockUser : hand_over(u, v, b)

BlockSpec == BlockInit /\ [][BlockNext]_blockVars

-----------------------------------------------------------------------------

\* Nobody has the part of a block at the end of the pool, and no block is had by two users.
BlocksHeldOK ==
  \A u \in BlockUser : \A b \in block_held[u] :
    whole(block_pool, b) /\ \A v \in BlockUser \ {u} : b \notin block_held[v]

BlockTypeOK ==
  /\ block_pool \in [pool_size : Nat, block_size : Nat \ {0}, available : Nat, list : Seq(Nat)]
  /\ block_held \in [BlockUser -> SUBSET Nat]
  /\ block_pool.available <= Len(block_pool.list)

CountedWhole == \A i \in 1 .. block_pool.available : whole(block_pool, block_pool.list[i])

ListedOnce ==
  \A i, j \in 1 .. Len(block_pool.list) : block_pool.list[i] = block_pool.list[j] => i = j

ListedFree ==
  \A u \in BlockUser : \A i \in 1 .. Len(block_pool.list) : block_pool.list[i] \notin block_held[u]

\* Nobody ever has the part of a block at the end of the pool, nor a block that another
\* user has; the counted blocks at the front of the free list are whole, and no block is
\* on the list twice or while a user has it.  The count is below the length of the list
\* in a pool that ends in a part of a block.
BlockPoolOK == BlocksHeldOK /\ CountedWhole /\ ListedOnce /\ ListedFree
=============================================================================
