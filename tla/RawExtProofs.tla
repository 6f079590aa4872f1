---------------------------- MODULE RawExtProofs ----------------------------
(***************************************************************************)
(* What the parts around the kernel guarantee for every value of their     *)
(* constants: block pools, condition variables, fifos, work queues, active *)
(* objects and event timers, a section each.  The first lines of a section *)
(* say what is inductive and why.                                          *)
(***************************************************************************)
EXTENDS RawExt, RawListProofs, FiniteSetTheorems

(***************************************************************************)
(* Block pools of every size, block size and number of users: nobody ever  *)
(* gets the part of a block at the end of the pool, nor a block that       *)
(* another user has.  The list is longer than its count by that part; as   *)
(* blocks are taken and put back at the front it stays behind the counted  *)
(* ones.                                                                   *)
(***************************************************************************)

BlockInv == BlockTypeOK /\ BlocksHeldOK /\ CountedWhole /\ ListedOnce /\ ListedFree

Pools == [pool_size : Nat, block_size : Nat \ {0}, available : Nat, list : Seq(Nat)]

LEMMA NewPool ==
  \A size \in Nat, bsize \in Nat \ {0} : \A P : P = new_pool(size, bsize) =>
    /\ P \in Pools
    /\ P.pool_size = size /\ P.block_size = bsize
    /\ P.available = size \div bsize /\ P.available <= Len(P.list)
    /\ \A i \in 1 .. Len(P.list) : P.list[i] = i - 1
<1>. SUFFICES ASSUME NEW size \in Nat, NEW bsize \in Nat \ {0}, NEW P, P = new_pool(size, bsize)
              PROVE  /\ P \in Pools
                     /\ P.pool_size = size /\ P.block_size = bsize
                     /\ P.available = size \div bsize /\ P.available <= Len(P.list)
                     /\ \A i \in 1 .. Len(P.list) : P.list[i] = i - 1
  OBVIOUS
<1> DEFINE last == IF size % bsize = 0 THEN size \div bsize ELSE size \div bsize + 1
           list == [i \in 1 .. last |-> i - 1]
<1>1. size \div bsize \in Nat
  OBVIOUS
<1>2. last \in Nat /\ size \div bsize <= last
  BY <1>1
<1>3. P = [pool_size |-> size, block_size |-> bsize, available |-> size \div bsize, list |-> list]
  BY DEF new_pool
<1>. HIDE DEF last
<1>4. list \in Seq(Nat) /\ Len(list) = last /\ \A i \in 1 .. last : list[i] = i - 1
  BY <1>2
<1>. HIDE DEF list
<1>. QED
  BY <1>1, <1>2, <1>3, <1>4 DEF Pools

\* The counted blocks of a new pool are whole, and the list has none twice.
LEMMA Create_Inv ==
  ASSUME BlockInv, NEW size \in PoolSize, NEW bsize \in BlockSize,
         raw_block_pool_create(size, bsize)
  PROVE  BlockInv'
<1>1. /\ size \in Nat /\ bsize \in Nat \ {0}
      /\ block_pool.pool_size = 0 /\ block_pool' = new_pool(size, bsize) /\ block_held' = block_held
  BY BlockAssumption DEF raw_block_pool_create
<1>2. \A u \in BlockUser : block_held[u] = {}
  <2>. SUFFICES ASSUME NEW u \in BlockUser, NEW b \in block_held[u] PROVE FALSE
    OBVIOUS
  <2>1. b \in Nat /\ block_pool.block_size \in Nat \ {0} /\ b < 0 \div block_pool.block_size
    BY <1>1 DEF BlockInv, BlockTypeOK, BlocksHeldOK, whole
  <2>2. 0 \div block_pool.block_size = 0
    BY <2>1
  <2>. QED
    BY <2>1, <2>2
<1>3. /\ block_pool' \in Pools
      /\ block_pool'.pool_size = size /\ block_pool'.block_size = bsize
      /\ block_pool'.available = size \div bsize
      /\ block_pool'.available <= Len(block_pool'.list)
      /\ \A i \in 1 .. Len(block_pool'.list) : block_pool'.list[i] = i - 1
  <2>1. size \in Nat /\ bsize \in Nat \ {0} /\ block_pool' = new_pool(size, bsize)
    BY <1>1
  <2>2. \A P : P = new_pool(size, bsize) =>
          /\ P \in Pools
          /\ P.pool_size = size /\ P.block_size = bsize
          /\ P.available = size \div bsize /\ P.available <= Len(P.list)
          /\ \A i \in 1 .. Len(P.list) : P.list[i] = i - 1
    BY <2>1, NewPool
  <2>. QED
    BY <2>1, <2>2
<1>4. BlockTypeOK'
  BY <1>1, <1>3 DEF BlockInv, BlockTypeOK, Pools
<1>5. CountedWhole'
  <2>. SUFFICES ASSUME NEW i \in 1 .. block_pool'.available
                PROVE  whole(block_pool', block_pool'.list[i])
    BY DEF CountedWhole
  <2>1. size \div bsize \in Nat
    BY <1>1
  <2>2. i \in 1 .. Len(block_pool'.list) /\ i \in 1 .. (size \div bsize)
    BY <1>3, <2>1 DEF Pools
  <2>3. block_pool'.list[i] < size \div bsize
    BY <1>3, <2>1, <2>2
  <2>. QED
    BY <1>3, <2>3 DEF whole
<1>6. ListedOnce'
  BY <1>3 DEF ListedOnce, Pools
<1>7. \A u \in BlockUser : block_held'[u] = {}
  BY <1>1, <1>2
<1>8. BlocksHeldOK' /\ ListedFree'
  BY <1>7 DEF BlocksHeldOK, ListedFree
<1>. QED
  BY <1>4, <1>5, <1>6, <1>8 DEF BlockInv

\* The first block is counted and thus whole; the part at the end stays behind.
LEMMA Allocate_Inv ==
  ASSUME BlockInv, NEW u \in BlockUser, raw_block_allocate(u)
  PROVE  BlockInv'
<1> DEFINE list == block_pool.list
           others == Tail(list)
<1>1. /\ block_pool \in Pools /\ list \in Seq(Nat) /\ block_pool.available \in Nat \ {0}
      /\ block_pool.available <= Len(list) /\ block_held \in [BlockUser -> SUBSET Nat]
      /\ block_pool' = [block_pool EXCEPT !.available = @ - 1, !.list = others]
      /\ block_held' = [block_held EXCEPT ![u] = @ \cup {Head(list)}]
  BY DEF BlockInv, BlockTypeOK, raw_block_allocate, Pools
<1>2. PICK b \in Nat : /\ b = Head(list) /\ b = list[1]
                       /\ 1 \in 1 .. block_pool.available /\ 1 \in 1 .. Len(list)
  BY <1>1
<1>3. /\ others \in Seq(Nat) /\ Len(others) = Len(list) - 1
      /\ \A i \in 1 .. Len(others) : others[i] = list[i + 1] /\ i + 1 \in 1 .. Len(list)
  BY <1>1
<1>. HIDE DEF others
<1>4. /\ block_pool' \in Pools /\ block_pool'.list = others
      /\ block_pool'.pool_size = block_pool.pool_size
      /\ block_pool'.block_size = block_pool.block_size
      /\ block_pool'.available = block_pool.available - 1
  <2>1. block_pool' = [pool_size |-> block_pool.pool_size, block_size |-> block_pool.block_size,
                       available |-> block_pool.available - 1, list |-> others]
    BY <1>1 DEF Pools
  <2>2. /\ block_pool.pool_size \in Nat /\ block_pool.block_size \in Nat \ {0}
        /\ block_pool.available - 1 \in Nat /\ others \in Seq(Nat)
    BY <1>1, <1>3 DEF Pools
  <2>. QED
    BY <2>1, <2>2 DEF Pools
<1>5. \A i : whole(block_pool', i) <=> whole(block_pool, i)
  BY <1>4 DEF whole
<1>6. whole(block_pool, b) /\ \A v \in BlockUser : b \notin block_held[v]
  BY <1>2 DEF BlockInv, CountedWhole, ListedFree
<1>7. /\ block_held' \in [BlockUser -> SUBSET Nat]
      /\ \A v \in BlockUser : block_held'[v] = IF v = u THEN block_held[v] \cup {b} ELSE block_held[v]
  BY <1>1, <1>2
<1>8. BlockTypeOK'
  BY <1>1, <1>3, <1>4, <1>7 DEF BlockTypeOK, Pools
<1>9. BlocksHeldOK'
  BY <1>5, <1>6, <1>7 DEF BlockInv, BlocksHeldOK
<1>10. CountedWhole'
  <2>. SUFFICES ASSUME NEW i \in 1 .. block_pool'.available PROVE whole(block_pool', others[i])
    BY <1>4 DEF CountedWhole
  <2>1. i \in 1 .. block_pool.available - 1 /\ Len(list) \in Nat
    BY <1>1, <1>4
  <2>2. Len(others) = Len(list) - 1 /\ block_pool.available <= Len(list) /\ block_pool.available \in Nat
    BY <1>1, <1>3
  <2>3. i \in 1 .. Len(others) /\ i + 1 \in 1 .. block_pool.available
    BY <2>1, <2>2
  <2>. QED
    BY <2>3, <1>3, <1>5 DEF BlockInv, CountedWhole
<1>11. ListedOnce'
  <2>. SUFFICES ASSUME NEW i \in 1 .. Len(others), NEW j \in 1 .. Len(others), others[i] = others[j]
                PROVE  i = j
    BY <1>4 DEF ListedOnce
  <2>1. i + 1 = j + 1
    BY <1>3 DEF BlockInv, ListedOnce
  <2>. QED
    BY <2>1
<1>12. ListedFree'
  <2>. SUFFICES ASSUME NEW v \in BlockUser, NEW i \in 1 .. Len(others)
                PROVE  others[i] \notin block_held'[v]
    BY <1>4 DEF ListedFree
  <2>1. list[i + 1] \notin block_held[v]
    BY <1>3 DEF BlockInv, ListedFree
  <2>2. list[i + 1] # b
    BY <1>2, <1>3 DEF BlockInv, ListedOnce
  <2>. QED
    BY <2>1, <2>2, <1>3, <1>7
<1>. QED
  BY <1>8, <1>9, <1>10, <1>11, <1>12 DEF BlockInv

\* A block that a user has is whole and not on the list.
LEMMA Release_Inv ==
  ASSUME BlockInv, NEW u \in BlockUser, NEW b \in block_held[u], raw_block_release(u, b)
  PROVE  BlockInv'
<1> DEFINE list == block_pool.list
           longer == <<b>> \o list
<1>1. /\ block_pool \in Pools /\ list \in Seq(Nat) /\ block_pool.available \in Nat /\ b \in Nat
      /\ block_pool.available <= Len(list) /\ block_held \in [BlockUser -> SUBSET Nat]
      /\ block_pool' = [block_pool EXCEPT !.available = @ + 1, !.list = longer]
      /\ block_held' = [block_held EXCEPT ![u] = @ \ {b}]
  BY DEF BlockInv, BlockTypeOK, raw_block_release, Pools
<1>2. /\ longer \in Seq(Nat) /\ Len(longer) = Len(list) + 1 /\ longer[1] = b
      /\ \A i \in 1 .. Len(longer) : i # 1 => longer[i] = list[i - 1] /\ i - 1 \in 1 .. Len(list)
  BY <1>1
<1>. HIDE DEF longer
<1>3. /\ block_pool' \in Pools /\ block_pool'.list = longer
      /\ block_pool'.pool_size = block_pool.pool_size
      /\ block_pool'.block_size = block_pool.block_size
      /\ block_pool'.available = block_pool.available + 1
  <2>1. block_pool' = [pool_size |-> block_pool.pool_size, block_size |-> block_pool.block_size,
                       available |-> block_pool.available + 1, list |-> longer]
    BY <1>1 DEF Pools
  <2>2. /\ block_pool.pool_size \in Nat /\ block_pool.block_size \in Nat \ {0}
        /\ block_pool.available + 1 \in Nat /\ longer \in Seq(Nat)
    BY <1>1, <1>2 DEF Pools
  <2>. QED
    BY <2>1, <2>2 DEF Pools
<1>4. \A i : whole(block_pool', i) <=> whole(block_pool, i)
  BY <1>3 DEF whole
<1>5. /\ whole(block_pool, b) /\ \A v \in BlockUser \ {u} : b \notin block_held[v]
      /\ \A i \in 1 .. Len(list) : list[i] # b
  BY DEF BlockInv, BlocksHeldOK, ListedFree
<1>6. /\ block_held' \in [BlockUser -> SUBSET Nat]
      /\ \A v \in BlockUser : block_held'[v] = IF v = u THEN block_held[v] \ {b} ELSE block_held[v]
  BY <1>1
<1>7. BlockTypeOK'
  BY <1>1, <1>2, <1>3, <1>6 DEF BlockTypeOK, Pools
<1>8. BlocksHeldOK'
  BY <1>4, <1>6 DEF BlockInv, BlocksHeldOK
<1>9. CountedWhole'
  <2>. SUFFICES ASSUME NEW i \in 1 .. block_pool'.available PROVE whole(block_pool, longer[i])
    BY <1>3, <1>4 DEF CountedWhole
  <2>1. CASE i = 1
    BY <2>1, <1>2, <1>5
  <2>2. CASE i # 1
    <3>1. i \in 1 .. block_pool.available + 1 /\ Len(list) \in Nat
      BY <1>1, <1>3
    <3>2. Len(longer) = Len(list) + 1 /\ block_pool.available <= Len(list) /\ block_pool.available \in Nat
      BY <1>1, <1>2
    <3>3. i \in 1 .. Len(longer) /\ i - 1 \in 1 .. block_pool.available
      BY <2>2, <3>1, <3>2
    <3>. QED
      BY <2>2, <3>3, <1>2 DEF BlockInv, CountedWhole
  <2>. QED
    BY <2>1, <2>2
<1>10. ListedOnce'
  <2>. SUFFICES ASSUME NEW i \in 1 .. Len(longer), NEW j \in 1 .. Len(longer), longer[i] = longer[j]
                PROVE  i = j
    BY <1>3 DEF ListedOnce
  <2>1. CASE i = 1 \/ j = 1
    BY <2>1, <1>2, <1>5
  <2>2. CASE i # 1 /\ j # 1
    <3>1. list[i - 1] = list[j - 1] /\ i - 1 \in 1 .. Len(list) /\ j - 1 \in 1 .. Len(list)
      BY <2>2, <1>2
    <3>2. i - 1 = j - 1
      BY <3>1 DEF BlockInv, ListedOnce
    <3>. QED
      BY <3>2, <1>2
  <2>. QED
    BY <2>1, <2>2
<1>11. ListedFree'
  <2>. SUFFICES ASSUME NEW v \in BlockUser, NEW i \in 1 .. Len(longer)
                PROVE  longer[i] \notin block_held'[v]
    BY <1>3 DEF ListedFree
  <2>1. CASE i = 1
    BY <2>1, <1>2, <1>5, <1>6
  <2>2. CASE i # 1
    <3>1. longer[i] = list[i - 1] /\ i - 1 \in 1 .. Len(list)
      BY <2>2, <1>2
    <3>2. list[i - 1] \notin block_held[v]
      BY <3>1 DEF BlockInv, ListedFree
    <3>. QED
      BY <3>1, <3>2, <1>6
  <2>. QED
    BY <2>1, <2>2
<1>. QED
  BY <1>7, <1>8, <1>9, <1>10, <1>11 DEF BlockInv

LEMMA HandOver_Inv ==
  ASSUME BlockInv, NEW u \in BlockUser, NEW v \in BlockUser, NEW b \in block_held[u],
         hand_over(u, v, b)
  PROVE  BlockInv'
<1>1. /\ block_pool' = block_pool /\ u # v
      /\ block_held \in [BlockUser -> SUBSET Nat]
      /\ block_held' = [block_held EXCEPT ![u] = @ \ {b}, ![v] = @ \cup {b}]
  BY DEF hand_over, BlockInv, BlockTypeOK
<1>2. /\ block_held' \in [BlockUser -> SUBSET Nat]
      /\ block_held'[u] = block_held[u] \ {b} /\ block_held'[v] = block_held[v] \cup {b}
      /\ \A w \in BlockUser \ {u, v} : block_held'[w] = block_held[w]
  BY <1>1
<1>3. BlocksHeldOK'
  BY <1>1, <1>2 DEF BlockInv, BlocksHeldOK
<1>4. BlockTypeOK' /\ CountedWhole' /\ ListedOnce'
  BY <1>1, <1>2 DEF BlockInv, BlockTypeOK, CountedWhole, ListedOnce
<1>5. ListedFree'
  BY <1>1, <1>2 DEF BlockInv, ListedFree
<1>. QED
  BY <1>3, <1>4, <1>5 DEF BlockInv

LEMMA BlockNext_Inv == BlockInv /\ [BlockNext]_blockVars => BlockInv'
<1>. SUFFICES ASSUME BlockInv, [BlockNext]_blockVars PROVE BlockInv'
  OBVIOUS
<1>1. CASE BlockNext
  BY <1>1, Create_Inv, Allocate_Inv, Release_Inv, HandOver_Inv DEF BlockNext
<1>2. CASE UNCHANGED blockVars
  BY <1>2 DEF BlockInv, BlockTypeOK, BlocksHeldOK, CountedWhole, ListedOnce, ListedFree, blockVars
<1>. QED
  BY <1>1, <1>2

LEMMA BlockInit_Inv == BlockInit => BlockInv
BY DEF BlockInit, BlockInv, BlockTypeOK, BlocksHeldOK, CountedWhole, ListedOnce, ListedFree

\* In pools of every size and block size raw_block_allocate hands out whole blocks only,
\* each to one user at a time; the counted blocks stand at the front of the free list,
\* and no block is on the list twice or while a user has it.
THEOREM BlockPoolsAreSafe == BlockSpec => []BlockPoolOK
<1>1. BlockInv => BlockPoolOK
  BY DEF BlockInv, BlockPoolOK
<1>. QED
  BY <1>1, BlockInit_Inv, BlockNext_Inv, PTL DEF BlockSpec

-----------------------------------------------------------------------------

(***************************************************************************)
(* Condition variables for every set of threads: no signal is lost between *)
(* the put of the mutex and the get of the semaphore.  What makes it       *)
(* inductive is that a destroyed variable has no count, so that the waits  *)
(* that then fail take nothing.                                            *)
(***************************************************************************)

PosixTypeOK ==
  /\ cond \in [live : BOOLEAN, count : Nat]
  /\ pt \in [Pthread -> [pc : {"runs", "released", "waiting", "relock"}, timed : BOOLEAN]]
  /\ signals_due \in Int

PosixInv == PosixTypeOK /\ NoSignalLost /\ (~ cond.live => cond.count = 0)

LEMMA InWaitNumber == Cardinality(InWait) \in Nat
<1>1. InWait \subseteq Pthread
  BY DEF InWait, At
<1>2. IsFiniteSet(InWait)
  BY <1>1, FS_Subset, PosixAssumption
<1>. QED
  BY <1>2, FS_CardinalityType

LEMMA LeastBound == \A a \in Int, b \in Int : Least(a, b) \in Int /\ Least(a, b) <= a
BY DEF Least

\* What go does to the waiting threads.
LEMMA Go_Inv ==
  ASSUME PosixTypeOK, NEW t \in Pthread,
         NEW pc \in {"runs", "released", "waiting", "relock"}, go(t, pc)
  PROVE  /\ pt' \in [Pthread -> [pc : {"runs", "released", "waiting", "relock"}, timed : BOOLEAN]]
         /\ pc # "waiting" => At("waiting")' \subseteq At("waiting")
         /\ pc # "waiting" /\ t \in At("waiting") => t \notin At("waiting")'
BY DEF PosixTypeOK, go, At

LEMMA Woken ==
  ASSUME PosixTypeOK, wake_all
  PROVE  /\ pt' \in [Pthread -> [pc : {"runs", "released", "waiting", "relock"}, timed : BOOLEAN]]
         /\ At("waiting")' = {}
<1>1. \A t \in Pthread :
        /\ pt'[t] \in [pc : {"runs", "released", "waiting", "relock"}, timed : BOOLEAN]
        /\ pt'[t].pc # "waiting"
  BY DEF PosixTypeOK, wake_all
<1>2. pt' \in [Pthread -> [pc : {"runs", "released", "waiting", "relock"}, timed : BOOLEAN]]
  BY <1>1 DEF wake_all
<1>. QED
  BY <1>1, <1>2 DEF At

LEMMA Wait_Inv ==
  ASSUME PosixInv, NEW t \in Pthread, NEW limited \in BOOLEAN, pthread_cond_wait(t, limited)
  PROVE  PosixInv'
<1>1. /\ cond' = cond /\ signals_due' = signals_due
      /\ pt' \in [Pthread -> [pc : {"runs", "released", "waiting", "relock"}, timed : BOOLEAN]]
      /\ At("waiting")' \subseteq At("waiting")
  BY DEF PosixInv, PosixTypeOK, pthread_cond_wait, At
<1>. QED
  BY <1>1 DEF PosixInv, PosixTypeOK, NoSignalLost

LEMMA SemGet_Inv ==
  ASSUME PosixInv, NEW t \in Pthread, cond_sem_get(t)
  PROVE  PosixInv'
<1>1. CASE cond.live /\ cond.count = 0
  <2>1. go(t, "waiting") /\ cond' = cond /\ signals_due' = signals_due
    BY <1>1 DEF cond_sem_get
  <2>2. pt' \in [Pthread -> [pc : {"runs", "released", "waiting", "relock"}, timed : BOOLEAN]]
    BY <2>1, Go_Inv DEF PosixInv
  <2>. QED
    BY <1>1, <2>1, <2>2 DEF PosixInv, PosixTypeOK, NoSignalLost
<1>2. CASE ~ (cond.live /\ cond.count = 0)
  <2>1. /\ go(t, "relock")
        /\ cond' = [cond EXCEPT !.count = IF cond.live THEN @ - 1 ELSE @]
        /\ signals_due' = IF signals_due = 0 THEN 0 ELSE signals_due - 1
    BY <1>2 DEF cond_sem_get
  <2>2. /\ pt' \in [Pthread -> [pc : {"runs", "released", "waiting", "relock"}, timed : BOOLEAN]]
        /\ At("waiting")' \subseteq At("waiting")
    BY <2>1, Go_Inv DEF PosixInv
  <2>3. /\ cond \in [live : BOOLEAN, count : Nat] /\ signals_due \in Int
        /\ signals_due <= cond.count /\ (~ cond.live => cond.count = 0)
        /\ (At("waiting") # {} => cond.count = 0)
    BY DEF PosixInv, PosixTypeOK, NoSignalLost
  <2>4. CASE cond.live
    <3>1. cond.count \in Nat \ {0} /\ cond' \in [live : BOOLEAN, count : Nat]
          /\ cond'.live = cond.live /\ cond'.count = cond.count - 1
      <4>1. cond.count \in Nat \ {0}
        BY <1>2, <2>3, <2>4
      <4>2. cond' = [live |-> cond.live, count |-> cond.count - 1]
        BY <2>1, <2>3, <2>4
      <4>. QED
        BY <2>3, <4>1, <4>2
    <3>2. At("waiting")' = {}
      BY <2>2, <2>3, <3>1
    <3>3. signals_due' \in Int /\ signals_due' <= cond'.count
      BY <2>1, <2>3, <3>1
    <3>. QED
      BY <2>2, <2>4, <3>1, <3>2, <3>3 DEF PosixInv, PosixTypeOK, NoSignalLost
  <2>5. CASE ~ cond.live
    <3>1. cond' = cond /\ signals_due' \in Int /\ signals_due' <= cond.count
      BY <2>1, <2>3, <2>5
    <3>. QED
      BY <2>2, <2>3, <3>1 DEF PosixInv, PosixTypeOK, NoSignalLost
  <2>. QED
    BY <2>4, <2>5
<1>. QED
  BY <1>1, <1>2

LEMMA Timeout_Inv ==
  ASSUME PosixInv, NEW t \in Pthread, cond_timeout(t)
  PROVE  PosixInv'
<1>1. /\ go(t, "relock") /\ cond' = cond
      /\ signals_due' = Least(signals_due, Cardinality(InWait) - 1)
  BY DEF cond_timeout
<1>2. /\ pt' \in [Pthread -> [pc : {"runs", "released", "waiting", "relock"}, timed : BOOLEAN]]
      /\ At("waiting")' \subseteq At("waiting")
  BY <1>1, Go_Inv DEF PosixInv
<1>3. signals_due \in Int /\ Cardinality(InWait) - 1 \in Int
  BY InWaitNumber DEF PosixInv, PosixTypeOK
<1>4. signals_due' \in Int /\ signals_due' <= signals_due
  BY <1>1, <1>3, LeastBound
<1>5. cond.count \in Int /\ signals_due <= cond.count
  BY DEF PosixInv, PosixTypeOK, NoSignalLost
<1>6. signals_due' <= cond.count
  BY <1>3, <1>4, <1>5
<1>. QED
  BY <1>1, <1>2, <1>4, <1>6 DEF PosixInv, PosixTypeOK, NoSignalLost

LEMMA Relock_Inv ==
  ASSUME PosixInv, NEW t \in Pthread, cond_relock(t)
  PROVE  PosixInv'
<1>1. go(t, "runs") /\ cond' = cond /\ signals_due' = signals_due
  BY DEF cond_relock
<1>2. /\ pt' \in [Pthread -> [pc : {"runs", "released", "waiting", "relock"}, timed : BOOLEAN]]
      /\ At("waiting")' \subseteq At("waiting")
  BY <1>1, Go_Inv DEF PosixInv
<1>. QED
  BY <1>1, <1>2 DEF PosixInv, PosixTypeOK, NoSignalLost

\* A signal is kept in the count unless a thread on the list takes it.
LEMMA Signal_Inv ==
  ASSUME PosixInv, pthread_cond_signal
  PROVE  PosixInv'
<1>1. CASE At("waiting") # {}
  <2>1. PICK t \in At("waiting") : go(t, "relock")
    BY <1>1 DEF pthread_cond_signal
  <2>2. t \in Pthread /\ cond' = cond /\ signals_due' = signals_due
    BY <1>1 DEF pthread_cond_signal, At
  <2>3. /\ pt' \in [Pthread -> [pc : {"runs", "released", "waiting", "relock"}, timed : BOOLEAN]]
        /\ At("waiting")' \subseteq At("waiting")
    BY <2>1, <2>2, Go_Inv DEF PosixInv
  <2>. QED
    BY <2>2, <2>3 DEF PosixInv, PosixTypeOK, NoSignalLost
<1>2. CASE At("waiting") = {}
  <2>1. /\ cond' = [cond EXCEPT !.count = @ + 1] /\ pt' = pt
        /\ signals_due' = Least(signals_due + 1, Cardinality(InWait))
    BY <1>2 DEF pthread_cond_signal
  <2>2. /\ cond \in [live : BOOLEAN, count : Nat] /\ signals_due \in Int
        /\ signals_due <= cond.count /\ cond.live
    BY DEF PosixInv, PosixTypeOK, NoSignalLost, pthread_cond_signal
  <2>3. /\ cond' \in [live : BOOLEAN, count : Nat]
        /\ cond'.live /\ cond'.count = cond.count + 1
    BY <2>1, <2>2
  <2>4. signals_due' \in Int /\ signals_due' <= signals_due + 1
    BY <2>1, <2>2, InWaitNumber, LeastBound
  <2>5. signals_due' <= cond'.count
    BY <2>2, <2>3, <2>4
  <2>6. At("waiting")' = {}
    BY <1>2, <2>1 DEF At
  <2>. QED
    BY <2>1, <2>3, <2>4, <2>5, <2>6 DEF PosixInv, PosixTypeOK, NoSignalLost
<1>. QED
  BY <1>1, <1>2

LEMMA Broadcast_Inv ==
  ASSUME PosixInv, pthread_cond_broadcast
  PROVE  PosixInv'
<1>1. /\ pt' \in [Pthread -> [pc : {"runs", "released", "waiting", "relock"}, timed : BOOLEAN]]
      /\ At("waiting")' = {} /\ signals_due' = signals_due
  BY Woken DEF PosixInv, pthread_cond_broadcast
<1>2. /\ cond' \in [live : BOOLEAN, count : Nat] /\ cond'.live = cond.live
      /\ cond.live /\ cond'.count >= cond.count
  <2>1. /\ cond \in [live : BOOLEAN, count : Nat] /\ cond.live
        /\ cond' = cond \/ cond' = [cond EXCEPT !.count = @ + 1]
    BY DEF PosixInv, PosixTypeOK, pthread_cond_broadcast
  <2>2. cond' = cond \/ cond' = [live |-> cond.live, count |-> cond.count + 1]
    BY <2>1
  <2>3. CASE cond' = cond
    <3>1. cond.count \in Nat
      BY <2>1
    <3>2. cond.count >= cond.count
      BY <3>1
    <3>. QED
      BY <2>1, <2>3, <3>2
  <2>4. CASE cond' = [live |-> cond.live, count |-> cond.count + 1]
    <3>1. cond.live \in BOOLEAN /\ cond.count \in Nat /\ cond.count + 1 \in Nat
      BY <2>1
    <3>2. cond'.live = cond.live /\ cond'.count = cond.count + 1
      BY <2>4
    <3>. QED
      BY <2>1, <2>4, <3>1, <3>2
  <2>. QED
    BY <2>2, <2>3, <2>4
<1>3. signals_due <= cond'.count
  BY <1>2 DEF PosixInv, PosixTypeOK, NoSignalLost
<1>. QED
  BY <1>1, <1>2, <1>3 DEF PosixInv, PosixTypeOK, NoSignalLost

LEMMA Destroy_Inv ==
  ASSUME PosixInv, pthread_cond_destroy
  PROVE  PosixInv'
<1>1. /\ pt' \in [Pthread -> [pc : {"runs", "released", "waiting", "relock"}, timed : BOOLEAN]]
      /\ At("waiting")' = {}
  BY Woken DEF PosixInv, pthread_cond_destroy
<1>. QED
  BY <1>1 DEF PosixInv, PosixTypeOK, NoSignalLost, pthread_cond_destroy

LEMMA Init_Inv ==
  ASSUME PosixInv, pthread_cond_init
  PROVE  PosixInv'
<1>1. /\ cond' = [live |-> TRUE, count |-> 0] /\ pt' = pt /\ signals_due' = signals_due
      /\ cond.count = 0 /\ signals_due <= cond.count
  BY DEF PosixInv, NoSignalLost, pthread_cond_init
<1>. QED
  BY <1>1 DEF PosixInv, PosixTypeOK, NoSignalLost

LEMMA PosixNext_Inv == PosixInv /\ [PosixNext]_posixVars => PosixInv'
<1>. SUFFICES ASSUME PosixInv, [PosixNext]_posixVars PROVE PosixInv'
  OBVIOUS
<1>1. CASE UNCHANGED <<cond, pt, signals_due>>
  BY <1>1 DEF PosixInv, PosixTypeOK, NoSignalLost, At
<1>2. ASSUME NEW t \in Pthread, pthread_mutex_lock(t) \/ pthread_mutex_unlock(t)
      PROVE  PosixInv'
  BY <1>1, <1>2 DEF pthread_mutex_lock, pthread_mutex_unlock
<1>3. ASSUME NEW t \in Pthread, NEW limited \in BOOLEAN, pthread_cond_wait(t, limited)
      PROVE  PosixInv'
  BY <1>3, Wait_Inv
<1>4. ASSUME NEW t \in Pthread, cond_sem_get(t) \/ cond_timeout(t) \/ cond_relock(t)
      PROVE  PosixInv'
  BY <1>4, SemGet_Inv, Timeout_Inv, Relock_Inv
<1>. QED
  BY <1>1, <1>2, <1>3, <1>4, Signal_Inv, Broadcast_Inv, Destroy_Inv, Init_Inv
  DEF PosixNext, posixVars

LEMMA PosixInit_Inv == PosixInit => PosixInv
BY DEF PosixInit, PosixInv, PosixTypeOK, NoSignalLost, At

\* A signal that comes while pthread_cond_wait is between its calls is kept for
\* the thread that waits, for any number of threads.
THEOREM SignalsAreKept == PosixSpec => []NoSignalLost
<1>1. PosixInv => NoSignalLost
  BY DEF PosixInv
<1>. QED
  BY <1>1, PosixInit_Inv, PosixNext_Inv, PTL DEF PosixSpec

-----------------------------------------------------------------------------

(***************************************************************************)
(* Fifos of every size and width of their counters.  What is inductive is  *)
(* that the counters are as far apart as free_bytes says, over the wrap of *)
(* the width; the positions in the buffer follow because the size divides  *)
(* what the counters wrap at.                                              *)
(***************************************************************************)

\* Numbers that are the same modulo the width are the same modulo the size.
LEMMA CongDivides ==
  ASSUME NEW x \in Int, NEW y \in Int, Cong(FifoWrap, x, y)
  PROVE  Cong(FifoSize, x, y)
<1>1. PICK q \in Int : x = y + FifoWrap * q
  BY DEF Cong
<1>2. /\ FifoSize \in Nat \ {0} /\ FifoWrap \in Nat /\ FifoWrap % FifoSize = 0
  BY FifoAssumption
<1>3. PICK m \in Int : FifoWrap = FifoSize * m
  BY <1>2
<1>4. m * q \in Int /\ FifoWrap * q = FifoSize * (m * q)
  BY <1>2, <1>3
<1>. QED
  BY <1>1, <1>4 DEF Cong

FifoBytes == FifoByte \cup {Nobody}
FifoPlaces == 0 .. FifoSize - 1

FifoStates ==
  [in : 0 .. FifoWrap - 1, out : 0 .. FifoWrap - 1, free_bytes : 0 .. FifoSize,
   data : [FifoPlaces -> FifoBytes]]

FifoGood(F) ==
  F \in FifoStates /\ Cong(FifoWrap, F.in, F.out + (FifoSize - F.free_bytes))

FifoInv == FifoGood(fifo)

LEMMA FifoNumbers ==
  /\ FifoSize \in Nat \ {0} /\ FifoWrap \in Nat \ {0} /\ FifoSize < FifoWrap
BY FifoAssumption

\* used_bytes is what free_bytes says.
LEMMA UsedBytes ==
  ASSUME NEW F, FifoGood(F)
  PROVE  /\ used_bytes(F) = FifoSize - F.free_bytes
         /\ fifo_unused(F) = F.free_bytes
<1> DEFINE n == FifoSize - F.free_bytes  d == F.in - F.out
<1>1. /\ F.in \in Int /\ F.out \in Int /\ F.free_bytes \in Int /\ n \in 0 .. FifoWrap - 1
      /\ FifoWrap \in Nat \ {0} /\ FifoSize \in Int /\ d \in Int /\ n \in Int
      /\ Cong(FifoWrap, F.in, F.out + n)
  BY FifoNumbers DEF FifoGood, FifoStates
<1>2. F.out + n \in Int /\ d = F.in - F.out
  BY <1>1
<1>3. d - F.in = n - (F.out + n)
  BY <1>1, <1>2
<1> HIDE DEF d, n
<1>4. Cong(FifoWrap, d, n)
  BY <1>1, <1>2, <1>3, CongShift
<1>5. d % FifoWrap = n
  BY <1>1, <1>4, ModIs
<1>6. used_bytes(F) = n
  BY <1>5 DEF used_bytes, d
<1>. QED
  BY <1>1, <1>6 DEF fifo_unused, n

\* The bytes of a fifo, first to last.
LEMMA FifoContents ==
  ASSUME NEW F, F \in FifoStates
  PROVE  /\ fifo_bytes(F) \in Seq(FifoBytes)
         /\ Len(fifo_bytes(F)) = FifoSize - F.free_bytes
         /\ \A i \in 1 .. FifoSize - F.free_bytes :
              /\ (F.out + i - 1) % FifoSize \in FifoPlaces
              /\ fifo_bytes(F)[i] = F.data[(F.out + i - 1) % FifoSize]
<1> DEFINE n == FifoSize - F.free_bytes
<1>1. /\ F.out \in Int /\ n \in Nat /\ F.data \in [FifoPlaces -> FifoBytes]
  BY FifoNumbers DEF FifoStates
<1>2. fifo_bytes(F) = [i \in 1 .. n |-> F.data[(F.out + i - 1) % FifoSize]]
  BY DEF fifo_bytes
<1> HIDE DEF n
<1>3. \A i \in 1 .. n : (F.out + i - 1) % FifoSize \in FifoPlaces
  BY <1>1, FifoNumbers DEF FifoPlaces
<1>4. fifo_bytes(F) \in [1 .. n -> FifoBytes]
  BY <1>1, <1>2, <1>3
<1>5. fifo_bytes(F) \in Seq(FifoBytes) /\ Len(fifo_bytes(F)) = n
  BY <1>1, <1>4
<1>. QED
  BY <1>2, <1>3, <1>5 DEF n

Place(x) == x % FifoSize

\* How far a place in the buffer is from the one where the next byte goes.
LEMMA PlaceOf ==
  ASSUME NEW in \in Int, NEW out \in Int, NEW n \in 0 .. FifoSize, NEW end \in Int,
         end = out + n, Cong(FifoSize, in, end),
         NEW i \in 1 .. FifoSize, NEW x \in Int, x = out + i - 1,
         NEW j \in 0 .. FifoSize - 1, j = IF i <= n THEN i - 1 - n + FifoSize ELSE i - 1 - n,
         NEW p \in Int, p = Place(x), NEW a \in Int, a = p - in
  PROVE  Place(a) = j
<1> DEFINE b == x - in  c == x - end
<1>1. FifoSize \in Nat \ {0} /\ n \in Int /\ j \in Int /\ i \in Int
  BY FifoNumbers
<1>2. p \in Int /\ Cong(FifoSize, p, x)
  BY <1>1, CongMod DEF Place
<1>3. /\ a \in Int /\ b \in Int /\ c \in Int
      /\ a - p = b - x /\ b + in = c + end /\ (c = j \/ c = j + FifoSize * (-1))
  BY <1>1, <1>2
<1> HIDE DEF b, c
<1>4. Cong(FifoSize, a, b)
  BY <1>1, <1>2, <1>3, CongShift
<1>5. Cong(FifoSize, b, c)
  BY <1>1, <1>3, CongShift
<1>6. Cong(FifoSize, c, j)
  <2>1. CASE c = j
    <3>1. c = j + FifoSize * 0
      BY <1>1, <2>1
    <3>. QED
      BY <3>1 DEF Cong
  <2>2. CASE c = j + FifoSize * (-1)
    BY <2>2 DEF Cong
  <2>. QED
    BY <1>3, <2>1, <2>2
<1>7. Cong(FifoSize, b, j)
  BY <1>1, <1>3, <1>5, <1>6, CongTrans
<1>8. Cong(FifoSize, a, j)
  BY <1>1, <1>3, <1>4, <1>7, CongTrans
<1>9. a % FifoSize = j
  BY <1>1, <1>3, <1>8, ModIs
<1>. QED
  BY <1>9 DEF Place

\* A counter that runs on by len, and how far one counter is before another.
Moved(x, len) == (x + len) % FifoWrap
Ahead(x, y, n) == Cong(FifoWrap, x, y + n)
Count(F) == FifoSize - F.free_bytes

\* Either counter moves on by len, over the wrap.
LEMMA CounterMoves ==
  ASSUME NEW x \in Int, NEW y \in Int, NEW n \in Int, NEW len \in Int, Ahead(x, y, n)
  PROVE  /\ Moved(x, len) \in 0 .. FifoWrap - 1 /\ Ahead(Moved(x, len), y, n + len)
         /\ Moved(y, len) \in 0 .. FifoWrap - 1 /\ Ahead(x, Moved(y, len), n - len)
<1>1. FifoWrap \in Nat \ {0}
  BY FifoNumbers
<1>2. PICK u \in Int, v \in Int, w \in Int, z \in Int, a \in Int :
        u = x + len /\ v = y + len /\ w = y + n /\ z = y + (n + len) /\ a = n - len
  OBVIOUS
<1> DEFINE p == Moved(x, len)  q == Moved(y, len)
<1>3. /\ p \in 0 .. FifoWrap - 1 /\ p \in Int /\ Cong(FifoWrap, p, u)
      /\ q \in 0 .. FifoWrap - 1 /\ q \in Int /\ Cong(FifoWrap, q, v)
  <2>1. p = u % FifoWrap /\ q = v % FifoWrap
    BY <1>2 DEF Moved
  <2> HIDE DEF p, q
  <2>2. p \in 0 .. FifoWrap - 1 /\ Cong(FifoWrap, p, u)
    BY <1>1, <2>1, CongMod
  <2>3. q \in 0 .. FifoWrap - 1 /\ Cong(FifoWrap, q, v)
    BY <1>1, <2>1, CongMod
  <2>. QED
    BY <1>1, <2>2, <2>3
<1> HIDE DEF p, q
<1>4. Cong(FifoWrap, x, w)
  BY <1>2 DEF Ahead
<1>5. Cong(FifoWrap, p, z)
  <2>1. u - x = z - w
    BY <1>2
  <2>2. Cong(FifoWrap, u, z)
    BY <1>1, <1>4, <2>1, CongShift
  <2>. QED
    BY <1>1, <1>3, <2>2, CongTrans
<1>6. \E b \in Int : b = q + a /\ Cong(FifoWrap, x, b)
  <2>1. PICK b \in Int : b = q + a
    BY <1>3
  <2>2. b - q = w - v
    BY <1>2, <1>3, <2>1
  <2>3. Cong(FifoWrap, b, w)
    BY <1>1, <1>3, <2>2, CongShift
  <2>4. Cong(FifoWrap, w, b)
    BY <1>1, <2>3, CongSym
  <2>. QED
    BY <1>1, <1>4, <2>1, <2>4, CongTrans
<1>. QED
  BY <1>2, <1>3, <1>5, <1>6 DEF Ahead, p, q

\* There is room for s in the fifo.
Fits(F, s) == s \in Seq(FifoByte) /\ Len(s) \in 0 .. F.free_bytes

\* The fifo after fifo_in has copied s into it.
Put(F, s) ==
  [F EXCEPT !.data = fifo_copy_in(F, s), !.in = Moved(@, Len(s)), !.free_bytes = @ - Len(s)]

\* The fifo after len bytes are taken from it.
Drop(F, len) == [F EXCEPT !.out = Moved(@, len), !.free_bytes = @ + len]

LEMMA FifoFields ==
  ASSUME NEW F, FifoGood(F)
  PROVE  /\ F \in FifoStates /\ F.in \in Int /\ F.out \in Int /\ F.free_bytes \in 0 .. FifoSize
         /\ F.data \in [FifoPlaces -> FifoBytes] /\ Count(F) \in 0 .. FifoSize
         /\ Count(F) \in Int /\ Ahead(F.in, F.out, Count(F))
<1>1. F.in \in Int /\ F.out \in Int /\ F.free_bytes \in 0 .. FifoSize
  BY FifoNumbers DEF FifoGood, FifoStates
<1>2. FifoSize - F.free_bytes \in 0 .. FifoSize
  BY <1>1, FifoNumbers
<1>. QED
  BY <1>1, <1>2 DEF FifoGood, FifoStates, Count, Ahead

LEMMA FifoGoodIs ==
  ASSUME NEW F, F \in FifoStates, NEW n, Count(F) = n, Ahead(F.in, F.out, n)
  PROVE  FifoGood(F)
BY DEF FifoGood, Count, Ahead

LEMMA RoomLeft ==
  ASSUME NEW F, FifoGood(F), NEW len \in 0 .. F.free_bytes
  PROVE  /\ F.free_bytes - len \in 0 .. FifoSize
         /\ FifoSize - (F.free_bytes - len) = Count(F) + len
         /\ Count(F) + len \in 0 .. FifoSize
<1>1. F.free_bytes \in 0 .. FifoSize
  BY FifoFields
<1>. QED
  BY <1>1, FifoNumbers DEF Count

LEMMA RoomMade ==
  ASSUME NEW F, FifoGood(F), NEW len \in 0 .. Count(F)
  PROVE  /\ F.free_bytes + len \in 0 .. FifoSize
         /\ FifoSize - (F.free_bytes + len) = Count(F) - len
<1>1. F.free_bytes \in 0 .. FifoSize
  BY FifoFields
<1>. QED
  BY <1>1, FifoNumbers DEF Count

LEMMA CopyInType ==
  ASSUME NEW F, FifoGood(F), NEW s, Fits(F, s)
  PROVE  fifo_copy_in(F, s) \in [FifoPlaces -> FifoBytes]
<1>1. F.data \in [FifoPlaces -> FifoBytes] /\ s \in Seq(FifoBytes) /\ F.in \in Int
  BY FifoFields DEF Fits, FifoBytes
<1>2. ASSUME NEW p \in FifoPlaces
      PROVE  (IF (p - F.in) % FifoSize < Len(s) THEN s[((p - F.in) % FifoSize) + 1] ELSE F.data[p])
               \in FifoBytes
  <2> DEFINE j == (p - F.in) % FifoSize
  <2>1. j \in Nat
    BY <1>1, FifoNumbers DEF FifoPlaces
  <2> HIDE DEF j
  <2>2. (IF j < Len(s) THEN s[j + 1] ELSE F.data[p]) \in FifoBytes
    BY <1>1, <2>1
  <2>. QED
    BY <2>2 DEF j
<1>. QED
  BY <1>2 DEF fifo_copy_in, FifoPlaces

\* The numbers of a write: the counter of the writes moves on, and what there is grows.
LEMMA PutNumbers ==
  ASSUME NEW F, FifoGood(F), NEW s, Fits(F, s), NEW G, G = Put(F, s)
  PROVE  /\ FifoGood(G) /\ G.out = F.out /\ G.data = fifo_copy_in(F, s)
         /\ Count(G) = Count(F) + Len(s) /\ Count(F) + Len(s) \in 0 .. FifoSize
<1>1. PICK len \in Int : len = Len(s) /\ len \in 0 .. F.free_bytes
  BY DEF Fits
<1> DEFINE m == Moved(F.in, len)  f == F.free_bytes - len
<1>2. /\ m \in 0 .. FifoWrap - 1 /\ Ahead(m, F.out, Count(F) + len)
      /\ f \in 0 .. FifoSize /\ FifoSize - f = Count(F) + len /\ Count(F) + len \in 0 .. FifoSize
  <2>1. m \in 0 .. FifoWrap - 1 /\ Ahead(m, F.out, Count(F) + len)
    BY <1>1, FifoFields, CounterMoves
  <2>2. f \in 0 .. FifoSize /\ FifoSize - f = Count(F) + len /\ Count(F) + len \in 0 .. FifoSize
    BY <1>1, RoomLeft
  <2>. QED
    BY <2>1, <2>2
<1>3. G = [F EXCEPT !.data = fifo_copy_in(F, s), !.in = m, !.free_bytes = f]
  BY <1>1 DEF Put
<1> HIDE DEF m, f
<1>4. /\ G.in = m /\ G.out = F.out /\ G.free_bytes = f /\ G.data = fifo_copy_in(F, s)
      /\ G \in FifoStates
  <2>1. F \in FifoStates /\ m \in 0 .. FifoWrap - 1 /\ f \in 0 .. FifoSize
    BY <1>2, FifoFields
  <2>2. fifo_copy_in(F, s) \in [FifoPlaces -> FifoBytes]
    BY CopyInType
  <2>. QED
    BY <1>3, <2>1, <2>2 DEF FifoStates
<1>5. Count(G) = Count(F) + len
  BY <1>2, <1>4 DEF Count
<1>6. FifoGood(G)
  BY <1>2, <1>4, <1>5, FifoGoodIs
<1>. QED
  BY <1>1, <1>2, <1>4, <1>5, <1>6

\* The numbers of a read: the other counter moves on, and what there is shrinks.
LEMMA TakeNumbers ==
  ASSUME NEW F, FifoGood(F), NEW len \in 0 .. Count(F), NEW G, G = Drop(F, len)
  PROVE  /\ FifoGood(G) /\ G.out = Moved(F.out, len) /\ G.data = F.data
         /\ Count(G) = Count(F) - len
<1> DEFINE m == Moved(F.out, len)  f == F.free_bytes + len
<1>1. len \in Int
  BY FifoFields
<1>2. /\ m \in 0 .. FifoWrap - 1 /\ Ahead(F.in, m, Count(F) - len)
      /\ f \in 0 .. FifoSize /\ FifoSize - f = Count(F) - len
  <2>1. m \in 0 .. FifoWrap - 1 /\ Ahead(F.in, m, Count(F) - len)
    BY <1>1, FifoFields, CounterMoves
  <2>2. f \in 0 .. FifoSize /\ FifoSize - f = Count(F) - len
    BY RoomMade
  <2>. QED
    BY <2>1, <2>2
<1>3. G = [F EXCEPT !.out = m, !.free_bytes = f]
  BY DEF Drop
<1> HIDE DEF m, f
<1>4. /\ G.in = F.in /\ G.out = m /\ G.free_bytes = f /\ G.data = F.data
      /\ G \in FifoStates
  <2>1. F \in FifoStates /\ m \in 0 .. FifoWrap - 1 /\ f \in 0 .. FifoSize
    BY <1>2, FifoFields
  <2>. QED
    BY <1>3, <2>1 DEF FifoStates
<1>5. Count(G) = Count(F) - len
  BY <1>2, <1>4 DEF Count
<1>6. FifoGood(G)
  BY <1>2, <1>4, <1>5, FifoGoodIs
<1>. QED
  BY <1>4, <1>5, <1>6 DEF m

\* Where the i-th byte is, and where it is after out has moved on by len.
Spot(out, i) == Place(out + i - 1)

\* The bytes of a fifo, first to last.
LEMMA Bytes ==
  ASSUME NEW F, FifoGood(F)
  PROVE  /\ fifo_bytes(F) \in Seq(FifoBytes) /\ Len(fifo_bytes(F)) = Count(F)
         /\ \A i \in 1 .. Count(F) : Spot(F.out, i) \in FifoPlaces
                                     /\ fifo_bytes(F)[i] = F.data[Spot(F.out, i)]
BY FifoFields, FifoContents DEF Count, Spot, Place

LEMMA SpotMoves ==
  ASSUME NEW out \in Int, NEW len \in Int, NEW i \in Int
  PROVE  Spot(Moved(out, len), i) = Spot(out, i + len)
<1>1. FifoWrap \in Nat \ {0} /\ FifoSize \in Nat \ {0}
  BY FifoNumbers
<1>2. PICK x \in Int, z \in Int : x = out + len /\ z = out + (i + len) - 1
  OBVIOUS
<1> DEFINE q == x % FifoWrap
<1>3. q \in Int /\ Cong(FifoWrap, q, x)
  BY <1>1, CongMod
<1> HIDE DEF q
<1>4. PICK y \in Int : y = q + i - 1
  BY <1>3
<1>5. y - q = z - x
  BY <1>2, <1>3, <1>4
<1>6. Cong(FifoWrap, y, z)
  BY <1>1, <1>3, <1>5, CongShift
<1>7. y % FifoSize = z % FifoSize
  BY <1>1, <1>6, CongDivides, CongSameMod
<1>. QED
  BY <1>2, <1>4, <1>7 DEF Spot, Place, Moved, q

\* How far the i-th byte is behind the place of the next one: the next n places
\* are behind it, those of the bytes there are come last.
Far(in, p) == (p - in) % FifoSize

LEMMA Offset ==
  ASSUME NEW n \in 0 .. FifoSize, NEW i \in 1 .. FifoSize
  PROVE  \E j \in 0 .. FifoSize - 1 : j = IF i <= n THEN i - 1 - n + FifoSize ELSE i - 1 - n
<1>1. FifoSize \in Nat
  BY FifoNumbers
<1>2. CASE i <= n
  <2>1. i - 1 - n + FifoSize \in 0 .. FifoSize - 1
    BY <1>1, <1>2
  <2>. QED
    BY <1>2, <2>1
<1>3. CASE ~ (i <= n)
  <2>1. i - 1 - n \in 0 .. FifoSize - 1
    BY <1>1, <1>3
  <2>. QED
    BY <1>3, <2>1
<1>. QED
  BY <1>2, <1>3

LEMMA Distance ==
  ASSUME NEW in \in Int, NEW out \in Int, NEW n \in 0 .. FifoSize, Ahead(in, out, n),
         NEW i \in 1 .. FifoSize
  PROVE  /\ i > n => Far(in, Spot(out, i)) = i - 1 - n
         /\ i <= n => Far(in, Spot(out, i)) = i - 1 - n + FifoSize
<1>1. FifoWrap \in Nat \ {0} /\ FifoSize \in Nat \ {0} /\ n \in Int /\ i \in Int
  BY FifoNumbers
<1>2. PICK end \in Int, x \in Int : end = out + n /\ x = out + i - 1
  BY <1>1
<1> DEFINE p == Place(x)
<1>3. p = Place(x) /\ p \in Int /\ Spot(out, i) = p
  BY <1>1, <1>2 DEF Place, Spot
<1> HIDE DEF p
<1>4. Cong(FifoWrap, in, end)
  BY <1>2 DEF Ahead
<1>5. Cong(FifoSize, in, end)
  BY <1>4, CongDivides
<1>6. PICK a \in Int : a = p - in
  BY <1>3
<1>7. PICK j \in 0 .. FifoSize - 1 : j = IF i <= n THEN i - 1 - n + FifoSize ELSE i - 1 - n
  BY Offset
<1>8. Place(a) = j
  <2>1. n \in 0 .. FifoSize /\ i \in 1 .. FifoSize /\ end = out + n /\ x = out + i - 1
        /\ p = Place(x) /\ a = p - in /\ p \in Int
        /\ j = IF i <= n THEN i - 1 - n + FifoSize ELSE i - 1 - n
    BY <1>2, <1>3, <1>6, <1>7
  <2>. QED
    BY <1>5, <2>1, PlaceOf
<1>9. Far(in, Spot(out, i)) = j
  BY <1>3, <1>6, <1>8 DEF Far, Place
<1>. QED
  BY <1>1, <1>7, <1>9

\* A write: what is copied goes behind the bytes there are.
LEMMA Written ==
  ASSUME NEW F, FifoGood(F), NEW s, Fits(F, s), NEW G, G = Put(F, s)
  PROVE  fifo_bytes(G) = fifo_bytes(F) \o s
<1> DEFINE old == fifo_bytes(F)  new == fifo_bytes(G)  n == Count(F)  len == Len(s)
<1>1. /\ FifoGood(G) /\ G.out = F.out /\ G.data = fifo_copy_in(F, s)
      /\ Count(G) = n + len /\ n + len \in 0 .. FifoSize
  BY PutNumbers
<1>2. /\ old \in Seq(FifoBytes) /\ Len(old) = n
      /\ \A i \in 1 .. n : old[i] = F.data[Spot(F.out, i)]
  BY Bytes
<1>3. /\ new \in Seq(FifoBytes) /\ Len(new) = n + len
      /\ \A i \in 1 .. n + len : /\ Spot(F.out, i) \in FifoPlaces
                                 /\ new[i] = fifo_copy_in(F, s)[Spot(F.out, i)]
  BY <1>1, Bytes
<1>4. /\ n \in 0 .. FifoSize /\ n \in Int /\ F.in \in Int /\ F.out \in Int
      /\ Ahead(F.in, F.out, n)
  BY FifoFields
<1>5. len \in Nat /\ s \in Seq(FifoBytes) /\ FifoSize \in Nat
  BY FifoNumbers DEF Fits, FifoBytes
<1> HIDE DEF old, new, n
<1>6. /\ old \o s \in Seq(FifoBytes) /\ Len(old \o s) = n + len
      /\ \A i \in 1 .. n + len : (old \o s)[i] = IF i <= n THEN old[i] ELSE s[i - n]
  BY <1>2, <1>5, ConcatProperties
<1>7. \A p \in FifoPlaces :
        fifo_copy_in(F, s)[p] = IF Far(F.in, p) < len THEN s[Far(F.in, p) + 1] ELSE F.data[p]
  BY DEF fifo_copy_in, FifoPlaces, Far
<1> HIDE DEF len
<1>8. ASSUME NEW i \in 1 .. n + len PROVE new[i] = (old \o s)[i]
  <2> DEFINE p == Spot(F.out, i)  j == Far(F.in, p)
  <2>1. i \in 1 .. FifoSize /\ i \in Int
    BY <1>1, <1>4, <1>5
  <2>2. (i > n => j = i - 1 - n) /\ (i <= n => j = i - 1 - n + FifoSize)
    BY <1>4, <2>1, Distance
  <2>3. new[i] = IF j < len THEN s[j + 1] ELSE F.data[p]
    BY <1>3, <1>7
  <2> HIDE DEF j, p
  <2>4. CASE i <= n
    <3>1. ~ (j < len) /\ i \in 1 .. n
      BY <1>1, <1>4, <1>5, <2>1, <2>2, <2>4
    <3>. QED
      BY <1>2, <1>6, <2>3, <2>4, <3>1 DEF p
  <2>5. CASE i > n
    <3>1. j < len /\ j + 1 = i - n /\ ~ (i <= n)
      BY <1>4, <1>5, <2>1, <2>2, <2>5
    <3>2. new[i] = s[j + 1] /\ (old \o s)[i] = s[i - n]
      BY <1>6, <2>3, <3>1
    <3>. QED
      BY <3>1, <3>2
  <2>6. i <= n \/ i > n
    BY <1>4, <2>1
  <2>. QED
    BY <2>4, <2>5, <2>6
<1>9. \A i \in 1 .. Len(new) : new[i] = (old \o s)[i]
  BY <1>3, <1>8
<1>. QED
  BY <1>3, <1>6, <1>9, SeqEqual DEF old, new

\* What copy_out finds are the first bytes.
LEMMA Copied ==
  ASSUME NEW F, FifoGood(F), NEW len \in 0 .. Count(F)
  PROVE  copy_out(F, len) \in Seq(FifoBytes) /\ Len(copy_out(F, len)) = len
         /\ \A i \in 1 .. len : copy_out(F, len)[i] = fifo_bytes(F)[i]
<1>1. copy_out(F, len) = [i \in 1 .. len |-> F.data[Spot(F.out, i)]]
  BY DEF copy_out, Spot, Place
<1>2. \A i \in 1 .. len : i \in 1 .. Count(F)
  BY FifoFields
<1>3. \A i \in 1 .. len : F.data[Spot(F.out, i)] \in FifoBytes
                          /\ F.data[Spot(F.out, i)] = fifo_bytes(F)[i]
  <2>1. F.data \in [FifoPlaces -> FifoBytes]
    BY FifoFields
  <2>. QED
    BY <1>2, <2>1, Bytes
<1>4. len \in Nat
  BY FifoFields
<1>. QED
  BY <1>1, <1>3, <1>4

\* A read: what was there is what is taken and what is left.
LEMMA Read ==
  ASSUME NEW F, FifoGood(F), NEW len \in 0 .. Count(F), NEW G, G = Drop(F, len)
  PROVE  fifo_bytes(F) = copy_out(F, len) \o fifo_bytes(G)
<1> DEFINE old == fifo_bytes(F)  new == fifo_bytes(G)  n == Count(F)  s == copy_out(F, len)
<1>1. FifoGood(G) /\ G.out = Moved(F.out, len) /\ G.data = F.data /\ Count(G) = n - len
  BY TakeNumbers
<1>2. /\ old \in Seq(FifoBytes) /\ Len(old) = n
      /\ \A i \in 1 .. n : old[i] = F.data[Spot(F.out, i)]
  BY Bytes
<1>3. /\ new \in Seq(FifoBytes) /\ Len(new) = n - len
      /\ \A i \in 1 .. n - len : new[i] = F.data[Spot(Moved(F.out, len), i)]
  BY <1>1, Bytes
<1>4. n \in Nat /\ n \in Int /\ len \in Int /\ len \in 0 .. n /\ F.out \in Int
  BY FifoFields
<1>5. s \in Seq(FifoBytes) /\ Len(s) = len /\ \A i \in 1 .. len : s[i] = old[i]
  BY Copied
<1> HIDE DEF old, new, n, s
<1>6. /\ s \o new \in Seq(FifoBytes) /\ Len(s \o new) = n
      /\ \A i \in 1 .. n : (s \o new)[i] = IF i <= len THEN s[i] ELSE new[i - len]
  <2>1. /\ s \o new \in Seq(FifoBytes) /\ Len(s \o new) = Len(s) + Len(new)
        /\ \A i \in 1 .. Len(s) + Len(new) :
             (s \o new)[i] = IF i <= Len(s) THEN s[i] ELSE new[i - Len(s)]
    BY <1>3, <1>5, ConcatProperties
  <2>2. Len(s) + Len(new) = n
    BY <1>3, <1>4, <1>5
  <2>. QED
    BY <1>5, <2>1, <2>2
<1>7. ASSUME NEW i \in 1 .. n PROVE old[i] = (s \o new)[i]
  <2>1. CASE i <= len
    BY <1>4, <1>5, <1>6, <2>1
  <2>2. CASE i > len
    <3>1. PICK k \in Int : k = i - len
      BY <1>4
    <3>2. k \in 1 .. n - len /\ k + len = i /\ ~ (i <= len)
      BY <1>4, <2>2, <3>1
    <3>3. new[k] = F.data[Spot(F.out, i)]
      BY <1>3, <1>4, <3>2, SpotMoves
    <3>4. old[i] = F.data[Spot(F.out, i)]
      BY <1>2
    <3>5. (s \o new)[i] = new[i - len]
      BY <1>6, <3>2
    <3>. QED
      BY <3>1, <3>3, <3>4, <3>5
  <2>3. i <= len \/ i > len
    BY <1>4
  <2>. QED
    BY <2>1, <2>2, <2>3
<1>8. \A i \in 1 .. Len(old) : old[i] = (s \o new)[i]
  BY <1>2, <1>7
<1>. QED
  BY <1>2, <1>6, <1>8, SeqEqual DEF old, new, s

\* What FifoOrder says of a step.
Kept ==
  CASE fifo_buf'.op = "write" -> /\ fifo_bytes(fifo)' = fifo_bytes(fifo) \o fifo_buf'.bytes
                                 /\ Len(fifo_bytes(fifo)') <= FifoSize
    [] fifo_buf'.op = "read"  -> fifo_bytes(fifo) = fifo_buf'.bytes \o fifo_bytes(fifo)'
    [] OTHER -> fifo_bytes(fifo)' = fifo_bytes(fifo) /\ IsPrefix(fifo_buf'.bytes, fifo_bytes(fifo))

LEMMA FifoIn ==
  ASSUME FifoInv, NEW bytes \in Seq(FifoByte), fifo_in(bytes)
  PROVE  FifoInv' /\ Kept
<1> DEFINE len == IF Len(bytes) > fifo_unused(fifo) THEN fifo_unused(fifo) ELSE Len(bytes)
           moved == SubSeq(bytes, 1, len)
<1>1. FifoGood(fifo) /\ fifo.free_bytes \in Nat /\ fifo_unused(fifo) = fifo.free_bytes
  BY FifoFields, UsedBytes DEF FifoInv
<1>2. len \in 0 .. fifo.free_bytes /\ len \in 0 .. Len(bytes)
  BY <1>1
<1>3. /\ fifo' = [fifo EXCEPT !.data = fifo_copy_in(fifo, moved),
                              !.in = (@ + len) % FifoWrap, !.free_bytes = @ - len]
      /\ fifo_buf' = [op |-> "write", bytes |-> moved]
  BY DEF fifo_in
<1> HIDE DEF len
<1>4. moved \in Seq(FifoByte) /\ Len(moved) = len
  BY <1>2
<1> HIDE DEF moved
<1>5. Fits(fifo, moved) /\ fifo' = Put(fifo, moved)
  BY <1>2, <1>3, <1>4 DEF Fits, Put, Moved
<1>6. FifoGood(fifo') /\ fifo_bytes(fifo') = fifo_bytes(fifo) \o moved
  BY <1>1, <1>5, PutNumbers, Written
<1>7. Len(fifo_bytes(fifo')) <= FifoSize
  <2>1. Len(fifo_bytes(fifo')) = Count(fifo') /\ Count(fifo') \in 0 .. FifoSize
    BY <1>6, Bytes, FifoFields
  <2>. QED
    BY <2>1, FifoNumbers
<1>. QED
  BY <1>3, <1>6, <1>7 DEF FifoInv, Kept

LEMMA FifoTake ==
  ASSUME FifoInv, NEW len \in 0 .. Count(fifo), take(copy_out(fifo, len))
  PROVE  FifoInv' /\ Kept
<1>1. FifoGood(fifo) /\ Len(copy_out(fifo, len)) = len
  BY Copied DEF FifoInv
<1>2. fifo' = Drop(fifo, len) /\ fifo_buf' = [op |-> "read", bytes |-> copy_out(fifo, len)]
  BY <1>1 DEF take, Drop, Moved
<1>3. FifoGood(fifo') /\ fifo_bytes(fifo) = copy_out(fifo, len) \o fifo_bytes(fifo')
  BY <1>1, <1>2, TakeNumbers, Read
<1>. QED
  BY <1>2, <1>3 DEF FifoInv, Kept

\* A read or a peek of len bytes is one of as many as there are.
LEMMA Found ==
  ASSUME FifoInv, NEW len \in Nat
  PROVE  \E m \in 0 .. Count(fifo) : fifo_out_peek(fifo, len) = copy_out(fifo, m)
<1>1. used_bytes(fifo) = Count(fifo) /\ Count(fifo) \in Nat
  BY UsedBytes, FifoFields, FifoNumbers DEF FifoInv, Count
<1>2. (IF len > Count(fifo) THEN Count(fifo) ELSE len) \in 0 .. Count(fifo)
  BY <1>1
<1>. QED
  BY <1>1, <1>2 DEF fifo_out_peek

LEMMA FifoPeek ==
  ASSUME FifoInv, NEW len \in Nat, peek(len)
  PROVE  FifoInv' /\ Kept
<1> DEFINE old == fifo_bytes(fifo)
<1>1. PICK m \in 0 .. Count(fifo) : fifo_out_peek(fifo, len) = copy_out(fifo, m)
  BY Found
<1> DEFINE s == copy_out(fifo, m)
<1>2. fifo' = fifo /\ fifo_buf' = [op |-> "peek", bytes |-> s]
  BY <1>1 DEF peek
<1>3. /\ s \in Seq(FifoBytes) /\ Len(s) = m /\ \A i \in 1 .. m : s[i] = old[i]
      /\ old \in Seq(FifoBytes) /\ Len(old) = Count(fifo) /\ Count(fifo) \in Nat
  BY Copied, Bytes, FifoFields, FifoNumbers DEF FifoInv
<1> HIDE DEF s, old
<1>4. m \in 0 .. Len(old) /\ m = Len(s)
  BY <1>3
<1>5. IsPrefix(s, old)
  BY <1>3, <1>4 DEF IsPrefix
<1>. QED
  BY <1>2, <1>5 DEF FifoInv, Kept, s, old

LEMMA FifoCall ==
  ASSUME FifoInv, NEW len \in FifoLen, fifo_call(len)
  PROVE  FifoInv' /\ Kept
<1>1. len \in Nat
  BY FifoAssumption
<1>2. CASE \E bytes \in [1 .. len -> FifoByte] : fifo_in(bytes)
  <2>1. \A bytes \in [1 .. len -> FifoByte] : bytes \in Seq(FifoByte)
    BY <1>1
  <2>. QED
    BY <1>2, <2>1, FifoIn
<1>3. CASE peek(len)
  BY <1>1, <1>3, FifoPeek
<1>4. CASE fifo_out(len)
  <2>1. PICK m \in 0 .. Count(fifo) : fifo_out_peek(fifo, len) = copy_out(fifo, m)
    BY <1>1, Found
  <2>. QED
    BY <1>4, <2>1, FifoTake DEF fifo_out
<1>5. CASE fifo_out_all
  <2>1. Count(fifo) \in Nat
    BY FifoFields, FifoNumbers DEF FifoInv
  <2>2. PICK m \in 0 .. Count(fifo) : fifo_out_peek(fifo, Count(fifo)) = copy_out(fifo, m)
    BY <2>1, Found
  <2>. QED
    BY <1>5, <2>2, FifoTake DEF fifo_out_all, Count
<1>. QED
  BY <1>2, <1>3, <1>4, <1>5 DEF fifo_call

\* A call moves bytes, a lock moves none.
LEMMA FifoNext_Inv ==
  ASSUME FifoInv, FifoNext
  PROVE  FifoInv' /\ (Kept \/ UNCHANGED <<fifo, fifo_buf>>)
<1>1. ASSUME NEW len \in FifoLen, fifo_step(len) \/ fifo_lock_call(len)
      PROVE  FifoInv' /\ Kept
  BY <1>1, FifoCall DEF fifo_step, fifo_lock_call
<1>2. ASSUME NEW u \in FifoUser, user_lock(u)
      PROVE  FifoInv' /\ UNCHANGED <<fifo, fifo_buf>>
  BY <1>2 DEF user_lock, FifoInv
<1>. QED
  BY <1>1, <1>2 DEF FifoNext

LEMMA FifoInit_Inv == FifoInit => FifoInv
<1> SUFFICES ASSUME FifoInit PROVE FifoInv
  OBVIOUS
<1>1. FifoSize \in Nat \ {0} /\ FifoWrap \in Nat \ {0}
  BY FifoNumbers
<1>2. /\ fifo.in = 0 /\ fifo.out = 0 /\ fifo.free_bytes = FifoSize
      /\ fifo = [in |-> 0, out |-> 0, free_bytes |-> FifoSize,
                 data |-> [i \in 0 .. FifoSize - 1 |-> Nobody]]
  BY DEF FifoInit
<1>3. fifo \in FifoStates
  BY <1>1, <1>2 DEF FifoStates, FifoPlaces, FifoBytes
<1>4. Cong(FifoWrap, 0, 0 + (FifoSize - FifoSize))
  <2>1. 0 = (0 + (FifoSize - FifoSize)) + FifoWrap * 0
    BY <1>1
  <2>. QED
    BY <2>1 DEF Cong
<1>. QED
  BY <1>2, <1>3, <1>4 DEF FifoInv, FifoGood

\* Bytes leave a fifo in the order in which they were written, once each, whatever
\* its size, the lengths of the calls and the width of its counters, and it never
\* holds more than its size (extension/lib/fifo.c, fifo_lock.c).
THEOREM FifoKeepsOrder == FifoSpec => FifoOrder
<1> DEFINE Ordered == LET old == fifo_bytes(fifo)
                          new == fifo_bytes(fifo')
                          moved == fifo_buf'.bytes
                      IN  fifo_buf' # fifo_buf \/ fifo' # fifo =>
                            CASE fifo_buf'.op = "write" -> new = old \o moved /\ Len(new) <= FifoSize
                              [] fifo_buf'.op = "read"  -> old = moved \o new
                              [] OTHER                  -> new = old /\ IsPrefix(moved, old)
<1>1. ASSUME FifoInv, FifoNext PROVE FifoInv' /\ Ordered
  <2>1. Kept => Ordered
    BY DEF Kept
  <2>. QED
    BY <1>1, <2>1, FifoNext_Inv
<1>2. ASSUME FifoInv, [FifoNext]_fifoVars PROVE FifoInv' /\ [Ordered]_fifoVars
  <2>1. CASE FifoNext
    BY <1>1, <1>2, <2>1
  <2>2. CASE UNCHANGED fifoVars
    BY <1>2, <2>2 DEF fifoVars, FifoInv
  <2>. QED
    BY <1>2, <2>1, <2>2
<1>. QED
  BY <1>2, FifoInit_Inv, PTL DEF FifoSpec, FifoOrder

(***************************************************************************)
(* Work queues: each descriptor is in exactly one place, on the free list, *)
(* in a queue, with a task that runs it, or with a call that has taken it  *)
(* and not yet posted it.  Inductive with it is that no list holds a       *)
(* descriptor twice: else taking the first one would leave it on the list. *)
(***************************************************************************)

OnFree(d) == d \in ToSet(free_work_queue_msg)
Queued(d) == {q \in WorkQueue : d \in ToSet(work_queue[q])}
Runs(d) == {q \in WorkQueue : running[q] = d}
Calls(d) == {s \in Scheduler : scheduling[s].desc = d}

Scheduling == [pc : {"post", "back"}, desc : Descriptor, queue : WorkQueue]

WorkTypes ==
  /\ free_work_queue_msg \in Seq(Descriptor)
  /\ work_queue \in [WorkQueue -> Seq(Descriptor)]
  /\ running \in [WorkQueue -> Descriptor \cup {NoWork}]
  /\ scheduling \in [Scheduler -> Scheduling \cup {Idle}]

EachOnce == /\ IsInjective(free_work_queue_msg)
               /\ \A q \in WorkQueue : IsInjective(work_queue[q])

OnePlace == \A d \in Descriptor : \E x : places(d) = {x}

WorkInv == WorkTypes /\ EachOnce /\ OnePlace

LEMMA PlacesAre ==
  \A d : /\ <<"free", NoWork>> \in places(d) <=> OnFree(d)
         /\ \A q : <<"queue", q>> \in places(d) <=> q \in Queued(d)
         /\ \A q : <<"running", q>> \in places(d) <=> q \in Runs(d)
         /\ \A s : <<"calling", s>> \in places(d) <=> s \in Calls(d)
BY DEF places, OnFree, Queued, Runs, Calls

LEMMA SamePlaces ==
  ASSUME NEW d, OnFree(d)' <=> OnFree(d), Queued(d)' = Queued(d), Runs(d)' = Runs(d), Calls(d)' = Calls(d)
  PROVE  places(d)' = places(d)
BY DEF places, OnFree, Queued, Runs, Calls

\* A descriptor that is in one place is in no other.
LEMMA Alone ==
  ASSUME OnePlace, NEW d \in Descriptor
  PROVE  /\ OnFree(d) => Queued(d) = {} /\ Runs(d) = {} /\ Calls(d) = {}
         /\ \A q \in Queued(d) : ~ OnFree(d) /\ Queued(d) = {q} /\ Runs(d) = {} /\ Calls(d) = {}
         /\ \A q \in Runs(d) : ~ OnFree(d) /\ Queued(d) = {} /\ Runs(d) = {q} /\ Calls(d) = {}
         /\ \A s \in Calls(d) : ~ OnFree(d) /\ Queued(d) = {} /\ Runs(d) = {} /\ Calls(d) = {s}
<1>1. PICK x : places(d) = {x}
  BY DEF OnePlace
<1>2. /\ OnFree(d) => x = <<"free", NoWork>>
      /\ \A q \in Queued(d) : x = <<"queue", q>>
      /\ \A q \in Runs(d) : x = <<"running", q>>
      /\ \A s \in Calls(d) : x = <<"calling", s>>
  BY <1>1, PlacesAre
<1> QED
  BY <1>2

LEMMA Goes ==
  ASSUME OnePlace, NEW d \in Descriptor,
         \A e \in Descriptor \ {d} : /\ OnFree(e)' <=> OnFree(e)
                                     /\ Queued(e)' = Queued(e) /\ Runs(e)' = Runs(e) /\ Calls(e)' = Calls(e),
         \/ OnFree(d)' /\ Queued(d)' = {} /\ Runs(d)' = {} /\ Calls(d)' = {}
         \/ ~ OnFree(d)' /\ (\E q : Queued(d)' = {q}) /\ Runs(d)' = {} /\ Calls(d)' = {}
         \/ ~ OnFree(d)' /\ Queued(d)' = {} /\ (\E q : Runs(d)' = {q}) /\ Calls(d)' = {}
         \/ ~ OnFree(d)' /\ Queued(d)' = {} /\ Runs(d)' = {} /\ (\E s : Calls(d)' = {s})
  PROVE  OnePlace'
<1>1. \A e \in Descriptor \ {d} : places(e)' = places(e)
  BY SamePlaces
<1>2. \E x : places(d)' = {x}
  <2>1. places(d)' =      (IF OnFree(d)' THEN {<<"free", NoWork>>} ELSE {})
                     \cup {"queue"} \X Queued(d)' \cup {"running"} \X Runs(d)'
                     \cup {"calling"} \X Calls(d)'
    BY DEF places, OnFree, Queued, Runs, Calls
  <2>2. \A a, b : {a} \X {b} = {<<a, b>>} /\ {a} \X {} = {}
    OBVIOUS
  <2>3. CASE OnFree(d)' /\ Queued(d)' = {} /\ Runs(d)' = {} /\ Calls(d)' = {}
    <3>1. places(d)' = {<<"free", NoWork>>}
      BY <2>1, <2>2, <2>3
    <3> QED
      BY <3>1
  <2>4. ASSUME NEW y, ~ OnFree(d)', Queued(d)' = {y}, Runs(d)' = {}, Calls(d)' = {}
        PROVE  places(d)' = {<<"queue", y>>}
    BY <2>1, <2>2, <2>4
  <2>5. ASSUME NEW y, ~ OnFree(d)', Queued(d)' = {}, Runs(d)' = {y}, Calls(d)' = {}
        PROVE  places(d)' = {<<"running", y>>}
    BY <2>1, <2>2, <2>5
  <2>6. ASSUME NEW y, ~ OnFree(d)', Queued(d)' = {}, Runs(d)' = {}, Calls(d)' = {y}
        PROVE  places(d)' = {<<"calling", y>>}
    BY <2>1, <2>2, <2>6
  <2> QED
    BY <2>3, <2>4, <2>5, <2>6
<1> QED
  BY <1>1, <1>2 DEF OnePlace

\* The lists: the first element leaves, one comes to the front or to the end.
LEMMA FirstLeaves ==
  ASSUME NEW S, NEW s \in Seq(S), s # <<>>, IsInjective(s)
  PROVE  /\ Head(s) \in S /\ Head(s) \in ToSet(s) /\ Tail(s) \in Seq(S) /\ IsInjective(Tail(s))
         /\ \A x : x \in ToSet(Tail(s)) <=> x \in ToSet(s) /\ x # Head(s)
<1>1. Head(s) = s[1] /\ Tail(s) \in Seq(S) /\ Len(s) \in Nat \ {0} /\ Len(Tail(s)) = Len(s) - 1
  OBVIOUS
<1>2. \A i \in 1 .. Len(s) - 1 : Tail(s)[i] = s[i + 1]
  OBVIOUS
<1>3. DOMAIN s = 1 .. Len(s) /\ DOMAIN Tail(s) = 1 .. Len(s) - 1
  BY <1>1
<1>4. \A x : x \in ToSet(Tail(s)) <=> \E i \in 1 .. Len(s) - 1 : x = s[i + 1]
  BY <1>2, <1>3 DEF ToSet
<1>5. \A x : x \in ToSet(s) <=> \E i \in 1 .. Len(s) : x = s[i]
  BY <1>3 DEF ToSet
<1>6. \A i, j \in 1 .. Len(s) : s[i] = s[j] => i = j
  BY <1>3 DEF IsInjective
<1>7. IsInjective(Tail(s))
  BY <1>1, <1>2, <1>3, <1>6 DEF IsInjective
<1>8. ASSUME NEW x PROVE x \in ToSet(Tail(s)) <=> x \in ToSet(s) /\ x # Head(s)
  <2>1. ASSUME NEW i \in 1 .. Len(s), x = s[i], x # s[1] PROVE \E j \in 1 .. Len(s) - 1 : x = s[j + 1]
    <3>1. i - 1 \in 1 .. Len(s) - 1 /\ (i - 1) + 1 = i
      BY <1>1, <2>1
    <3> QED
      BY <2>1, <3>1
  <2>2. \A i \in 1 .. Len(s) - 1 : i + 1 \in 1 .. Len(s) /\ s[i + 1] # s[1]
    BY <1>1, <1>6
  <2> QED
    BY <1>1, <1>4, <1>5, <2>1, <2>2
<1> QED
  BY <1>1, <1>3, <1>5, <1>7, <1>8

LEMMA JoinsList ==
  ASSUME NEW S, NEW s \in Seq(S), NEW e \in S, IsInjective(s), e \notin ToSet(s)
  PROVE  /\ Append(s, e) \in Seq(S) /\ IsInjective(Append(s, e))
         /\ <<e>> \o s \in Seq(S) /\ IsInjective(<<e>> \o s)
         /\ \A x : /\ x \in ToSet(Append(s, e)) <=> x \in ToSet(s) \/ x = e
                   /\ x \in ToSet(<<e>> \o s) <=> x \in ToSet(s) \/ x = e
<1>1. \A r : /\ IsInjective(r) <=> NoDup(r)
             /\ \A x : x \in ToSet(r) <=> In(x, r)
  BY DEF IsInjective, NoDup, In, ToSet
<1> QED
  BY <1>1, AppendLinks, ConsLinks

LEMMA CallTypes ==
  ASSUME WorkTypes, NEW s \in Scheduler
  PROVE  /\ scheduling[s].pc # "idle" => /\ scheduling[s] \in Scheduling
                                         /\ scheduling[s].desc \in Descriptor
                                         /\ scheduling[s].queue \in WorkQueue
         /\ scheduling[s] = Idle => scheduling[s].desc \notin Descriptor
         /\ scheduling[s].desc \in Descriptor => scheduling[s].pc # "idle"
BY WorkAssumption DEF WorkTypes, Scheduling, Idle

LEMMA sche_work_queue_Inv ==
  ASSUME WorkInv, NEW s \in Scheduler, NEW q \in WorkQueue, NEW w \in Work, sche_work_queue(s, q, w)
  PROVE  WorkInv'
<1>1. PICK d \in Descriptor :
        /\ d = Head(free_work_queue_msg) /\ OnFree(d)
        /\ Tail(free_work_queue_msg) \in Seq(Descriptor) /\ IsInjective(Tail(free_work_queue_msg))
        /\ \A e : OnFree(e)' <=> OnFree(e) /\ e # d
  BY FirstLeaves DEF WorkInv, WorkTypes, EachOnce, sche_work_queue, OnFree
<1>2. /\ scheduling[s] = Idle /\ UNCHANGED <<work_queue, running>>
      /\ scheduling' = [scheduling EXCEPT ![s] = [pc |-> "post", desc |-> d, queue |-> q]]
      /\ free_work_queue_msg' = Tail(free_work_queue_msg)
  BY <1>1 DEF sche_work_queue
<1>3. WorkTypes' /\ EachOnce'
  BY <1>1, <1>2 DEF WorkInv, WorkTypes, Scheduling, EachOnce
<1>4. Queued(d) = {} /\ Runs(d) = {} /\ Calls(d) = {}
  BY <1>1, Alone DEF WorkInv
<1>5. \A e \in Descriptor : Queued(e)' = Queued(e) /\ Runs(e)' = Runs(e)
  BY <1>2 DEF Queued, Runs
<1>6. \A e \in Descriptor : Calls(e)' = IF e = d THEN {s} ELSE Calls(e)
  <2>1. scheduling[s].desc \notin Descriptor
    BY <1>2, CallTypes DEF WorkInv
  <2>2. \A t \in Scheduler : scheduling'[t].desc = IF t = s THEN d ELSE scheduling[t].desc
    BY <1>2 DEF WorkInv, WorkTypes
  <2> QED
    BY <1>4, <2>1, <2>2 DEF Calls
<1>7. OnePlace'
  BY <1>1, <1>4, <1>5, <1>6, Goes DEF WorkInv
<1> QED
  BY <1>3, <1>7 DEF WorkInv

LEMMA post_work_Inv ==
  ASSUME WorkInv, NEW s \in Scheduler, post_work(s)
  PROVE  WorkInv'
<1> DEFINE q == scheduling[s].queue
<1>1. /\ scheduling[s] \in Scheduling /\ q \in WorkQueue /\ UNCHANGED <<free_work_queue_msg, running>>
      /\ scheduling \in [Scheduler -> Scheduling \cup {Idle}]
  BY CallTypes DEF WorkInv, WorkTypes, post_work
<1>2. CASE Len(work_queue[q]) < WorkQSize
  <2>1. PICK d \in Descriptor, r \in WorkQueue : d = scheduling[s].desc /\ r = q
    BY <1>1 DEF Scheduling
  <2>2. /\ work_queue' = [work_queue EXCEPT ![r] = Append(@, d)]
        /\ scheduling' = [scheduling EXCEPT ![s] = Idle]
    BY <1>2, <2>1 DEF post_work
  <2>3. Calls(d) = {s} /\ ~ OnFree(d) /\ Queued(d) = {} /\ Runs(d) = {}
    <3>1. s \in Calls(d)
      BY <2>1 DEF Calls
    <3> QED
      BY <3>1, Alone DEF WorkInv
  <2>4. /\ Append(work_queue[r], d) \in Seq(Descriptor) /\ IsInjective(Append(work_queue[r], d))
        /\ \A x : x \in ToSet(Append(work_queue[r], d)) <=> x \in ToSet(work_queue[r]) \/ x = d
    <3>1. work_queue[r] \in Seq(Descriptor) /\ IsInjective(work_queue[r]) /\ d \notin ToSet(work_queue[r])
      BY <2>3 DEF WorkInv, WorkTypes, EachOnce, Queued
    <3> QED
      BY <3>1, JoinsList
  <2>5. \A p \in WorkQueue : work_queue'[p] = IF p = r THEN Append(work_queue[r], d) ELSE work_queue[p]
    BY <2>2 DEF WorkInv, WorkTypes
  <2>6. WorkTypes' /\ EachOnce'
    BY <1>1, <2>2, <2>4, <2>5 DEF WorkInv, WorkTypes, EachOnce
  <2>7. \A e \in Descriptor : Queued(e)' = IF e = d THEN {r} ELSE Queued(e)
    BY <2>3, <2>4, <2>5 DEF Queued
  <2>8. \A e \in Descriptor : Calls(e)' = IF e = d THEN {} ELSE Calls(e)
    <3>1. \A t \in Scheduler : scheduling'[t].desc = IF t = s THEN NoWork ELSE scheduling[t].desc
      BY <1>1, <2>2 DEF Idle
    <3> QED
      BY <2>1, <2>3, <3>1, WorkAssumption DEF Calls
  <2>9. \A e \in Descriptor : (OnFree(e)' <=> OnFree(e)) /\ Runs(e)' = Runs(e)
    BY <1>1 DEF OnFree, Runs
  <2>10. OnePlace'
    BY <2>3, <2>7, <2>8, <2>9, Goes DEF WorkInv
  <2> QED
    BY <2>6, <2>10 DEF WorkInv
<1>3. CASE ~ (Len(work_queue[q]) < WorkQSize)
  <2>1. scheduling' = [scheduling EXCEPT ![s].pc = "back"] /\ work_queue' = work_queue
    BY <1>3 DEF post_work
  <2>2. /\ scheduling' \in [Scheduler -> Scheduling \cup {Idle}]
        /\ \A t \in Scheduler : scheduling'[t].desc = scheduling[t].desc
    BY <1>1, <2>1 DEF Scheduling
  <2>3. \A e : places(e)' = places(e)
    BY <1>1, <2>1, <2>2 DEF places
  <2> QED
    BY <1>1, <2>1, <2>2, <2>3 DEF WorkInv, WorkTypes, EachOnce, OnePlace
<1> QED
  BY <1>2, <1>3

LEMMA put_back_Inv ==
  ASSUME WorkInv, NEW s \in Scheduler, put_back(s)
  PROVE  WorkInv'
<1>1. PICK d \in Descriptor : d = scheduling[s].desc
  BY CallTypes DEF WorkInv, put_back
<1>2. /\ scheduling' = [scheduling EXCEPT ![s] = Idle] /\ UNCHANGED <<work_queue, running>>
      /\ free_work_queue_msg' = <<d>> \o free_work_queue_msg
      /\ scheduling \in [Scheduler -> Scheduling \cup {Idle}]
  BY <1>1 DEF put_back, WorkInv, WorkTypes
<1>3. Calls(d) = {s} /\ ~ OnFree(d) /\ Queued(d) = {} /\ Runs(d) = {}
  <2>1. s \in Calls(d)
    BY <1>1 DEF Calls
  <2> QED
    BY <2>1, Alone DEF WorkInv
<1>4. /\ free_work_queue_msg' \in Seq(Descriptor) /\ IsInjective(free_work_queue_msg')
      /\ \A e : OnFree(e)' <=> OnFree(e) \/ e = d
  BY <1>2, <1>3, JoinsList DEF WorkInv, WorkTypes, EachOnce, OnFree
<1>5. WorkTypes' /\ EachOnce'
  BY <1>2, <1>4 DEF WorkInv, WorkTypes, EachOnce
<1>6. \A e \in Descriptor : Calls(e)' = IF e = d THEN {} ELSE Calls(e)
  <2>1. \A t \in Scheduler : scheduling'[t].desc = IF t = s THEN NoWork ELSE scheduling[t].desc
    BY <1>2 DEF Idle
  <2> QED
    BY <1>1, <1>3, <2>1, WorkAssumption DEF Calls
<1>7. \A e \in Descriptor : Queued(e)' = Queued(e) /\ Runs(e)' = Runs(e)
  BY <1>2 DEF Queued, Runs
<1>8. OnePlace'
  BY <1>3, <1>4, <1>6, <1>7, Goes DEF WorkInv
<1> QED
  BY <1>5, <1>8 DEF WorkInv

LEMMA receive_work_Inv ==
  ASSUME WorkInv, NEW q \in WorkQueue, receive_work(q)
  PROVE  WorkInv'
<1>1. PICK d \in Descriptor :
        /\ d = Head(work_queue[q]) /\ d \in ToSet(work_queue[q])
        /\ Tail(work_queue[q]) \in Seq(Descriptor) /\ IsInjective(Tail(work_queue[q]))
        /\ \A e : e \in ToSet(Tail(work_queue[q])) <=> e \in ToSet(work_queue[q]) /\ e # d
  <2>1. work_queue[q] \in Seq(Descriptor) /\ work_queue[q] # <<>> /\ IsInjective(work_queue[q])
    BY DEF WorkInv, WorkTypes, EachOnce, receive_work
  <2> QED
    BY <2>1, FirstLeaves
<1>2. /\ running[q] = NoWork /\ UNCHANGED <<free_work_queue_msg, scheduling>>
      /\ running' = [running EXCEPT ![q] = d]
      /\ work_queue' = [work_queue EXCEPT ![q] = Tail(@)]
  BY <1>1 DEF receive_work
<1>3. \A p \in WorkQueue : /\ work_queue'[p] = IF p = q THEN Tail(work_queue[q]) ELSE work_queue[p]
                           /\ running'[p] = IF p = q THEN d ELSE running[p]
  BY <1>2 DEF WorkInv, WorkTypes
<1>4. WorkTypes' /\ EachOnce'
  BY <1>1, <1>2, <1>3 DEF WorkInv, WorkTypes, EachOnce
<1>5. ~ OnFree(d) /\ Queued(d) = {q} /\ Runs(d) = {} /\ Calls(d) = {}
  <2>1. q \in Queued(d)
    BY <1>1 DEF Queued
  <2> QED
    BY <2>1, Alone DEF WorkInv
<1>6. \A e \in Descriptor : Queued(e)' = IF e = d THEN {} ELSE Queued(e)
  <2>1. \A e \in Descriptor, p \in WorkQueue : p \in Queued(e)' <=> p \in Queued(e) /\ (p # q \/ e # d)
    BY <1>1, <1>3 DEF Queued
  <2>2. \A e \in Descriptor : Queued(e) \subseteq WorkQueue /\ Queued(e)' \subseteq WorkQueue
    BY DEF Queued
  <2> QED
    BY <1>5, <2>1, <2>2
<1>7. \A e \in Descriptor : Runs(e)' = IF e = d THEN {q} ELSE Runs(e)
  BY <1>2, <1>3, <1>5, WorkAssumption DEF Runs
<1>8. \A e \in Descriptor : (OnFree(e)' <=> OnFree(e)) /\ Calls(e)' = Calls(e)
  BY <1>2 DEF OnFree, Calls
<1>9. OnePlace'
  BY <1>5, <1>6, <1>7, <1>8, Goes DEF WorkInv
<1> QED
  BY <1>4, <1>9 DEF WorkInv

LEMMA free_work_Inv ==
  ASSUME WorkInv, NEW q \in WorkQueue, free_work(q)
  PROVE  WorkInv'
<1>1. PICK d \in Descriptor : d = running[q]
  BY DEF WorkInv, WorkTypes, free_work
<1>2. /\ running' = [running EXCEPT ![q] = NoWork] /\ UNCHANGED <<work_queue, scheduling>>
      /\ free_work_queue_msg' = <<d>> \o free_work_queue_msg
      /\ running \in [WorkQueue -> Descriptor \cup {NoWork}]
  BY <1>1 DEF free_work, WorkInv, WorkTypes
<1>3. Runs(d) = {q} /\ ~ OnFree(d) /\ Queued(d) = {} /\ Calls(d) = {}
  <2>1. q \in Runs(d)
    BY <1>1 DEF Runs
  <2> QED
    BY <2>1, Alone DEF WorkInv
<1>4. /\ free_work_queue_msg' \in Seq(Descriptor) /\ IsInjective(free_work_queue_msg')
      /\ \A e : OnFree(e)' <=> OnFree(e) \/ e = d
  BY <1>2, <1>3, JoinsList DEF WorkInv, WorkTypes, EachOnce, OnFree
<1>5. WorkTypes' /\ EachOnce'
  BY <1>2, <1>4 DEF WorkInv, WorkTypes, EachOnce
<1>6. \A e \in Descriptor : Runs(e)' = IF e = d THEN {} ELSE Runs(e)
  BY <1>1, <1>2, <1>3, WorkAssumption DEF Runs
<1>7. \A e \in Descriptor : Queued(e)' = Queued(e) /\ Calls(e)' = Calls(e)
  BY <1>2 DEF Queued, Calls
<1>8. OnePlace'
  BY <1>3, <1>4, <1>6, <1>7, Goes DEF WorkInv
<1> QED
  BY <1>5, <1>8 DEF WorkInv

\* The free list has every descriptor: an injection between sets of one size is onto.
LEMMA WorkInit_Inv == WorkInit => WorkInv
<1> SUFFICES ASSUME WorkInit PROVE WorkInv
  OBVIOUS
<1> DEFINE n == Cardinality(Descriptor)
           F == free_work_queue_msg
<1>1. n \in Nat /\ F \in [1 .. n -> Descriptor] /\ IsInjective(F)
  <2>1. n \in Nat /\ ExistsBijection(1 .. n, Descriptor)
    BY WorkAssumption, FS_CardinalityType
  <2>2. \E f \in [1 .. n -> Descriptor] : IsInjective(f)
    BY <2>1 DEF ExistsBijection, Bijection, Injection, IsInjective
  <2> HIDE DEF n
  <2>3. F = CHOOSE f \in [1 .. n -> Descriptor] : IsInjective(f)
    BY DEF WorkInit, SetToSeq, n
  <2> QED
    BY <2>1, <2>2, <2>3
<1> HIDE DEF n
<1>2. ToSet(F) = Descriptor
  <2>1. DOMAIN F = 1 .. n /\ ToSet(F) \subseteq Descriptor
    BY <1>1 DEF ToSet
  <2>2. F \in Bijection(1 .. n, ToSet(F))
    BY <1>1, <2>1 DEF Bijection, Injection, Surjection, IsInjective, ToSet
  <2>3. Cardinality(ToSet(F)) = n
    BY <1>1, <2>2, FS_CountingElements DEF ExistsBijection
  <2> QED
    BY <2>1, <2>3, WorkAssumption, FS_Subset DEF n
<1>3. F \in Seq(Descriptor) /\ \A d \in Descriptor : OnFree(d)
  BY <1>1, <1>2 DEF OnFree
<1>4. /\ work_queue = [q \in WorkQueue |-> <<>>] /\ running = [q \in WorkQueue |-> NoWork]
      /\ scheduling = [s \in Scheduler |-> Idle]
  BY DEF WorkInit
<1>5. WorkTypes /\ EachOnce
  BY <1>1, <1>3, <1>4 DEF WorkTypes, EachOnce, IsInjective
<1>6. ASSUME NEW d \in Descriptor PROVE places(d) = {<<"free", NoWork>>}
  <2>1. Queued(d) = {}
    BY <1>4 DEF Queued, ToSet
  <2>2. Runs(d) = {} /\ Calls(d) = {}
    BY <1>4, WorkAssumption DEF Runs, Calls, Idle
  <2>3. places(d) = {<<"free", NoWork>>} \cup {"queue"} \X {} \cup {"running"} \X {} \cup {"calling"} \X {}
    BY <1>3, <2>1, <2>2 DEF places, OnFree, Queued, Runs, Calls
  <2> QED
    BY <2>3
<1> QED
  BY <1>5, <1>6 DEF WorkInv, OnePlace

\* Every descriptor is on the free list, in one queue, with one task or with one caller,
\* whoever preempts sche_work_queue between the lists and whichever queues are full:
\* none is lost and none carries two calls (raw_work_queue.c).
THEOREM DescriptorsAreKept == WorkSpec => []DescriptorsOK
<1>1. WorkInv /\ [WorkNext]_workVars => WorkInv'
  <2> SUFFICES ASSUME WorkInv, [WorkNext]_workVars PROVE WorkInv'
    OBVIOUS
  <2>1. CASE WorkNext
    BY <2>1, sche_work_queue_Inv, post_work_Inv, put_back_Inv, receive_work_Inv, free_work_Inv
       DEF WorkNext
  <2>2. CASE UNCHANGED workVars
    <3>1. \A d : places(d)' = places(d)
      BY <2>2 DEF workVars, places
    <3> QED
      BY <2>2, <3>1 DEF workVars, WorkInv, WorkTypes, EachOnce, OnePlace
  <2> QED
    BY <2>1, <2>2
<1>2. WorkInv => DescriptorsOK
  BY FS_Singleton DEF WorkInv, EachOnce, OnePlace, DescriptorsOK
<1> QED
  BY <1>1, <1>2, WorkInit_Inv, PTL DEF WorkSpec

(***************************************************************************)
(* Active objects: the count of a pool event is the number of references   *)
(* to it.  Inductive with it is that an event that a client has allocated  *)
(* and not posted has no reference and one owner (HeldOK), and what the    *)
(* calls under way look like (PostOK).  A step moves references from one   *)
(* place to another, each counted as the cardinality of a set (Moves).     *)
(***************************************************************************)

One(b) == IF b THEN 1 ELSE 0

USE DEF Counted

\* The sets that references counts.
InQueues(e) == {x \in {x \in Actor \X (1 .. ActorQSize) : x[2] \in DOMAIN active_queue[x[1]]} :
                  active_queue[x[1]][x[2]] = e}
Executing(e) == {o \in Actor : executing[o] = e}
Posts(e) == {p \in {p \in Poster : posting[p].event = e} : posting[p].op = "post"}
Guards(e) == {p \in {p \in Poster : posting[p].event = e} : posting[p].guard}

Posting == [op : {"none", "error", "ref", "post", "collect", "release"}, event : StateEvent \cup {NoEvent},
            to : Seq(Actor), front : BOOLEAN, guard : BOOLEAN]

\* A call under way has a reference of its own until it has posted the last time.
PostOK(P) ==
  /\ P.op = "none" => P = NoPost
  /\ P.op = "error" => P = [NoPost EXCEPT !.op = "error"]
  /\ P.op \notin {"none", "error"} => P.event \in StateEvent
  /\ P.op \in {"ref", "collect", "release"} => P.guard
  /\ P.op \in {"ref", "post"} => P.to # <<>>
  /\ P.op = "post" /\ ~ P.guard => Len(P.to) = 1
  /\ P.op = "release" => P.event \in PoolEvent

ActiveTypes ==
  /\ active_queue \in [Actor -> Seq(StateEvent)]
  /\ \A o \in Actor : Len(active_queue[o]) <= ActorQSize
  /\ deferred \in [Actor -> Seq(StateEvent)]
  /\ \A o \in Actor : \A i \in 1 .. Len(deferred[o]) : deferred[o][i] \in Deferrable
  /\ executing \in [Actor -> StateEvent \cup {NoEvent}]
  /\ held \in [Client -> PoolEvent \cup {NoEvent}]
  /\ posting \in [Poster -> Posting] /\ \A p \in Poster : PostOK(posting[p])
  /\ ref_count \in [PoolEvent -> Nat] /\ lost \in [PoolEvent -> Nat]
  /\ pool_free \in SUBSET PoolEvent
  /\ listeners \in Seq(Actor)
  /\ timed \in [TimeEvent -> {Off} \cup [on : {TRUE}, once : BOOLEAN, object : Actor]]

\* An event that a client has allocated has no reference yet.
HeldOK ==
  \A p \in Client, e \in Counted : held[p] = e =>
    /\ e \notin pool_free /\ references(e) = 0
    /\ \A q \in Client : held[q] = e => q = p

ActiveInv == ActiveTypes /\ HeldOK /\ EventRefsOK

LEMMA ReferencesAre ==
  \A e : references(e) = lost[e] + Cardinality(InQueues(e)) + Cardinality(Executing(e))
                       + Cardinality(Posts(e)) + Cardinality(Guards(e))
BY DEF references, InQueues, Executing, Posts, Guards

LEMMA Numbers ==
  ASSUME ActiveTypes, NEW e \in PoolEvent
  PROVE  /\ IsFiniteSet(InQueues(e)) /\ Cardinality(InQueues(e)) \in Nat
         /\ IsFiniteSet(Executing(e)) /\ Cardinality(Executing(e)) \in Nat
         /\ IsFiniteSet(Posts(e)) /\ Cardinality(Posts(e)) \in Nat
         /\ IsFiniteSet(Guards(e)) /\ Cardinality(Guards(e)) \in Nat
         /\ lost[e] \in Nat /\ references(e) \in Nat
<1>1. IsFiniteSet(Actor) /\ IsFiniteSet(Poster) /\ IsFiniteSet(1 .. ActorQSize)
  <2>1. Actor \in SUBSET Poster /\ IsFiniteSet(Poster)
    BY ActiveAssumption DEF Poster
  <2> QED
    BY <2>1, FS_Subset, FS_Interval, ActiveAssumption
<1>2. IsFiniteSet(Actor \X (1 .. ActorQSize))
  BY <1>1, FS_Product
<1>3. /\ InQueues(e) \in SUBSET (Actor \X (1 .. ActorQSize)) /\ Executing(e) \in SUBSET Actor
      /\ Posts(e) \in SUBSET Poster /\ Guards(e) \in SUBSET Poster
  BY DEF InQueues, Executing, Posts, Guards
<1>4. /\ IsFiniteSet(InQueues(e)) /\ IsFiniteSet(Executing(e))
      /\ IsFiniteSet(Posts(e)) /\ IsFiniteSet(Guards(e))
  BY <1>1, <1>2, <1>3, FS_Subset
<1>5. /\ Cardinality(InQueues(e)) \in Nat /\ Cardinality(Executing(e)) \in Nat
      /\ Cardinality(Posts(e)) \in Nat /\ Cardinality(Guards(e)) \in Nat
  BY <1>4, FS_CardinalityType
<1>6. lost[e] \in Nat
  BY DEF ActiveTypes
<1> QED
  BY <1>4, <1>5, <1>6, ReferencesAre

\* One element of a finite set comes or goes.
LEMMA OneMore ==
  ASSUME NEW S, IsFiniteSet(S), NEW T, NEW x, \A y : y # x => (y \in T <=> y \in S)
  PROVE  Cardinality(T) = Cardinality(S) - One(x \in S) + One(x \in T)
<1>1. IsFiniteSet(S \ {x}) /\ Cardinality(S \ {x}) = Cardinality(S) - One(x \in S)
  BY FS_RemoveElement, FS_CardinalityType DEF One
<1>2. CASE x \in T
  <2>1. T = (S \ {x}) \cup {x}
    BY <1>2
  <2>2. Cardinality(T) = Cardinality(S \ {x}) + 1
    BY <1>1, <2>1, FS_AddElement
  <2> QED
    BY <1>1, <1>2, <2>2 DEF One
<1>3. CASE x \notin T
  <2>1. T = S \ {x}
    BY <1>3
  <2> QED
    BY <1>1, <1>3, <2>1, FS_CardinalityType DEF One
<1> QED
  BY <1>2, <1>3

LEMMA PostingStep ==
  ASSUME ActiveTypes, NEW p \in Poster, NEW P, NEW e \in PoolEvent, P.guard \in BOOLEAN,
         \A q \in Poster : posting'[q] = IF q = p THEN P ELSE posting[q]
  PROVE  /\ Cardinality(Posts(e)') = Cardinality(Posts(e))
              - One(posting[p].op = "post" /\ posting[p].event = e) + One(P.op = "post" /\ P.event = e)
         /\ Cardinality(Guards(e)') = Cardinality(Guards(e))
              - One(posting[p].guard /\ posting[p].event = e) + One(P.guard /\ P.event = e)
<1>2. /\ p \in Posts(e) <=> posting[p].op = "post" /\ posting[p].event = e
      /\ p \in Posts(e)' <=> P.op = "post" /\ P.event = e
      /\ \A q : q # p => (q \in Posts(e)' <=> q \in Posts(e))
  BY DEF Posts
<1>3. /\ p \in Guards(e) <=> posting[p].guard /\ posting[p].event = e
      /\ p \in Guards(e)' <=> P.guard /\ P.event = e
      /\ \A q : q # p => (q \in Guards(e)' <=> q \in Guards(e))
  BY DEF Guards
<1>4. Cardinality(Posts(e)') = Cardinality(Posts(e)) - One(p \in Posts(e)) + One(p \in Posts(e)')
  BY <1>2, Numbers, OneMore
<1>5. Cardinality(Guards(e)') = Cardinality(Guards(e)) - One(p \in Guards(e)) + One(p \in Guards(e)')
  BY <1>3, Numbers, OneMore
<1> QED
  BY <1>2, <1>3, <1>4, <1>5 DEF One

LEMMA ExecutingStep ==
  ASSUME ActiveTypes, NEW o \in Actor, NEW x \in StateEvent \cup {NoEvent}, NEW e \in PoolEvent,
         \A q \in Actor : executing'[q] = IF q = o THEN x ELSE executing[q]
  PROVE  Cardinality(Executing(e)') = Cardinality(Executing(e)) - One(executing[o] = e) + One(x = e)
<1>2. /\ o \in Executing(e) <=> executing[o] = e
      /\ o \in Executing(e)' <=> x = e
      /\ \A q : q # o => (q \in Executing(e)' <=> q \in Executing(e))
  BY DEF Executing
<1>3. Cardinality(Executing(e)') = Cardinality(Executing(e)) - One(o \in Executing(e)) + One(o \in Executing(e)')
  BY <1>2, Numbers, OneMore
<1> QED
  BY <1>2, <1>3 DEF One

\* occurrences of an event in a queue of which one end changes.
Occ(e, s) == {i \in DOMAIN s : s[i] = e}

LEMMA Shifted ==
  ASSUME NEW I \in SUBSET Nat, IsFiniteSet(I), NEW J, NEW n \in Int,
         J = {i + n : i \in I}
  PROVE  IsFiniteSet(J) /\ Cardinality(J) = Cardinality(I)
<1> DEFINE f == [i \in I |-> i + n]
<1>1. f \in [I -> J] /\ \A i \in I : f[i] = i + n
  OBVIOUS
<1>2. \A j \in J : \E i \in I : f[i] = j
  BY <1>1
<1>3. \A i, j \in I : f[i] = f[j] => i = j
  BY <1>1
<1> HIDE DEF f
<1>4. f \in Bijection(I, J)
  BY <1>1, <1>2, <1>3 DEF Bijection, Injection, Surjection, IsInjective
<1> QED
  BY <1>4, FS_Bijection DEF ExistsBijection

LEMMA OccFinite ==
  ASSUME NEW S, NEW s \in Seq(S), NEW e
  PROVE  /\ IsFiniteSet(Occ(e, s)) /\ Occ(e, s) \in SUBSET Nat
         /\ occurrences(e, s) = Cardinality(Occ(e, s)) /\ occurrences(e, s) \in Nat
<1>1. Occ(e, s) \in SUBSET (1 .. Len(s)) /\ IsFiniteSet(1 .. Len(s)) /\ DOMAIN s = 1 .. Len(s)
  BY FS_Interval DEF Occ
<1>2. IsFiniteSet(Occ(e, s)) /\ Occ(e, s) \in SUBSET Nat
  BY <1>1, FS_Subset
<1> QED
  BY <1>2, FS_CardinalityType DEF Occ, occurrences

LEMMA OccAppend ==
  ASSUME NEW S, NEW s \in Seq(S), NEW x \in S, NEW e
  PROVE  occurrences(e, Append(s, x)) = occurrences(e, s) + One(x = e)
<1> DEFINE n == Len(s) + 1
<1>1. /\ Append(s, x) \in Seq(S) /\ DOMAIN s = 1 .. Len(s) /\ DOMAIN Append(s, x) = 1 .. n
      /\ \A i \in 1 .. n : Append(s, x)[i] = IF i = n THEN x ELSE s[i]
  OBVIOUS
<1>2. /\ \A y : y # n => (y \in Occ(e, Append(s, x)) <=> y \in Occ(e, s))
      /\ n \notin Occ(e, s) /\ (n \in Occ(e, Append(s, x)) <=> x = e)
  BY <1>1 DEF Occ
<1> HIDE DEF n
<1>3. Cardinality(Occ(e, Append(s, x))) = Cardinality(Occ(e, s)) - One(n \in Occ(e, s)) + One(n \in Occ(e, Append(s, x)))
  BY <1>2, OccFinite, OneMore
<1>4. /\ occurrences(e, Append(s, x)) = Cardinality(Occ(e, Append(s, x)))
      /\ occurrences(e, s) = Cardinality(Occ(e, s)) /\ occurrences(e, s) \in Nat
  BY <1>1, OccFinite
<1> QED
  BY <1>2, <1>3, <1>4 DEF One

LEMMA OccTail ==
  ASSUME NEW S, NEW s \in Seq(S), s # <<>>, NEW e
  PROVE  occurrences(e, Tail(s)) = occurrences(e, s) - One(Head(s) = e)
<1> DEFINE T == Occ(e, s) \ {1}
<1>1. /\ Tail(s) \in Seq(S) /\ DOMAIN s = 1 .. Len(s) /\ DOMAIN Tail(s) = 1 .. Len(s) - 1
      /\ Len(s) \in Nat \ {0} /\ Head(s) = s[1]
      /\ \A i \in 1 .. Len(s) - 1 : Tail(s)[i] = s[i + 1]
  OBVIOUS
<1>2. IsFiniteSet(Occ(e, s)) /\ Cardinality(Occ(e, s)) \in Nat
  BY OccFinite
<1>3. IsFiniteSet(T) /\ Cardinality(T) = Cardinality(Occ(e, s)) - One(Head(s) = e)
  <2>1. 1 \in Occ(e, s) <=> Head(s) = e
    BY <1>1 DEF Occ
  <2> QED
    BY <1>2, <2>1, FS_RemoveElement DEF One
<1>4. Occ(e, Tail(s)) = {i + (-1) : i \in T}
  <2>1. ASSUME NEW i \in T PROVE i + (-1) \in Occ(e, Tail(s))
    <3>1. i \in 1 .. Len(s) /\ i # 1 /\ s[i] = e
      BY <1>1 DEF Occ
    <3>2. i - 1 \in 1 .. Len(s) - 1 /\ (i - 1) + 1 = i /\ i + (-1) = i - 1
      BY <1>1, <3>1
    <3> QED
      BY <1>1, <3>1, <3>2 DEF Occ
  <2>2. ASSUME NEW j \in Occ(e, Tail(s)) PROVE j + 1 \in T /\ (j + 1) + (-1) = j
    BY <1>1 DEF Occ
  <2> QED
    BY <2>1, <2>2
<1>5. T \in SUBSET Nat
  BY OccFinite
<1> HIDE DEF T
<1>6. Cardinality(Occ(e, Tail(s))) = Cardinality(T)
  <2>1. -1 \in Int
    OBVIOUS
  <2> QED
    BY <1>3, <1>4, <1>5, <2>1, Shifted
<1> QED
  BY <1>1, <1>3, <1>6, OccFinite

LEMMA OccCons ==
  ASSUME NEW S, NEW s \in Seq(S), NEW x \in S, NEW e
  PROVE  occurrences(e, <<x>> \o s) = occurrences(e, s) + One(x = e)
<1> DEFINE r == <<x>> \o s
<1>1. r \in Seq(S) /\ r # <<>> /\ Head(r) = x
  OBVIOUS
<1>2. Tail(r) = s
  <2>1. /\ Len(r) = Len(s) + 1 /\ \A i \in 1 .. Len(s) : r[i + 1] = s[i]
        /\ Len(s) \in Nat
    OBVIOUS
  <2>2. Tail(r) \in Seq(S) /\ Len(Tail(r)) = Len(s) /\ \A i \in 1 .. Len(s) : Tail(r)[i] = r[i + 1]
    BY <1>1, <2>1
  <2> HIDE DEF r
  <2> QED
    BY <2>1, <2>2
<1> HIDE DEF r
<1>3. occurrences(e, s) = occurrences(e, r) - One(x = e)
  BY <1>1, <1>2, OccTail
<1>4. occurrences(e, r) \in Nat
  BY <1>1, OccFinite
<1> QED
  BY <1>3, <1>4 DEF r, One

\* A queue changes: its events are counted anew.
LEMMA QueueStep_Counts ==
  ASSUME ActiveTypes, NEW o \in Actor, NEW s \in Seq(StateEvent), Len(s) <= ActorQSize,
         NEW e \in PoolEvent, \A a \in Actor : active_queue'[a] = IF a = o THEN s ELSE active_queue[a]
  PROVE  Cardinality(InQueues(e)') =
           Cardinality(InQueues(e)) - occurrences(e, active_queue[o]) + occurrences(e, s)
<1> DEFINE SlotsOf(q) == {<<o, i>> : i \in Occ(e, q)}
           Rest == {x \in InQueues(e) : x[1] # o}
<1>1. /\ active_queue[o] \in Seq(StateEvent) /\ Len(active_queue[o]) <= ActorQSize
      /\ ActorQSize \in Nat
  BY ActiveAssumption DEF ActiveTypes
<1>2. \A q \in Seq(StateEvent) : /\ IsFiniteSet(SlotsOf(q)) /\ Cardinality(SlotsOf(q)) = occurrences(e, q)
                                 /\ occurrences(e, q) \in Nat
  <2> SUFFICES ASSUME NEW q \in Seq(StateEvent)
               PROVE  /\ IsFiniteSet(SlotsOf(q)) /\ Cardinality(SlotsOf(q)) = occurrences(e, q)
                      /\ occurrences(e, q) \in Nat
    OBVIOUS
  <2> DEFINE f == [i \in Occ(e, q) |-> <<o, i>>]
  <2>1. f \in [Occ(e, q) -> SlotsOf(q)] /\ \A i \in Occ(e, q) : f[i] = <<o, i>>
    OBVIOUS
  <2>2. /\ \A i, j \in Occ(e, q) : f[i] = f[j] => i = j
        /\ \A x \in SlotsOf(q) : \E i \in Occ(e, q) : f[i] = x
    BY <2>1
  <2> HIDE DEF f
  <2>3. f \in Bijection(Occ(e, q), SlotsOf(q))
    BY <2>1, <2>2 DEF Bijection, Injection, Surjection, IsInjective
  <2> QED
    BY <2>3, OccFinite, FS_Bijection DEF ExistsBijection
<1>3. /\ InQueues(e) = Rest \cup SlotsOf(active_queue[o]) /\ Rest \cap SlotsOf(active_queue[o]) = {}
      /\ InQueues(e)' = Rest \cup SlotsOf(s) /\ Rest \cap SlotsOf(s) = {}
  <2>1. \A q \in Seq(StateEvent) : DOMAIN q = 1 .. Len(q)
    OBVIOUS
  <2>2. \A x : x \in InQueues(e) <=> /\ x \in Actor \X (1 .. ActorQSize)
                                     /\ x[2] \in 1 .. Len(active_queue[x[1]])
                                     /\ active_queue[x[1]][x[2]] = e
    BY <2>1 DEF InQueues, ActiveTypes
  <2>3. \A x : x \in InQueues(e)' <=> /\ x \in Actor \X (1 .. ActorQSize)
                                      /\ x[2] \in 1 .. Len(active_queue'[x[1]])
                                      /\ active_queue'[x[1]][x[2]] = e
    BY <1>1, <2>1 DEF InQueues, ActiveTypes
  <2>4. \A q \in Seq(StateEvent) : Len(q) <= ActorQSize =>
          \A x : x \in SlotsOf(q) <=> /\ x \in Actor \X (1 .. ActorQSize)
                                 /\ x[1] = o /\ x[2] \in 1 .. Len(q) /\ q[x[2]] = e
    BY <1>1, <2>1 DEF Occ
  <2>5. Rest \cap SlotsOf(active_queue[o]) = {} /\ Rest \cap SlotsOf(s) = {}
    BY <1>1, <2>4
  <2>6. InQueues(e) = Rest \cup SlotsOf(active_queue[o])
    BY <1>1, <2>2, <2>4
  <2>7. InQueues(e)' = Rest \cup SlotsOf(s)
    BY <1>1, <2>2, <2>3, <2>4
  <2> QED
    BY <2>5, <2>6, <2>7
<1>4. IsFiniteSet(Rest) /\ Cardinality(Rest) \in Nat
  <2>1. Rest \in SUBSET InQueues(e)
    OBVIOUS
  <2> QED
    BY <2>1, Numbers, FS_Subset, FS_CardinalityType
<1> HIDE DEF SlotsOf, Rest
<1>5. /\ Cardinality(InQueues(e)) = Cardinality(Rest) + occurrences(e, active_queue[o])
      /\ Cardinality(InQueues(e)') = Cardinality(Rest) + occurrences(e, s)
  <2>1. \A A, B : IsFiniteSet(A) /\ IsFiniteSet(B) /\ A \cap B = {} =>
                    Cardinality(A \cup B) = Cardinality(A) + Cardinality(B)
    <3> SUFFICES ASSUME NEW A, NEW B, IsFiniteSet(A), IsFiniteSet(B), A \cap B = {}
                 PROVE  Cardinality(A \cup B) = Cardinality(A) + Cardinality(B)
      OBVIOUS
    <3>1. Cardinality(A \cup B) = Cardinality(A) + Cardinality(B) - Cardinality(A \cap B)
      BY FS_Union, Zenon
    <3>2. Cardinality(A) \in Nat /\ Cardinality(B) \in Nat /\ Cardinality(A \cap B) = 0
      BY FS_EmptySet, FS_CardinalityType
    <3> QED
      BY <3>1, <3>2
  <2> QED
    BY <1>1, <1>2, <1>3, <1>4, <2>1
<1> QED
  BY <1>1, <1>2, <1>4, <1>5

\* The references that a call under way has.
Uses(P, e) == One(P.op = "post" /\ P.event = e) + One(P.guard /\ P.event = e)

LEMMA UsesNumber ==
  ASSUME NEW P \in Posting, PostOK(P), NEW e \in PoolEvent
  PROVE  /\ Uses(P, e) \in Nat
         /\ P.event # e \/ P.op \in {"none", "error"} => Uses(P, e) = 0
         /\ P.event = e => Uses(P, e) >= 1
         /\ P.event = e /\ P.op # "post" => Uses(P, e) = 1
         /\ P.event = e /\ P.op = "post" => Uses(P, e) = 1 + One(P.guard)
<1>1. NoPost.guard = FALSE /\ NoPost.event = NoEvent /\ NoPost.op = "none" /\ NoEvent \notin PoolEvent
  BY ActiveAssumption DEF NoPost
<1>2. P.op \in {"none", "error", "ref", "post", "collect", "release"} /\ P.guard \in BOOLEAN
  BY DEF Posting
<1>3. P.op \in {"none", "error"} => P.event = NoEvent /\ ~ P.guard
  BY DEF PostOK, NoPost
<1>4. P.op \in {"ref", "collect", "release"} => P.guard
  BY DEF PostOK
<1> QED
  BY <1>1, <1>2, <1>3, <1>4 DEF Uses, One

\* Whoever has an event is counted.
LEMMA Referenced ==
  ASSUME ActiveTypes, NEW e \in PoolEvent
  PROVE  /\ \A o \in Actor : executing[o] = e => references(e) >= 1
         /\ \A p \in Poster : Uses(posting[p], e) >= 1 => references(e) >= 1
         /\ \A p \in Poster, o \in Actor :
              Uses(posting[p], e) >= 1 /\ executing[o] = e => references(e) >= 2
<1>1. ASSUME NEW o \in Actor, executing[o] = e PROVE Cardinality(Executing(e)) >= 1
  <2>1. Executing(e) # {}
    BY <1>1 DEF Executing
  <2> QED
    BY <2>1, Numbers, FS_EmptySet
<1>2. ASSUME NEW p \in Poster, Uses(posting[p], e) >= 1
      PROVE  Cardinality(Posts(e)) + Cardinality(Guards(e)) >= 1
  <2>1. p \in Posts(e) \/ p \in Guards(e)
    BY <1>2 DEF Posts, Guards, Uses, One
  <2>2. Cardinality(Posts(e)) # 0 \/ Cardinality(Guards(e)) # 0
    BY <2>1, Numbers, FS_EmptySet
  <2> QED
    BY <2>2, Numbers
<1> QED
  BY <1>1, <1>2, Numbers, ReferencesAre

\* Two calls under way are counted twice.
LEMMA ReferencedTwice ==
  ASSUME ActiveTypes, NEW e \in PoolEvent, NEW p \in Poster, NEW q \in Poster, p # q,
         posting[p].event = e, posting[q].event = e, posting[q].op = "release"
  PROVE  references(e) >= 2
<1>1. q \in Guards(e)
  BY DEF Guards, ActiveTypes, PostOK
<1>2. p \in Guards(e) \/ p \in Posts(e)
  <2>1. posting[p].op \in {"none", "error", "ref", "post", "collect", "release"}
    BY DEF ActiveTypes, Posting
  <2>2. PostOK(posting[p])
    BY DEF ActiveTypes
  <2> QED
    BY <2>1, <2>2, ActiveAssumption DEF Guards, Posts, PostOK, NoPost
<1>3. CASE p \in Guards(e)
  <2>1. IsFiniteSet(Guards(e) \ {q}) /\ Cardinality(Guards(e) \ {q}) = Cardinality(Guards(e)) - 1
    BY <1>1, Numbers, FS_RemoveElement
  <2>2. Guards(e) \ {q} # {}
    BY <1>3
  <2>3. Cardinality(Guards(e) \ {q}) # 0 /\ Cardinality(Guards(e) \ {q}) \in Nat
    BY <2>1, <2>2, FS_EmptySet, FS_CardinalityType
  <2> QED
    BY <2>1, <2>3, Numbers, ReferencesAre
<1>4. CASE p \in Posts(e)
  <2>1. Cardinality(Guards(e)) # 0 /\ Cardinality(Posts(e)) # 0
    BY <1>1, <1>4, Numbers, FS_EmptySet
  <2>2. /\ lost[e] \in Nat /\ Cardinality(InQueues(e)) \in Nat /\ Cardinality(Executing(e)) \in Nat
        /\ Cardinality(Posts(e)) \in Nat /\ Cardinality(Guards(e)) \in Nat
    BY Numbers
  <2> QED
    BY <2>1, <2>2, ReferencesAre
<1> QED
  BY <1>2, <1>3, <1>4

\* What a call that takes a step does to the references that calls have.
LEMMA CallCounts ==
  ASSUME ActiveTypes, NEW p \in Poster, NEW P \in Posting, NEW e \in PoolEvent,
         \A q \in Poster : posting'[q] = IF q = p THEN P ELSE posting[q]
  PROVE  /\ Cardinality(Posts(e)') + Cardinality(Guards(e)') =
              Cardinality(Posts(e)) + Cardinality(Guards(e)) - Uses(posting[p], e) + Uses(P, e)
         /\ Cardinality(Posts(e)') \in Nat /\ Cardinality(Guards(e)') \in Nat
<1>2. P.guard \in BOOLEAN
  BY DEF Posting
<1>3. /\ Cardinality(Posts(e)') = Cardinality(Posts(e))
              - One(posting[p].op = "post" /\ posting[p].event = e) + One(P.op = "post" /\ P.event = e)
      /\ Cardinality(Guards(e)') = Cardinality(Guards(e))
              - One(posting[p].guard /\ posting[p].event = e) + One(P.guard /\ P.event = e)
  BY <1>2, PostingStep
<1> DEFINE a == One(posting[p].op = "post" /\ posting[p].event = e)
           b == One(P.op = "post" /\ P.event = e)
           c == One(posting[p].guard /\ posting[p].event = e)
           d == One(P.guard /\ P.event = e)
<1>4. a \in Int /\ b \in Int /\ c \in Int /\ d \in Int
  BY DEF One
<1>5. Cardinality(Posts(e)) \in Nat /\ Cardinality(Guards(e)) \in Nat
  BY Numbers
<1>6. Uses(posting[p], e) = a + c /\ Uses(P, e) = b + d
  BY DEF Uses
<1>7. /\ Cardinality(Posts(e)') = Cardinality(Posts(e)) - a + b
      /\ Cardinality(Guards(e)') = Cardinality(Guards(e)) - c + d
  BY <1>2, <1>3
<1>8. Cardinality(Posts(e)') \in Nat /\ Cardinality(Guards(e)') \in Nat
  <2>1. Posts(e)' \in SUBSET Poster /\ Guards(e)' \in SUBSET Poster /\ IsFiniteSet(Poster)
    BY ActiveAssumption DEF Posts, Guards, Poster
  <2> QED
    BY <2>1, FS_Subset, FS_CardinalityType
<1> HIDE DEF a, b, c, d
<1> QED
  BY <1>4, <1>5, <1>6, <1>7, <1>8

\* The references of an event from the parts that a step of a call changes.
LEMMA CallMoves ==
  ASSUME ActiveTypes, NEW p \in Poster, NEW P \in Posting, NEW e \in PoolEvent,
         \A q \in Poster : posting'[q] = IF q = p THEN P ELSE posting[q],
         NEW l \in Nat, NEW n \in Nat, NEW x \in Nat,
         lost'[e] = l, Cardinality(InQueues(e)') = n, Cardinality(Executing(e)') = x
  PROVE  references(e)' =
           l + n + x + Cardinality(Posts(e)) + Cardinality(Guards(e)) - Uses(posting[p], e) + Uses(P, e)
<1>1. references(e)' = l + n + x + Cardinality(Posts(e)') + Cardinality(Guards(e)')
  BY DEF references, InQueues, Executing, Posts, Guards
<1>2. PICK y \in Nat, z \in Nat : y = Cardinality(Posts(e)') /\ z = Cardinality(Guards(e)')
  BY CallCounts
<1>3. PICK b \in Nat, c \in Nat : b = Cardinality(Posts(e)) /\ c = Cardinality(Guards(e))
  BY Numbers
<1>4. PICK i \in Int, j \in Int : i = Uses(posting[p], e) /\ j = Uses(P, e)
  <2>1. Uses(posting[p], e) \in Int /\ Uses(P, e) \in Int
    BY DEF Uses, One
  <2> QED
    BY <2>1
<1>5. y + z = b + c - i + j
  BY <1>2, <1>3, <1>4, CallCounts
<1>6. l + n + x + y + z = l + n + x + b + c - i + j
  BY <1>5
<1> QED
  BY <1>1, <1>2, <1>3, <1>4, <1>6

LEMMA CallOnly ==
  ASSUME ActiveTypes, NEW p \in Poster, NEW P \in Posting, NEW e \in PoolEvent,
         \A q \in Poster : posting'[q] = IF q = p THEN P ELSE posting[q],
         UNCHANGED <<active_queue, executing, lost>>
  PROVE  references(e)' = references(e) - Uses(posting[p], e) + Uses(P, e)
<1>1. /\ lost'[e] = lost[e] /\ Cardinality(InQueues(e)') = Cardinality(InQueues(e))
      /\ Cardinality(Executing(e)') = Cardinality(Executing(e))
  BY DEF InQueues, Executing
<1>2. /\ lost[e] \in Nat /\ Cardinality(InQueues(e)) \in Nat /\ Cardinality(Executing(e)) \in Nat
      /\ Cardinality(Posts(e)) \in Nat /\ Cardinality(Guards(e)) \in Nat
  BY Numbers
<1>3. references(e)' = lost[e] + Cardinality(InQueues(e)) + Cardinality(Executing(e))
                     + Cardinality(Posts(e)) + Cardinality(Guards(e)) - Uses(posting[p], e) + Uses(P, e)
  BY <1>1, <1>2, CallMoves
<1>4. Uses(posting[p], e) \in Nat /\ Uses(P, e) \in Nat
  BY DEF Uses, One
<1> QED
  BY <1>2, <1>3, <1>4, ReferencesAre

\* References that move from one place to another.
LEMMA Balanced ==
  ASSUME ActiveInv, \A e \in Counted : references(e)' = references(e),
         UNCHANGED <<held, ref_count, pool_free>>,
         \A p \in Poster : posting'[p].op = "release" =>
           posting[p].op = "release" /\ posting'[p].event = posting[p].event
  PROVE  HeldOK' /\ EventRefsOK'
<1>1. HeldOK'
  BY DEF ActiveInv, HeldOK
<1>2. EventRefsOK'
  BY DEF ActiveInv, EventRefsOK
<1> QED
  BY <1>1, <1>2

\* A call counts the reference that it has.
LEMMA CountedUp ==
  ASSUME ActiveInv, NEW p \in Poster, NEW P \in Posting, PostOK(P), P.op # "release",
         \A q \in Poster : posting'[q] = IF q = p THEN P ELSE posting[q],
         posting[p].op # "release", ref_count' = counted_up(P.event),
         \A e \in PoolEvent : Uses(P, e) = Uses(posting[p], e) + One(e = P.event),
         P.event \in Counted => P.event \notin pool_free,
         P.event \in Counted => \A q \in Poster : posting[q].op = "release" => posting[q].event # P.event,
         \A c \in Client : held'[c] \in Counted => held'[c] = held[c] /\ held[c] # P.event,
         UNCHANGED <<active_queue, executing, lost, pool_free>>
  PROVE  HeldOK' /\ EventRefsOK'
<1>1. ActiveTypes
  BY DEF ActiveInv
<1>2. \A e \in PoolEvent : references(e)' = references(e) + One(e = P.event)
  <2> SUFFICES ASSUME NEW e \in PoolEvent PROVE references(e)' = references(e) + One(e = P.event)
    OBVIOUS
  <2>1. references(e)' = references(e) - Uses(posting[p], e) + Uses(P, e)
    BY <1>1, CallOnly
  <2>2. references(e) \in Nat /\ Uses(posting[p], e) \in Nat /\ Uses(P, e) \in Nat
    BY <1>1, Numbers DEF Uses, One
  <2>3. One(e = P.event) \in Nat
    BY DEF One
  <2> QED
    BY <2>1, <2>2, <2>3
<1>3. \A e \in PoolEvent : ref_count'[e] = ref_count[e] + One(e = P.event)
  BY <1>1 DEF ActiveTypes, counted_up, One
<1>4. \A e \in PoolEvent : e # P.event => references(e)' = references(e) /\ ref_count'[e] = ref_count[e]
  <2>1. \A e \in PoolEvent : references(e) \in Nat /\ ref_count[e] \in Nat
    BY <1>1, Numbers DEF ActiveTypes
  <2> QED
    BY <1>2, <1>3, <2>1 DEF One
<1>5. HeldOK'
  <2> SUFFICES ASSUME NEW c \in Client, NEW e \in Counted, held'[c] = e
               PROVE  /\ e \notin pool_free /\ references(e)' = 0
                      /\ \A q \in Client : held'[q] = e => q = c
    BY DEF HeldOK
  <2>1. e # NoEvent /\ held[c] = e /\ e # P.event
    BY ActiveAssumption
  <2>2. references(e)' = references(e) /\ references(e) = 0 /\ e \notin pool_free
    BY <1>4, <2>1 DEF ActiveInv, HeldOK
  <2> QED
    BY <2>1, <2>2 DEF ActiveInv, HeldOK
<1>6. EventRefsOK'
  <2>1. ASSUME NEW e \in Counted, e \notin pool_free PROVE ref_count'[e] = references(e)'
    <3>1. ref_count[e] = references(e)
      BY <2>1 DEF ActiveInv, EventRefsOK
    <3> QED
      BY <1>2, <1>3, <3>1
  <2>2. ASSUME NEW e \in Counted, e \in pool_free
        PROVE  references(e)' = 0 /\ \A c \in Client : held'[c] # e
    <3>1. references(e) = 0 /\ \A c \in Client : held[c] # e
      BY <2>2 DEF ActiveInv, EventRefsOK
    <3> QED
      BY <1>4, <2>2, <3>1, ActiveAssumption
  <2>3. ASSUME NEW q \in Poster, posting'[q].op = "release", posting'[q].event \in Counted
        PROVE  ref_count'[posting'[q].event] = 1
    <3>1. q # p /\ posting'[q] = posting[q] /\ posting[q].op = "release"
      BY <2>3
    <3>2. posting[q].event \in Counted /\ posting[q].event # P.event
      BY <2>3, <3>1
    <3> QED
      BY <1>4, <3>1, <3>2 DEF ActiveInv, EventRefsOK
  <2> QED
    BY <2>1, <2>2, <2>3 DEF EventRefsOK
<1> QED
  BY <1>5, <1>6

LEMMA NoPostFacts ==
  /\ NoPost \in Posting /\ PostOK(NoPost) /\ NoPost.op = "none"
  /\ \A e \in PoolEvent : Uses(NoPost, e) = 0
<1>1. NoPost.op = "none" /\ NoPost.guard = FALSE /\ NoPost.event = NoEvent /\ NoPost \in Posting
  BY DEF NoPost, Posting
<1>2. PostOK(NoPost)
  BY <1>1 DEF PostOK
<1> QED
  BY <1>1, <1>2 DEF Uses, One

LEMMA ErrorFacts ==
  /\ [NoPost EXCEPT !.op = "error"] \in Posting /\ PostOK([NoPost EXCEPT !.op = "error"])
  /\ [NoPost EXCEPT !.op = "error"].op # "release"
  /\ \A e \in PoolEvent : Uses([NoPost EXCEPT !.op = "error"], e) = 0
<1>1. PICK P : P = [NoPost EXCEPT !.op = "error"]
  OBVIOUS
<1>2. P.op = "error" /\ P.guard = FALSE /\ P.event = NoEvent /\ P \in Posting
  <2>1. NoPost \in Posting /\ NoPost.guard = FALSE /\ NoPost.event = NoEvent
    BY NoPostFacts DEF NoPost
  <2> QED
    BY <1>1, <2>1 DEF Posting
<1>3. PostOK(P)
  BY <1>1, <1>2 DEF PostOK
<1> QED
  BY <1>1, <1>2, <1>3 DEF Uses, One

\* The event of a caller is not free, and nobody gives it back.
LEMMA CallerHas ==
  ASSUME ActiveInv, NEW p \in Poster, Free(p), Has(p) \in Counted
  PROVE  /\ Has(p) \notin pool_free
         /\ \A q \in Poster : posting[q].op = "release" => posting[q].event # Has(p)
         /\ \A c \in Client : c # p => held[c] # Has(p)
<1>1. PICK e \in Counted : e = Has(p)
  OBVIOUS
<1>2. ActiveTypes /\ Actor \cap Client = {}
  BY ActiveAssumption DEF ActiveInv
<1>3. ASSUME NEW q \in Poster, posting[q].op = "release", posting[q].event = e
      PROVE  Uses(posting[q], e) >= 1 /\ ref_count[e] = 1
  <2>1. posting[q] \in Posting /\ PostOK(posting[q])
    BY <1>2 DEF ActiveTypes
  <2>2. Uses(posting[q], e) >= 1
    BY <1>3, <2>1, UsesNumber
  <2> QED
    BY <1>3, <2>2 DEF ActiveInv, EventRefsOK
<1>4. CASE p \in Actor
  <2>1. executing[p] = e
    BY <1>1, <1>4 DEF Has
  <2>2. references(e) >= 1 /\ references(e) \in Nat
    BY <1>2, <1>4, <2>1, Referenced, Numbers
  <2>3. e \notin pool_free /\ ref_count[e] = references(e) /\ \A c \in Client : held[c] # e
    BY <2>2 DEF ActiveInv, EventRefsOK, HeldOK
  <2>4. \A q \in Poster : ~ (posting[q].op = "release" /\ posting[q].event = e)
    <3> SUFFICES ASSUME NEW q \in Poster, posting[q].op = "release", posting[q].event = e
                 PROVE  FALSE
      OBVIOUS
    <3>1. references(e) >= 2
      BY <1>2, <1>3, <1>4, <2>1, Referenced
    <3> QED
      BY <1>3, <2>2, <2>3, <3>1
  <2> QED
    BY <1>1, <2>3, <2>4
<1>5. CASE p \in Client
  <2>1. held[p] = e
    BY <1>1, <1>2, <1>5 DEF Has
  <2>2. e \notin pool_free /\ references(e) = 0 /\ \A c \in Client : held[c] = e => c = p
    BY <1>5, <2>1 DEF ActiveInv, HeldOK
  <2>3. \A q \in Poster : ~ (posting[q].op = "release" /\ posting[q].event = e)
    BY <1>2, <1>3, <2>2, Referenced
  <2> QED
    BY <1>1, <2>2, <2>3
<1> QED
  BY <1>4, <1>5 DEF Poster

\* What a call that posts does to the rest of the state.
LEMMA PostCall ==
  ASSUME ActiveInv, NEW p \in Poster, NEW P \in Posting, PostOK(P), may_post(p),
         P.op \notin {"none", "error", "release"}, P.event = Has(p),
         P.op = "post" => ~ P.guard,
         ref_count' = counted_up(Has(p)), posting' = [posting EXCEPT ![p] = P], give_away(p),
         UNCHANGED <<objectVars, pool_free, listeners, timed, lost>>
  PROVE  ActiveInv'
<1>1. /\ ActiveTypes /\ posting[p] = NoPost /\ Free(p) /\ P.event \in PoolEvent \cup Reposted
      /\ Reposted \subseteq TimeEvent /\ PoolEvent \cap TimeEvent = {} /\ NoEvent \notin PoolEvent
      /\ UNCHANGED <<active_queue, deferred, user_data, executing, pool_free, listeners, timed, lost>>
  BY ActiveAssumption DEF ActiveInv, may_post, Free, objectVars
<1>2. /\ \A q \in Poster : posting'[q] = IF q = p THEN P ELSE posting[q]
      /\ posting' \in [Poster -> Posting]
  BY <1>1 DEF ActiveTypes
<1>3. /\ held' \in [Client -> PoolEvent \cup {NoEvent}]
      /\ \A c \in Client : held'[c] = IF c = p THEN NoEvent ELSE held[c]
  BY <1>1 DEF ActiveTypes, give_away
<1>4. ref_count' \in [PoolEvent -> Nat]
  BY <1>1 DEF ActiveTypes, counted_up
<1>5. ActiveTypes'
  BY <1>1, <1>2, <1>3, <1>4 DEF ActiveTypes
<1>6. \A e \in PoolEvent : Uses(P, e) = Uses(posting[p], e) + One(e = P.event)
  <2> SUFFICES ASSUME NEW e \in PoolEvent PROVE Uses(P, e) = Uses(posting[p], e) + One(e = P.event)
    OBVIOUS
  <2>1. Uses(posting[p], e) = 0
    BY <1>1, NoPostFacts
  <2>2. P.event # e => Uses(P, e) = 0
    BY UsesNumber
  <2>3. P.event = e => Uses(P, e) = 1
    BY UsesNumber DEF One
  <2> QED
    BY <2>1, <2>2, <2>3 DEF One
<1>7. /\ P.event \in Counted => P.event \notin pool_free
      /\ P.event \in Counted => \A q \in Poster : posting[q].op = "release" => posting[q].event # P.event
      /\ \A c \in Client : held'[c] \in Counted => held'[c] = held[c] /\ held[c] # P.event
  <2>1. CASE P.event \in Counted
    BY <1>1, <1>3, <2>1, CallerHas
  <2>2. CASE P.event \notin Counted
    BY <1>1, <1>3, <2>2 DEF ActiveTypes, PostOK
  <2> QED
    BY <2>1, <2>2
<1>8. posting[p].op # "release"
  BY <1>1, NoPostFacts
<1>9. HeldOK' /\ EventRefsOK'
  BY <1>1, <1>2, <1>6, <1>7, <1>8, CountedUp
<1> QED
  BY <1>5, <1>9 DEF ActiveInv

LEMMA active_event_post_Inv ==
  ASSUME ActiveInv, NEW p \in Poster, NEW o \in Actor, NEW front \in BOOLEAN,
         active_event_post(p, o, front)
  PROVE  ActiveInv'
<1> DEFINE P == [op |-> "post", event |-> Has(p), to |-> <<o>>, front |-> front, guard |-> FALSE]
<1>1. Has(p) \in StateEvent
  BY ActiveAssumption DEF active_event_post, may_post, StateEvent
<1>2. P \in Posting /\ PostOK(P)
  BY <1>1 DEF Posting, PostOK
<1>3. P.op = "post" /\ P.event = Has(p) /\ ~ P.guard
  OBVIOUS
<1>4. /\ may_post(p) /\ ref_count' = counted_up(Has(p)) /\ posting' = [posting EXCEPT ![p] = P]
      /\ give_away(p) /\ UNCHANGED <<objectVars, pool_free, listeners, timed, lost>>
  BY DEF active_event_post
<1> HIDE DEF P
<1> QED
  BY <1>2, <1>3, <1>4, PostCall

LEMMA active_queue_event_broadcast_Inv ==
  ASSUME ActiveInv, NEW p \in Poster, active_queue_event_broadcast(p)
  PROVE  ActiveInv'
<1> DEFINE P == [op |-> IF listeners = <<>> THEN "collect" ELSE "ref",
                 event |-> Has(p), to |-> listeners, front |-> FALSE, guard |-> TRUE]
<1>1. Has(p) \in StateEvent /\ listeners \in Seq(Actor)
  BY ActiveAssumption DEF ActiveInv, ActiveTypes, active_queue_event_broadcast, may_post, StateEvent
<1>2. P \in Posting /\ PostOK(P)
  BY <1>1 DEF Posting, PostOK
<1>3. P.op \in {"ref", "collect"} /\ P.event = Has(p)
  OBVIOUS
<1>4. /\ may_post(p) /\ ref_count' = counted_up(Has(p)) /\ posting' = [posting EXCEPT ![p] = P]
      /\ give_away(p) /\ UNCHANGED <<objectVars, pool_free, listeners, timed, lost>>
  BY DEF active_queue_event_broadcast
<1> HIDE DEF P
<1> QED
  BY <1>2, <1>3, <1>4, PostCall

\* The facts about a call under way that its next step needs.
LEMMA UnderWay ==
  ASSUME ActiveInv, NEW p \in Poster, posting[p].op \notin {"none", "error"}
  PROVE  /\ posting[p] \in Posting /\ PostOK(posting[p]) /\ posting[p].event \in StateEvent
         /\ posting[p].event \in Counted =>
              /\ posting[p].event \notin pool_free
              /\ references(posting[p].event) \in Nat /\ references(posting[p].event) >= 1
              /\ ref_count[posting[p].event] = references(posting[p].event)
              /\ \A c \in Client : held[c] # posting[p].event
         /\ posting[p].event \in Counted =>
              \A q \in Poster : q # p /\ posting[q].op = "release" => posting[q].event # posting[p].event
<1>1. ActiveTypes /\ posting[p] \in Posting /\ PostOK(posting[p]) /\ posting[p].event \in StateEvent
  BY DEF ActiveInv, ActiveTypes, PostOK
<1>2. ASSUME NEW e \in Counted, posting[p].event = e
      PROVE  /\ e \notin pool_free /\ references(e) \in Nat /\ references(e) >= 1
             /\ ref_count[e] = references(e) /\ \A c \in Client : held[c] # e
             /\ \A q \in Poster : q # p /\ posting[q].op = "release" => posting[q].event # e
  <2>1. Uses(posting[p], e) >= 1
    BY <1>1, <1>2, UsesNumber
  <2>2. references(e) >= 1 /\ references(e) \in Nat
    BY <1>1, <2>1, Referenced, Numbers
  <2>3. e \notin pool_free /\ ref_count[e] = references(e) /\ \A c \in Client : held[c] # e
    BY <2>2 DEF ActiveInv, EventRefsOK, HeldOK
  <2>4. ASSUME NEW q \in Poster, q # p, posting[q].op = "release", posting[q].event = e PROVE FALSE
    <3>1. references(e) >= 2
      BY <1>1, <1>2, <2>4, ReferencedTwice
    <3>2. ref_count[e] = 1
      BY <2>4 DEF ActiveInv, EventRefsOK
    <3> QED
      BY <2>3, <3>1, <3>2
  <2> QED
    BY <2>2, <2>3, <2>4
<1> QED
  BY <1>1, <1>2

LEMMA count_reference_Inv ==
  ASSUME ActiveInv, NEW p \in Poster, count_reference(p)
  PROVE  ActiveInv'
<1> DEFINE P == [posting[p] EXCEPT !.op = "post"]
<1>1. /\ ActiveTypes /\ posting[p].op = "ref" /\ posting[p] \in Posting /\ PostOK(posting[p])
      /\ posting[p].event \in StateEvent /\ ref_count' = counted_up(posting[p].event)
      /\ posting' = [posting EXCEPT ![p] = P]
      /\ UNCHANGED <<active_queue, deferred, executing, held, pool_free, listeners, timed, lost>>
  BY UnderWay DEF ActiveInv, count_reference, objectVars
<1>2. PICK R \in Posting : R = P
  BY <1>1 DEF Posting
<1>3. /\ R.op = "post" /\ R.event = posting[p].event /\ R.guard /\ posting[p].guard
      /\ R.to # <<>> /\ PostOK(R)
  BY <1>1, <1>2 DEF Posting, PostOK
<1>4. /\ \A q \in Poster : posting'[q] = IF q = p THEN R ELSE posting[q]
      /\ posting' \in [Poster -> Posting]
  BY <1>1, <1>2 DEF ActiveTypes
<1>5. ActiveTypes'
  <2>1. ref_count' \in [PoolEvent -> Nat]
    BY <1>1 DEF ActiveTypes, counted_up
  <2>2. \A q \in Poster : PostOK(posting'[q])
    BY <1>1, <1>3, <1>4 DEF ActiveTypes
  <2> QED
    BY <1>1, <1>4, <2>1, <2>2 DEF ActiveTypes
<1>6. \A e \in PoolEvent : Uses(R, e) = Uses(posting[p], e) + One(e = R.event)
  BY <1>1, <1>3 DEF Uses, One
<1>7. /\ R.event \in Counted => R.event \notin pool_free
      /\ R.event \in Counted => \A q \in Poster : posting[q].op = "release" => posting[q].event # R.event
      /\ \A c \in Client : held'[c] \in Counted => held'[c] = held[c] /\ held[c] # R.event
  <2>1. R.event \in Counted =>
          /\ R.event \notin pool_free /\ \A c \in Client : held[c] # R.event
          /\ \A q \in Poster : q # p /\ posting[q].op = "release" => posting[q].event # R.event
    BY <1>1, <1>3, UnderWay
  <2> QED
    BY <1>1, <2>1
<1>8. HeldOK' /\ EventRefsOK'
  BY <1>1, <1>3, <1>4, <1>6, <1>7, CountedUp
<1> QED
  BY <1>5, <1>8 DEF ActiveInv

\* A post that is made has given its reference to the queue.
LEMMA AfterPost ==
  ASSUME NEW Q \in Posting, PostOK(Q), Q.op = "post"
  PROVE  /\ after_post(Q) \in Posting /\ PostOK(after_post(Q)) /\ after_post(Q).op # "release"
         /\ \A e \in PoolEvent : Uses(after_post(Q), e) = Uses(Q, e) - One(Q.event = e)
<1>1. PICK t \in Seq(Actor) : t = Q.to
  BY DEF Posting
<1>2. PICK n \in Nat : n = Len(t)
  BY <1>1
<1>3. Q.event \in StateEvent /\ Q.guard \in BOOLEAN /\ Q.front \in BOOLEAN /\ n # 0
  <2>1. Q.to # <<>> /\ Q.event \in StateEvent
    BY DEF PostOK
  <2> QED
    BY <1>1, <1>2, <2>1, EmptySeq DEF Posting
<1>4. CASE n > 1
  <2>1. Q.guard
    <3>1. ~ Q.guard => n = 1
      BY <1>1, <1>2 DEF PostOK
    <3>2. ~ Q.guard => FALSE
      BY <1>4, <3>1
    <3> QED
      BY <3>2
  <2>2. Tail(t) \in Seq(Actor) /\ Tail(t) # <<>>
    <3>1. Tail(t) \in Seq(Actor) /\ Len(Tail(t)) = n - 1
      BY <1>1, <1>2, <1>3
    <3>2. n - 1 # 0
      BY <1>4
    <3> QED
      BY <3>1, <3>2, EmptySeq
  <2>3. after_post(Q) = [Q EXCEPT !.op = "ref", !.to = Tail(t)]
    BY <1>1, <1>2, <1>4 DEF after_post
  <2>4. PICK R : R = [Q EXCEPT !.op = "ref", !.to = Tail(t)]
    OBVIOUS
  <2>5. R \in Posting /\ R.op = "ref" /\ R.event = Q.event /\ R.guard = Q.guard /\ R.to = Tail(t)
    BY <2>2, <2>4 DEF Posting
  <2>6. PostOK(R)
    BY <1>3, <2>1, <2>2, <2>5 DEF PostOK
  <2>7. \A e \in PoolEvent : Uses(R, e) = Uses(Q, e) - One(Q.event = e)
    BY <2>1, <2>5 DEF Uses, One
  <2> QED
    BY <2>3, <2>4, <2>5, <2>6, <2>7
<1>5. CASE ~ (n > 1) /\ Q.guard
  <2>1. after_post(Q) = [Q EXCEPT !.op = "collect", !.to = <<>>]
    BY <1>1, <1>2, <1>5 DEF after_post
  <2>2. PICK R : R = [Q EXCEPT !.op = "collect", !.to = <<>>]
    OBVIOUS
  <2>3. R \in Posting /\ R.op = "collect" /\ R.event = Q.event /\ R.guard
    <3>1. <<>> \in Seq(Actor)
      OBVIOUS
    <3> QED
      BY <1>3, <1>5, <2>2, <3>1 DEF Posting
  <2>4. PostOK(R)
    BY <1>3, <2>3 DEF PostOK
  <2>5. \A e \in PoolEvent : Uses(R, e) = Uses(Q, e) - One(Q.event = e)
    BY <1>5, <2>3 DEF Uses, One
  <2> QED
    BY <2>1, <2>2, <2>3, <2>4, <2>5
<1>6. CASE ~ (n > 1) /\ ~ Q.guard
  <2>1. after_post(Q) = NoPost
    BY <1>1, <1>2, <1>6 DEF after_post
  <2>2. \A e \in PoolEvent : Uses(Q, e) - One(Q.event = e) = 0
    BY <1>6 DEF Uses, One
  <2> QED
    BY <2>1, <2>2, NoPostFacts
<1> QED
  BY <1>4, <1>5, <1>6

\* The sum of the five counts after a step that changes each of them.
LEMMA Reckoning ==
  ASSUME NEW x1 \in Nat, NEW x2 \in Nat, NEW x4 \in Nat, NEW y1 \in Nat, NEW y2 \in Nat,
         NEW z1 \in Nat, NEW z2 \in Nat, NEW i1 \in Int, NEW i2 \in Int, NEW j1 \in Nat,
         NEW j2 \in Nat, NEW u \in Nat, NEW w \in Nat, NEW l \in Nat, NEW r \in Nat,
         y1 + y2 = z1 + z2 - i1 + i2, r = x4 + x1 + x2 + z1 + z2
  PROVE  (x4 + l) + (x1 - u + w) + (x2 - j1 + j2) + y1 + y2 = r + l - u + w - j1 + j2 - i1 + i2
<1>1. (x4 + l) + (x1 - u + w) + (x2 - j1 + j2) + y1 + y2
        = (x4 + x1 + x2) + l - u + w - j1 + j2 + (y1 + y2)
  OBVIOUS
<1>2. r = (x4 + x1 + x2) + (z1 + z2)
  OBVIOUS
<1>3. PICK n \in Nat : n = x4 + x1 + x2
  OBVIOUS
<1>4. PICK z \in Nat : z = z1 + z2
  OBVIOUS
<1>5. PICK y \in Nat : y = y1 + y2
  OBVIOUS
<1>6. n + l - u + w - j1 + j2 + y = r + l - u + w - j1 + j2 - i1 + i2
  <2>1. y = z - i1 + i2 /\ r = n + z
    BY <1>2, <1>3, <1>4, <1>5
  <2> QED
    BY <2>1
<1> QED
  BY <1>1, <1>3, <1>5, <1>6

\* What a step does to the references of an event, from the parts that it changes.
LEMMA Moves ==
  ASSUME ActiveTypes, NEW e \in PoolEvent, NEW p \in Poster, NEW P \in Posting,
         \A q \in Poster : posting'[q] = IF q = p THEN P ELSE posting[q],
         NEW o \in Actor, NEW s \in Seq(StateEvent), Len(s) <= ActorQSize,
         \A q \in Actor : active_queue'[q] = IF q = o THEN s ELSE active_queue[q],
         NEW x \in StateEvent \cup {NoEvent},
         \A q \in Actor : executing'[q] = IF q = o THEN x ELSE executing[q],
         NEW l \in Nat, lost'[e] = lost[e] + l
  PROVE  references(e)' = references(e) + l - occurrences(e, active_queue[o]) + occurrences(e, s)
                          - One(executing[o] = e) + One(x = e) - Uses(posting[p], e) + Uses(P, e)
<1>1. PICK x1 \in Nat, x2 \in Nat, x4 \in Nat, z1 \in Nat, z2 \in Nat :
        /\ x1 = Cardinality(InQueues(e)) /\ x2 = Cardinality(Executing(e)) /\ x4 = lost[e]
        /\ z1 = Cardinality(Posts(e)) /\ z2 = Cardinality(Guards(e))
  BY Numbers
<1>2. PICK u \in Nat : u = occurrences(e, active_queue[o])
  BY OccFinite DEF ActiveTypes
<1>3. PICK w \in Nat : w = occurrences(e, s)
  BY OccFinite
<1>4. PICK i1 \in Int, i2 \in Int : i1 = Uses(posting[p], e) /\ i2 = Uses(P, e)
  BY DEF Uses, One
<1>5. PICK j1 \in Nat, j2 \in Nat : j1 = One(executing[o] = e) /\ j2 = One(x = e)
  BY DEF One
<1>6. PICK y1 \in Nat, y2 \in Nat : y1 = Cardinality(Posts(e)') /\ y2 = Cardinality(Guards(e)')
  BY CallCounts
<1>7. Cardinality(InQueues(e)') = x1 - u + w
  BY <1>1, <1>2, <1>3, QueueStep_Counts
<1>8. Cardinality(Executing(e)') = x2 - j1 + j2
  <2>1. Cardinality(Executing(e)') = Cardinality(Executing(e)) - One(executing[o] = e) + One(x = e)
    BY ExecutingStep
  <2> QED
    BY <1>1, <1>5, <2>1
<1>9. y1 + y2 = z1 + z2 - i1 + i2
  BY <1>1, <1>4, <1>6, CallCounts
<1>10. lost'[e] = x4 + l
  BY <1>1
<1>11. references(e)' = lost'[e] + Cardinality(InQueues(e)') + Cardinality(Executing(e)')
                       + Cardinality(Posts(e)') + Cardinality(Guards(e)')
  BY DEF references, InQueues, Executing, Posts, Guards
<1>12. references(e)' = (x4 + l) + (x1 - u + w) + (x2 - j1 + j2) + y1 + y2
  BY <1>6, <1>7, <1>8, <1>10, <1>11
<1>13. PICK r \in Nat : r = references(e)
  BY Numbers
<1>14. r = x4 + x1 + x2 + z1 + z2
  BY <1>1, <1>13, ReferencesAre
<1>15. (x4 + l) + (x1 - u + w) + (x2 - j1 + j2) + y1 + y2 = r + l - u + w - j1 + j2 - i1 + i2
  BY <1>9, <1>14, Reckoning
<1>16. references(e)' = r + l - u + w - j1 + j2 - i1 + i2
  BY <1>12, <1>15
<1> QED
  BY <1>2, <1>3, <1>4, <1>5, <1>13, <1>16

\* A step that takes as much from one place as it brings to another.
LEMMA SameReferences ==
  ASSUME ActiveTypes, NEW e \in PoolEvent, NEW p \in Poster, NEW P \in Posting,
         \A q \in Poster : posting'[q] = IF q = p THEN P ELSE posting[q],
         NEW o \in Actor, NEW s \in Seq(StateEvent), Len(s) <= ActorQSize,
         \A q \in Actor : active_queue'[q] = IF q = o THEN s ELSE active_queue[q],
         NEW x \in StateEvent \cup {NoEvent},
         \A q \in Actor : executing'[q] = IF q = o THEN x ELSE executing[q],
         lost'[e] = lost[e],
         occurrences(e, s) + One(x = e) + Uses(P, e) =
           occurrences(e, active_queue[o]) + One(executing[o] = e) + Uses(posting[p], e)
  PROVE  references(e)' = references(e)
<1>1. PICK u \in Nat : u = occurrences(e, active_queue[o])
  BY OccFinite DEF ActiveTypes
<1>2. PICK w \in Nat : w = occurrences(e, s)
  BY OccFinite
<1>3. PICK i1 \in Int, i2 \in Int : i1 = Uses(posting[p], e) /\ i2 = Uses(P, e)
  BY DEF Uses, One
<1>4. PICK j1 \in Nat, j2 \in Nat : j1 = One(executing[o] = e) /\ j2 = One(x = e)
  BY DEF One
<1>5. PICK r \in Nat : r = references(e)
  BY Numbers
<1>6. PICK n \in Nat : n = 0 /\ lost'[e] = lost[e] + n
  BY DEF ActiveTypes
<1>7. references(e)' = references(e) + n - occurrences(e, active_queue[o]) + occurrences(e, s)
                          - One(executing[o] = e) + One(x = e) - Uses(posting[p], e) + Uses(P, e)
  BY <1>6, Moves, Z3T(60)
<1>8. references(e)' = r + n - u + w - j1 + j2 - i1 + i2
  BY <1>1, <1>2, <1>3, <1>4, <1>5, <1>7
<1>9. w + j2 + i2 = u + j1 + i1
  BY <1>1, <1>2, <1>3, <1>4
<1>10. r + n - u + w - j1 + j2 - i1 + i2 = r
  <2>1. n = 0
    BY <1>6
  <2>2. r + 0 - u + w - j1 + j2 - i1 + i2 = r
    BY <1>9
  <2> QED
    BY <2>1, <2>2
<1> QED
  BY <1>5, <1>8, <1>10

LEMMA post_to_queue_Inv ==
  ASSUME ActiveInv, NEW p \in Poster, post_to_queue(p)
  PROVE  ActiveInv'
<1>1. /\ ActiveTypes /\ posting[p].op = "post" /\ posting[p] \in Posting /\ PostOK(posting[p])
      /\ posting[p].event \in StateEvent
      /\ UNCHANGED <<deferred, executing, held, ref_count, pool_free, listeners, timed, lost>>
  BY UnderWay DEF ActiveInv, post_to_queue, poolVars
<1>2. PICK o \in Actor : o = Head(posting[p].to)
  <2>1. posting[p].to \in Seq(Actor) /\ posting[p].to # <<>>
    BY <1>1 DEF Posting, PostOK
  <2> QED
    BY <2>1
<1>3. CASE queue_refuses(o)
  <2>1. UNCHANGED <<active_queue, posting>>
    BY <1>2, <1>3 DEF post_to_queue
  <2>2. \A e \in PoolEvent : references(e)' = references(e)
    BY <1>1, <2>1 DEF references
  <2> QED
    BY <1>1, <2>1, <2>2, Balanced DEF ActiveInv, ActiveTypes
<1>4. CASE ~ queue_refuses(o)
  <2>1. PICK x \in StateEvent : x = posting[p].event
    BY <1>1
  <2>2. PICK q \in Seq(StateEvent) : q = active_queue[o] /\ Len(q) <= ActorQSize
    BY <1>1 DEF ActiveTypes
  <2>3. Len(q) # ActorQSize /\ ActorQSize \in Nat /\ Len(q) \in Nat
    BY <1>4, <2>2, ActiveAssumption DEF queue_refuses
  <2>4. PICK s \in Seq(StateEvent) :
          /\ s = IF posting[p].front THEN <<x>> \o q ELSE Append(q, x)
          /\ Len(s) = Len(q) + 1
    <3>1. <<x>> \o q \in Seq(StateEvent) /\ Len(<<x>> \o q) = Len(q) + 1
      OBVIOUS
    <3>2. Append(q, x) \in Seq(StateEvent) /\ Len(Append(q, x)) = Len(q) + 1
      OBVIOUS
    <3> QED
      BY <3>1, <3>2
  <2>5. Len(s) <= ActorQSize
    BY <2>2, <2>3, <2>4
  <2>6. \A e \in PoolEvent : occurrences(e, s) = occurrences(e, q) + One(x = e)
    BY <2>4, OccAppend, OccCons
  <2>7. PICK P \in Posting : P = after_post(posting[p])
    BY <1>1, AfterPost
  <2>8. PostOK(P) /\ P.op # "release"
        /\ \A e \in PoolEvent : Uses(P, e) = Uses(posting[p], e) - One(x = e)
    BY <1>1, <2>1, <2>7, AfterPost
  <2>9. active_queue' = [active_queue EXCEPT ![o] = s] /\ posting' = [posting EXCEPT ![p] = P]
    BY <1>2, <1>4, <2>1, <2>2, <2>4, <2>7 DEF post_to_queue
  <2>10. /\ \A a \in Actor : active_queue'[a] = IF a = o THEN s ELSE active_queue[a]
         /\ \A a \in Poster : posting'[a] = IF a = p THEN P ELSE posting[a]
         /\ active_queue' \in [Actor -> Seq(StateEvent)] /\ posting' \in [Poster -> Posting]
    BY <1>1, <2>9 DEF ActiveTypes
  <2>11. ActiveTypes'
    BY <1>1, <2>5, <2>8, <2>10 DEF ActiveTypes
  <2>12. ASSUME NEW e \in PoolEvent PROVE references(e)' = references(e)
    <3>1. PICK x0 \in StateEvent \cup {NoEvent} : x0 = executing[o]
      BY <1>1 DEF ActiveTypes
    <3>2. PICK j \in Nat, u \in Nat, i \in Int, k \in Nat :
            j = One(x = e) /\ u = occurrences(e, q) /\ i = Uses(posting[p], e) /\ k = One(x0 = e)
      <4>1. One(x = e) \in Nat /\ One(x0 = e) \in Nat /\ Uses(posting[p], e) \in Int
        BY DEF One, Uses
      <4>2. occurrences(e, q) \in Nat
        BY OccFinite
      <4> QED
        BY <4>1, <4>2
    <3>3. occurrences(e, s) = u + j /\ Uses(P, e) = i - j
      BY <2>6, <2>8, <3>2
    <3>4. (u + j) + k + (i - j) = u + k + i
      OBVIOUS
    <3>5. occurrences(e, s) + One(x0 = e) + Uses(P, e) =
            occurrences(e, active_queue[o]) + One(executing[o] = e) + Uses(posting[p], e)
      BY <2>2, <3>1, <3>2, <3>3, <3>4
    <3>6. \A a \in Actor : executing'[a] = IF a = o THEN x0 ELSE executing[a]
      BY <1>1, <3>1
    <3>7. lost'[e] = lost[e]
      BY <1>1
    <3>8. /\ \A a \in Actor : active_queue'[a] = IF a = o THEN s ELSE active_queue[a]
          /\ \A a \in Poster : posting'[a] = IF a = p THEN P ELSE posting[a]
      BY <2>10
    <3>9. ActiveTypes
      BY <1>1
    <3> QED
      BY <2>5, <3>5, <3>6, <3>7, <3>8, <3>9, SameReferences, Z3T(60)
  <2>13. \A a \in Poster : posting'[a].op = "release" =>
           posting[a].op = "release" /\ posting'[a].event = posting[a].event
    BY <2>8, <2>10
  <2> QED
    BY <1>1, <2>11, <2>12, <2>13, Balanced DEF ActiveInv
<1> QED
  BY <1>3, <1>4

LEMMA active_event_memory_allocate_Inv ==
  ASSUME ActiveInv, NEW p \in Poster, active_event_memory_allocate(p)
  PROVE  ActiveInv'
<1>1. PICK e \in pool_free : /\ pool_free' = pool_free \ {e}
                             /\ ref_count' = [ref_count EXCEPT ![e] = 0]
                             /\ held' = [held EXCEPT ![p] = e]
  BY DEF active_event_memory_allocate
<1>2. /\ ActiveTypes /\ p \in Client /\ held[p] = NoEvent /\ e \in PoolEvent
      /\ UNCHANGED <<active_queue, deferred, executing, posting, listeners, timed, lost>>
  BY <1>1 DEF ActiveInv, ActiveTypes, active_event_memory_allocate, objectVars
<1>3. ActiveTypes'
  BY <1>1, <1>2 DEF ActiveTypes
<1>4. /\ \A c \in Client : held'[c] = IF c = p THEN e ELSE held[c]
      /\ \A f \in PoolEvent : ref_count'[f] = IF f = e THEN 0 ELSE ref_count[f]
      /\ \A f \in PoolEvent : references(f)' = references(f)
      /\ e \in Counted => references(e) = 0 /\ \A c \in Client : held[c] # e
  <2>1. \A f \in PoolEvent : references(f)' = references(f)
    BY <1>2 DEF references
  <2>2. e \in Counted => references(e) = 0 /\ \A c \in Client : held[c] # e
    BY <1>2 DEF ActiveInv, EventRefsOK
  <2> QED
    BY <1>1, <1>2, <2>1, <2>2 DEF ActiveTypes
<1>5. HeldOK'
  <2> SUFFICES ASSUME NEW c \in Client, NEW f \in Counted, held'[c] = f
               PROVE  /\ f \notin pool_free' /\ references(f)' = 0
                      /\ \A q \in Client : held'[q] = f => q = c
    BY DEF HeldOK
  <2>1. CASE f = e
    BY <1>1, <1>4, <2>1
  <2>2. CASE f # e
    <3>1. held[c] = f
      BY <1>4, <2>2
    <3>2. f \notin pool_free /\ references(f) = 0 /\ \A q \in Client : held[q] = f => q = c
      BY <3>1 DEF ActiveInv, HeldOK
    <3> QED
      BY <1>1, <1>4, <2>2, <3>2
  <2> QED
    BY <2>1, <2>2
<1>6. EventRefsOK'
  <2>1. ASSUME NEW f \in Counted, f \notin pool_free' PROVE ref_count'[f] = references(f)'
    BY <1>1, <1>4, <2>1 DEF ActiveInv, EventRefsOK
  <2>2. ASSUME NEW f \in Counted, f \in pool_free'
        PROVE  references(f)' = 0 /\ \A c \in Client : held'[c] # f
    BY <1>1, <1>4, <2>2 DEF ActiveInv, EventRefsOK
  <2>3. ASSUME NEW q \in Poster, posting'[q].op = "release", posting'[q].event \in Counted
        PROVE  ref_count'[posting'[q].event] = 1
    <3>1. posting'[q] = posting[q] /\ posting[q].op = "release"
      BY <1>2, <2>3
    <3>2. posting[q].event \in Counted
      BY <2>3, <3>1
    <3>3. posting[q].event \notin pool_free
      BY <3>1, <3>2, UnderWay
    <3>4. ref_count[posting[q].event] = 1
      BY <3>1, <3>2 DEF ActiveInv, EventRefsOK
    <3> QED
      BY <1>1, <1>4, <3>1, <3>2, <3>3, <3>4
  <2> QED
    BY <2>1, <2>2, <2>3 DEF EventRefsOK
<1> QED
  BY <1>3, <1>5, <1>6 DEF ActiveInv

LEMMA active_event_get_Inv ==
  ASSUME ActiveInv, NEW o \in Actor, active_event_get(o)
  PROVE  ActiveInv'
<1>1. /\ ActiveTypes /\ executing[o] = NoEvent /\ active_queue[o] # <<>>
      /\ executing' = [executing EXCEPT ![o] = Head(active_queue[o])]
      /\ active_queue' = [active_queue EXCEPT ![o] = Tail(@)]
      /\ UNCHANGED <<deferred, held, posting, ref_count, pool_free, listeners, timed, lost>>
  BY DEF ActiveInv, active_event_get, poolVars
<1>2. PICK q \in Seq(StateEvent) : q = active_queue[o] /\ Len(q) <= ActorQSize /\ q # <<>>
  BY <1>1 DEF ActiveTypes
<1>3. PICK x \in StateEvent \cup {NoEvent}, s \in Seq(StateEvent) :
        x = Head(q) /\ x \in StateEvent /\ s = Tail(q) /\ Len(s) = Len(q) - 1 /\ Len(q) \in Nat
  <2>1. Head(q) \in StateEvent /\ Tail(q) \in Seq(StateEvent) /\ Len(Tail(q)) = Len(q) - 1 /\ Len(q) \in Nat
    BY <1>2
  <2> QED
    BY <2>1
<1>4. Len(s) <= ActorQSize
  BY <1>2, <1>3, ActiveAssumption
<1>5. /\ \A a \in Actor : active_queue'[a] = IF a = o THEN s ELSE active_queue[a]
      /\ \A a \in Actor : executing'[a] = IF a = o THEN x ELSE executing[a]
      /\ active_queue' \in [Actor -> Seq(StateEvent)]
      /\ executing' \in [Actor -> StateEvent \cup {NoEvent}]
  BY <1>1, <1>2, <1>3 DEF ActiveTypes
<1>6. ActiveTypes'
  BY <1>1, <1>4, <1>5 DEF ActiveTypes
<1>7. ASSUME NEW e \in PoolEvent PROVE references(e)' = references(e)
  <2>1. o \in Poster
    BY DEF Poster
  <2>2. PICK P \in Posting : P = posting[o]
    BY <1>1, <2>1 DEF ActiveTypes
  <2>3. \A a \in Poster : posting'[a] = IF a = o THEN P ELSE posting[a]
    BY <1>1, <2>2
  <2>4. PICK j \in Nat, u \in Nat, i \in Int :
          j = One(x = e) /\ u = occurrences(e, q) /\ i = Uses(P, e)
    <3>1. One(x = e) \in Nat /\ Uses(P, e) \in Int
      BY DEF One, Uses
    <3>2. occurrences(e, q) \in Nat
      BY OccFinite
    <3> QED
      BY <3>1, <3>2
  <2>5. occurrences(e, s) = u - j
    BY <1>2, <1>3, <2>4, OccTail
  <2>6. One(executing[o] = e) = 0
    BY <1>1, ActiveAssumption DEF One
  <2>7. (u - j) + j + i = u + 0 + i
    OBVIOUS
  <2>8. occurrences(e, s) + One(x = e) + Uses(P, e) =
          occurrences(e, active_queue[o]) + One(executing[o] = e) + Uses(posting[o], e)
    BY <1>2, <2>2, <2>4, <2>5, <2>6, <2>7
  <2>9. lost'[e] = lost[e]
    BY <1>1
  <2> QED
    <3>1. ActiveTypes
      BY <1>1
    <3>2. /\ \A a \in Actor : active_queue'[a] = IF a = o THEN s ELSE active_queue[a]
          /\ \A a \in Actor : executing'[a] = IF a = o THEN x ELSE executing[a]
      BY <1>5
    <3> QED
      BY <1>4, <2>1, <2>3, <2>8, <2>9, <3>1, <3>2, SameReferences, Z3T(60)
<1> QED
  BY <1>1, <1>6, <1>7, Balanced DEF ActiveInv

LEMMA executed_Inv ==
  ASSUME ActiveInv, NEW o \in Actor, executed(o)
  PROVE  ActiveInv'
<1> DEFINE R == [op |-> "collect", event |-> executing[o], to |-> <<>>, front |-> FALSE, guard |-> TRUE]
<1>1. /\ ActiveTypes /\ executing[o] # NoEvent /\ posting[o] = NoPost /\ o \in Poster
      /\ posting' = [posting EXCEPT ![o] = R] /\ executing' = [executing EXCEPT ![o] = NoEvent]
      /\ UNCHANGED <<active_queue, deferred, held, ref_count, pool_free, listeners, timed, lost>>
  BY DEF ActiveInv, executed, poolVars, Poster
<1>2. executing[o] \in StateEvent
  BY <1>1 DEF ActiveTypes
<1>3. R \in Posting /\ PostOK(R) /\ R.op = "collect" /\ R.event = executing[o] /\ R.guard
  <2>1. <<>> \in Seq(Actor)
    OBVIOUS
  <2> QED
    BY <1>2, <2>1 DEF Posting, PostOK
<1> HIDE DEF R
<1>4. PICK P \in Posting, x \in StateEvent \cup {NoEvent}, s \in Seq(StateEvent) :
        P = R /\ x = NoEvent /\ s = active_queue[o]
  BY <1>1, <1>3 DEF ActiveTypes
<1>5. /\ \A a \in Poster : posting'[a] = IF a = o THEN P ELSE posting[a]
      /\ \A a \in Actor : executing'[a] = IF a = o THEN x ELSE executing[a]
      /\ \A a \in Actor : active_queue'[a] = IF a = o THEN s ELSE active_queue[a]
      /\ posting' \in [Poster -> Posting] /\ executing' \in [Actor -> StateEvent \cup {NoEvent}]
  BY <1>1, <1>4 DEF ActiveTypes
<1>6. ActiveTypes'
  BY <1>1, <1>3, <1>4, <1>5 DEF ActiveTypes
<1>7. ASSUME NEW e \in PoolEvent PROVE references(e)' = references(e)
  <2>1. PICK u \in Nat : u = occurrences(e, s)
    BY OccFinite
  <2>2. PICK j \in Nat : j = One(executing[o] = e)
    BY DEF One
  <2>3. Uses(P, e) = j
    BY <1>3, <1>4, <2>2 DEF Uses, One
  <2>4. Uses(posting[o], e) = 0
    BY <1>1, NoPostFacts
  <2>5. One(x = e) = 0
    BY <1>4, ActiveAssumption DEF One
  <2>6. u + 0 + j = u + j + 0
    OBVIOUS
  <2>7. occurrences(e, s) + One(x = e) + Uses(P, e) =
          occurrences(e, active_queue[o]) + One(executing[o] = e) + Uses(posting[o], e)
    BY <1>4, <2>1, <2>2, <2>3, <2>4, <2>5, <2>6
  <2>8. lost'[e] = lost[e] /\ Len(s) <= ActorQSize
    BY <1>1, <1>4 DEF ActiveTypes
  <2>9. ActiveTypes /\ o \in Poster
    BY <1>1
  <2> QED
    BY <1>5, <2>7, <2>8, <2>9, SameReferences, Z3T(60)
<1>8. \A a \in Poster : posting'[a].op = "release" =>
        posting[a].op = "release" /\ posting'[a].event = posting[a].event
  BY <1>3, <1>4, <1>5
<1> QED
  BY <1>1, <1>6, <1>7, <1>8, Balanced DEF ActiveInv

\* A call that ends: its last reference is counted down or goes with the block.
LEMMA Ends ==
  ASSUME ActiveInv, NEW p \in Poster, posting[p].op \in {"collect", "release"},
         \A q \in Poster : posting'[q] = IF q = p THEN NoPost ELSE posting[q],
         UNCHANGED <<active_queue, executing, lost>>
  PROVE  \A e \in PoolEvent :
           /\ e = posting[p].event => references(e)' = references(e) - 1
           /\ e # posting[p].event => references(e)' = references(e)
<1>1. ActiveTypes /\ posting[p] \in Posting /\ PostOK(posting[p]) /\ posting[p].op \notin {"none", "post"}
  BY DEF ActiveInv, ActiveTypes
<1>2. PICK P \in Posting : P = NoPost
  BY NoPostFacts
<1> SUFFICES ASSUME NEW e \in PoolEvent
             PROVE  /\ e = posting[p].event => references(e)' = references(e) - 1
                    /\ e # posting[p].event => references(e)' = references(e)
  OBVIOUS
<1>3. references(e)' = references(e) - Uses(posting[p], e) + Uses(P, e)
  BY <1>1, <1>2, CallOnly
<1>4. Uses(P, e) = 0
  BY <1>2, NoPostFacts
<1>5. PICK r \in Nat : r = references(e)
  BY <1>1, Numbers
<1>6. CASE e = posting[p].event
  <2>1. Uses(posting[p], e) = 1
    BY <1>1, <1>6, UsesNumber
  <2>2. references(e)' = r - 1 + 0
    BY <1>3, <1>4, <1>5, <2>1
  <2> QED
    BY <1>5, <1>6, <2>2
<1>7. CASE e # posting[p].event
  <2>1. Uses(posting[p], e) = 0
    BY <1>1, <1>7, UsesNumber
  <2>2. references(e)' = r - 0 + 0
    BY <1>3, <1>4, <1>5, <2>1
  <2> QED
    BY <1>5, <1>7, <2>2
<1> QED
  BY <1>6, <1>7

LEMMA active_memory_collect_Inv ==
  ASSUME ActiveInv, NEW p \in Poster, active_memory_collect(p)
  PROVE  ActiveInv'
<1>1. /\ ActiveTypes /\ posting[p].op = "collect" /\ posting[p] \in Posting /\ PostOK(posting[p])
      /\ posting[p].event \in StateEvent
      /\ UNCHANGED <<active_queue, deferred, executing, held, pool_free, listeners, timed, lost>>
  BY UnderWay DEF ActiveInv, active_memory_collect, objectVars
<1>2. PICK f \in StateEvent : f = posting[p].event
  BY <1>1
<1>3. /\ f \in Counted => \A q \in Poster : q # p /\ posting[q].op = "release" => posting[q].event # f
      /\ f \in Counted => /\ f \notin pool_free /\ references(f) \in Nat /\ references(f) >= 1
                            /\ ref_count[f] = references(f) /\ \A c \in Client : held[c] # f
  BY <1>1, <1>2, UnderWay
<1>4. ASSUME posting' = [posting EXCEPT ![p] = NoPost]
      PROVE  /\ \A q \in Poster : posting'[q] = IF q = p THEN NoPost ELSE posting[q]
             /\ posting' \in [Poster -> Posting] /\ \A q \in Poster : PostOK(posting'[q])
             /\ \A q \in Poster : posting'[q].op = "release" =>
                  q # p /\ posting[q].op = "release" /\ posting'[q] = posting[q]
  BY <1>1, <1>4, NoPostFacts DEF ActiveTypes
<1>5. CASE f \notin PoolEvent
  <2>1. posting' = [posting EXCEPT ![p] = NoPost] /\ ref_count' = ref_count
    BY <1>2, <1>5 DEF active_memory_collect
  <2>2. ActiveTypes'
    BY <1>1, <1>4, <2>1 DEF ActiveTypes
  <2>3. \A e \in PoolEvent : references(e)' = references(e)
    BY <1>1, <1>2, <1>4, <1>5, <2>1, Ends
  <2> QED
    BY <1>1, <1>4, <2>1, <2>2, <2>3, Balanced DEF ActiveInv
<1>6. CASE f \in PoolEvent /\ ref_count[f] > 1
  <2>1. posting' = [posting EXCEPT ![p] = NoPost] /\ ref_count' = [ref_count EXCEPT ![f] = @ - 1]
    BY <1>2, <1>6 DEF active_memory_collect
  <2>2. /\ ref_count' \in [PoolEvent -> Nat] /\ ref_count'[f] = ref_count[f] - 1
        /\ \A e \in PoolEvent : e # f => ref_count'[e] = ref_count[e]
    BY <1>1, <1>6, <2>1 DEF ActiveTypes
  <2>3. ActiveTypes'
    BY <1>1, <1>4, <2>1, <2>2 DEF ActiveTypes
  <2>4. \A e \in PoolEvent : /\ e = f => references(e)' = references(e) - 1
                             /\ e # f => references(e)' = references(e)
    BY <1>1, <1>2, <1>4, <2>1, Ends
  <2>5. HeldOK'
    <3> SUFFICES ASSUME NEW c \in Client, NEW e \in Counted, held[c] = e
                 PROVE  /\ e \notin pool_free /\ references(e)' = 0
                        /\ \A q \in Client : held[q] = e => q = c
      BY <1>1 DEF HeldOK
    <3> QED
      BY <1>3, <1>6, <2>4 DEF ActiveInv, HeldOK
  <2>6. EventRefsOK'
    <3>1. ASSUME NEW e \in Counted, e \notin pool_free PROVE ref_count'[e] = references(e)'
      <4>1. ref_count[e] = references(e)
        BY <3>1 DEF ActiveInv, EventRefsOK
      <4> QED
        BY <2>2, <2>4, <4>1
    <3>2. ASSUME NEW e \in Counted, e \in pool_free
          PROVE  references(e)' = 0 /\ \A c \in Client : held[c] # e
      <4>1. references(e) = 0 /\ (\A c \in Client : held[c] # e) /\ e # f
        BY <1>3, <3>2 DEF ActiveInv, EventRefsOK
      <4> QED
        BY <2>4, <4>1
    <3>3. ASSUME NEW q \in Poster, posting'[q].op = "release", posting'[q].event \in Counted
          PROVE  ref_count'[posting'[q].event] = 1
      <4>1. q # p /\ posting'[q] = posting[q] /\ posting[q].op = "release"
        BY <1>4, <2>1, <3>3
      <4>2. posting[q].event \in Counted /\ posting[q].event # f
        BY <1>3, <3>3, <4>1
      <4>3. ref_count[posting[q].event] = 1
        BY <4>1, <4>2 DEF ActiveInv, EventRefsOK
      <4> QED
        BY <2>2, <4>1, <4>2, <4>3
    <3> QED
      BY <1>1, <3>1, <3>2, <3>3 DEF EventRefsOK
  <2> QED
    BY <2>3, <2>5, <2>6 DEF ActiveInv
<1>7. CASE f \in PoolEvent /\ ~ (ref_count[f] > 1)
  <2>1. posting' = [posting EXCEPT ![p].op = "release"] /\ ref_count' = ref_count
    BY <1>2, <1>7 DEF active_memory_collect
  <2>2. PICK P : P = [posting[p] EXCEPT !.op = "release"]
    OBVIOUS
  <2>3. P \in Posting /\ P.op = "release" /\ P.event = f /\ P.guard = posting[p].guard /\ P.to = posting[p].to
    BY <1>1, <1>2, <2>2 DEF Posting
  <2>4. PostOK(P)
    BY <1>1, <1>2, <1>7, <2>3 DEF PostOK
  <2>5. /\ \A q \in Poster : posting'[q] = IF q = p THEN P ELSE posting[q]
        /\ posting' \in [Poster -> Posting]
    BY <1>1, <2>1, <2>2, <2>3 DEF ActiveTypes
  <2>6. ActiveTypes'
    BY <1>1, <2>1, <2>4, <2>5 DEF ActiveTypes
  <2>7. \A e \in PoolEvent : references(e)' = references(e)
    <3> SUFFICES ASSUME NEW e \in PoolEvent PROVE references(e)' = references(e)
      OBVIOUS
    <3>1. Uses(P, e) = Uses(posting[p], e)
      BY <1>1, <1>2, <2>3 DEF Uses
    <3>2. PICK i \in Int, r \in Nat : i = Uses(P, e) /\ r = references(e)
      <4>1. Uses(P, e) \in Int
        BY DEF Uses, One
      <4> QED
        BY <1>1, <4>1, Numbers
    <3>3. references(e)' = references(e) - Uses(posting[p], e) + Uses(P, e)
      BY <1>1, <2>3, <2>5, CallOnly
    <3>4. references(e)' = r - i + i
      BY <3>1, <3>2, <3>3
    <3> QED
      BY <3>2, <3>4
  <2>8. f \in Counted => ref_count[f] = 1
    BY <1>3, <1>7
  <2>9. HeldOK'
    BY <1>1, <2>7 DEF ActiveInv, HeldOK
  <2>10. EventRefsOK'
    <3>1. ASSUME NEW q \in Poster, posting'[q].op = "release", posting'[q].event \in Counted
          PROVE  ref_count[posting'[q].event] = 1
      BY <1>7, <2>3, <2>5, <2>8, <3>1 DEF ActiveInv, EventRefsOK
    <3>2. ASSUME NEW e \in Counted
          PROVE  /\ e \notin pool_free => ref_count[e] = references(e)
                 /\ e \in pool_free => references(e) = 0 /\ \A c \in Client : held[c] # e
      BY DEF ActiveInv, EventRefsOK
    <3> QED
      BY <1>1, <2>1, <2>7, <3>1, <3>2 DEF EventRefsOK
  <2> QED
    BY <2>6, <2>9, <2>10 DEF ActiveInv
<1> QED
  BY <1>5, <1>6, <1>7

\* A step that leaves the events where they are.
LEMMA Elsewhere ==
  ASSUME ActiveInv, ActiveTypes',
         UNCHANGED <<active_queue, executing, held, posting, ref_count, pool_free, lost>>
  PROVE  ActiveInv'
<1>1. \A e \in PoolEvent : references(e)' = references(e)
  BY DEF references
<1> QED
  BY <1>1, Balanced DEF ActiveInv

LEMMA release_event_Inv ==
  ASSUME ActiveInv, NEW p \in Poster, release_event(p)
  PROVE  ActiveInv'
<1>1. /\ ActiveTypes /\ posting[p].op = "release" /\ posting[p].event \in PoolEvent
      /\ UNCHANGED <<active_queue, deferred, executing, held, listeners, timed, lost>>
  BY DEF ActiveInv, ActiveTypes, PostOK, release_event, objectVars
<1>2. PICK f \in PoolEvent : f = posting[p].event
  BY <1>1
<1>3. CASE ref_count[f] # 1
  <2>1. UNCHANGED <<ref_count, pool_free, posting>>
    BY <1>2, <1>3 DEF release_event, poolVars
  <2>2. ActiveTypes'
    BY <1>1, <2>1 DEF ActiveTypes
  <2> QED
    BY <1>1, <2>1, <2>2, Elsewhere
<1>4. CASE ref_count[f] = 1
  <2>1. /\ pool_free' = pool_free \cup {f} /\ ref_count' = [ref_count EXCEPT ![f] = 0]
        /\ posting' = [posting EXCEPT ![p] = NoPost]
    BY <1>2, <1>4 DEF release_event
  <2>2. f \in Counted =>
          /\ \A q \in Poster : q # p /\ posting[q].op = "release" => posting[q].event # f
          /\ references(f) = 1 /\ \A c \in Client : held[c] # f
    BY <1>1, <1>2, <1>4, UnderWay
  <2>3. /\ \A q \in Poster : posting'[q] = IF q = p THEN NoPost ELSE posting[q]
        /\ posting' \in [Poster -> Posting] /\ \A q \in Poster : PostOK(posting'[q])
        /\ \A q \in Poster : posting'[q].op = "release" =>
             q # p /\ posting[q].op = "release" /\ posting'[q] = posting[q]
    BY <1>1, <2>1, NoPostFacts DEF ActiveTypes
  <2>4. /\ ref_count' \in [PoolEvent -> Nat]
        /\ \A e \in PoolEvent : e # f => ref_count'[e] = ref_count[e]
    <3>1. ref_count \in [PoolEvent -> Nat]
      BY <1>1 DEF ActiveTypes
    <3> QED
      BY <2>1, <3>1
  <2>5. ActiveTypes'
    <3>1. pool_free' \in SUBSET PoolEvent
      BY <1>1, <2>1 DEF ActiveTypes
    <3> QED
      BY <1>1, <2>3, <2>4, <3>1 DEF ActiveTypes
  <2>6. /\ f \in Counted => references(f)' = 0
        /\ \A e \in PoolEvent : e # f => references(e)' = references(e)
    <3>1. \A e \in PoolEvent : /\ e = f => references(e)' = references(e) - 1
                               /\ e # f => references(e)' = references(e)
      BY <1>1, <1>2, <2>3, Ends
    <3> QED
      BY <2>2, <3>1
  <2>7. HeldOK'
    BY <1>1, <2>1, <2>2, <2>6 DEF ActiveInv, HeldOK
  <2>8. EventRefsOK'
    <3>1. ASSUME NEW e \in Counted, e \notin pool_free' PROVE ref_count'[e] = references(e)'
      BY <2>1, <2>4, <2>6, <3>1 DEF ActiveInv, EventRefsOK
    <3>2. ASSUME NEW e \in Counted, e \in pool_free'
          PROVE  references(e)' = 0 /\ \A c \in Client : held[c] # e
      BY <2>1, <2>2, <2>6, <3>2 DEF ActiveInv, EventRefsOK
    <3>3. ASSUME NEW q \in Poster, posting'[q].op = "release", posting'[q].event \in Counted
          PROVE  ref_count'[posting'[q].event] = 1
      <4>1. q # p /\ posting'[q] = posting[q] /\ posting[q].op = "release"
        BY <2>3, <3>3
      <4>2. posting[q].event \in Counted /\ posting[q].event # f
        BY <2>2, <3>3, <4>1
      <4>3. ref_count[posting[q].event] = 1
        BY <4>1, <4>2 DEF ActiveInv, EventRefsOK
      <4> QED
        BY <2>4, <4>1, <4>2, <4>3
    <3> QED
      BY <1>1, <3>1, <3>2, <3>3 DEF EventRefsOK
  <2> QED
    BY <2>5, <2>7, <2>8 DEF ActiveInv
<1> QED
  BY <1>3, <1>4

LEMMA active_event_defer_post_Inv ==
  ASSUME ActiveInv, NEW o \in Actor, active_event_defer_post(o)
  PROVE  ActiveInv'
<1>1. /\ ActiveTypes /\ executing[o] \in Deferrable
      /\ deferred' = deferred \/ deferred' = [deferred EXCEPT ![o] = Append(@, executing[o])]
      /\ UNCHANGED <<active_queue, executing, held, posting, ref_count, pool_free, listeners, timed, lost>>
  BY DEF ActiveInv, active_event_defer_post, poolVars
<1>2. PICK x \in StateEvent : x = executing[o] /\ x \in Deferrable
  BY <1>1, ActiveAssumption DEF StateEvent
<1>3. PICK q \in Seq(StateEvent) : q = deferred[o] /\ \A i \in 1 .. Len(q) : q[i] \in Deferrable
  BY <1>1 DEF ActiveTypes
<1>4. /\ Append(q, x) \in Seq(StateEvent)
      /\ \A i \in 1 .. Len(Append(q, x)) : Append(q, x)[i] \in Deferrable
  <2>1. /\ Append(q, x) \in Seq(StateEvent) /\ Len(Append(q, x)) = Len(q) + 1
        /\ Append(q, x)[Len(q) + 1] = x /\ \A i \in 1 .. Len(q) : Append(q, x)[i] = q[i]
        /\ Len(q) \in Nat
    OBVIOUS
  <2>2. \A i \in 1 .. Len(q) + 1 : i = Len(q) + 1 \/ i \in 1 .. Len(q)
    BY <2>1
  <2> QED
    BY <1>2, <1>3, <2>1, <2>2
<1>5. /\ deferred' \in [Actor -> Seq(StateEvent)]
      /\ \A a \in Actor : \A i \in 1 .. Len(deferred'[a]) : deferred'[a][i] \in Deferrable
  <2>1. CASE deferred' = deferred
    BY <1>1, <2>1 DEF ActiveTypes
  <2>2. CASE deferred' = [deferred EXCEPT ![o] = Append(@, executing[o])]
    <3>1. \A a \in Actor : deferred'[a] = IF a = o THEN Append(q, x) ELSE deferred[a]
      BY <1>1, <1>2, <1>3, <2>2 DEF ActiveTypes
    <3>2. deferred' \in [Actor -> Seq(StateEvent)]
      BY <1>1, <1>2, <1>3, <1>4, <2>2 DEF ActiveTypes
    <3> QED
      BY <1>1, <1>4, <3>1, <3>2 DEF ActiveTypes
  <2> QED
    BY <1>1, <2>1, <2>2
<1>6. ActiveTypes'
  BY <1>1, <1>5 DEF ActiveTypes
<1> QED
  BY <1>1, <1>6, Elsewhere

LEMMA active_event_recall_Inv ==
  ASSUME ActiveInv, NEW o \in Actor, active_event_recall(o)
  PROVE  ActiveInv'
<1> DEFINE R == [op |-> "post", event |-> Head(deferred[o]), to |-> <<o>>, front |-> TRUE, guard |-> FALSE]
<1>1. /\ ActiveTypes /\ deferred[o] # <<>> /\ posting[o] = NoPost /\ o \in Poster
      /\ ref_count' = counted_up(Head(deferred[o]))
      /\ posting' = [posting EXCEPT ![o] = R] /\ deferred' = [deferred EXCEPT ![o] = Tail(@)]
      /\ UNCHANGED <<active_queue, executing, held, pool_free, listeners, timed, lost>>
  BY DEF ActiveInv, active_event_recall, Free, Poster
<1>2. PICK q \in Seq(StateEvent) :
        q = deferred[o] /\ q # <<>> /\ \A i \in 1 .. Len(q) : q[i] \in Deferrable
  BY <1>1 DEF ActiveTypes
<1>3. /\ Head(q) \in StateEvent /\ Head(q) \in Deferrable /\ Tail(q) \in Seq(StateEvent)
      /\ \A i \in 1 .. Len(Tail(q)) : Tail(q)[i] \in Deferrable
  <2>1. /\ Head(q) = q[1] /\ 1 \in 1 .. Len(q) /\ Head(q) \in StateEvent
        /\ Tail(q) \in Seq(StateEvent) /\ Len(Tail(q)) = Len(q) - 1 /\ Len(q) \in Nat
        /\ \A i \in 1 .. Len(q) - 1 : Tail(q)[i] = q[i + 1] /\ i + 1 \in 1 .. Len(q)
    BY <1>2
  <2> QED
    BY <1>2, <2>1
<1>4. R \in Posting /\ PostOK(R) /\ R.op = "post" /\ R.event \in Deferrable /\ R.event = Head(q) /\ ~ R.guard
  <2>1. <<o>> \in Seq(Actor) /\ Len(<<o>>) = 1 /\ <<o>> # <<>>
    OBVIOUS
  <2> QED
    BY <1>2, <1>3, <2>1 DEF Posting, PostOK
<1> HIDE DEF R
<1>5. ref_count' = counted_up(R.event) /\ ref_count' \in [PoolEvent -> Nat]
  BY <1>1, <1>2, <1>4 DEF ActiveTypes, counted_up
<1>6. PICK P \in Posting : P = R
  BY <1>4
<1>7. /\ \A a \in Poster : posting'[a] = IF a = o THEN P ELSE posting[a]
      /\ posting' \in [Poster -> Posting]
      /\ \A a \in Actor : deferred'[a] = IF a = o THEN Tail(q) ELSE deferred[a]
      /\ deferred' \in [Actor -> Seq(StateEvent)]
  BY <1>1, <1>2, <1>3, <1>6 DEF ActiveTypes
<1>8. \A a \in Poster : PostOK(posting'[a])
  BY <1>1, <1>4, <1>6, <1>7 DEF ActiveTypes
<1>9. \A a \in Actor : \A i \in 1 .. Len(deferred'[a]) : deferred'[a][i] \in Deferrable
  BY <1>1, <1>3, <1>7 DEF ActiveTypes
<1>10. ActiveTypes'
  BY <1>1, <1>5, <1>7, <1>8, <1>9 DEF ActiveTypes
<1>11. \A e \in PoolEvent : Uses(P, e) = Uses(posting[o], e) + One(e = P.event)
  BY <1>1, <1>4, <1>6, NoPostFacts DEF Uses, One
<1>12. P.event \notin Counted /\ P.op # "release" /\ posting[o].op # "release" /\ PostOK(P)
  BY <1>1, <1>4, <1>6, NoPostFacts
<1>13. HeldOK' /\ EventRefsOK'
  BY <1>1, <1>5, <1>6, <1>7, <1>11, <1>12, CountedUp
<1> QED
  BY <1>10, <1>13 DEF ActiveInv

LEMMA active_object_delete_Inv ==
  ASSUME ActiveInv, NEW p \in Poster, NEW o \in Actor, active_object_delete(p, o)
  PROVE  ActiveInv'
<1>1. /\ ActiveTypes /\ o \in Poster
      /\ UNCHANGED <<deferred, executing, held, ref_count, pool_free, listeners, timed>>
  BY DEF ActiveInv, active_object_delete, poolVars, Poster
<1>2. CASE o \notin user_data
  <2>1. UNCHANGED <<lost, active_queue, posting>>
    BY <1>2 DEF active_object_delete
  <2>2. ActiveTypes'
    BY <1>1, <2>1 DEF ActiveTypes
  <2> QED
    BY <1>1, <2>1, <2>2, Elsewhere
<1>3. CASE o \in user_data
  <2>1. /\ lost' = [e \in PoolEvent |-> lost[e] + occurrences(e, active_queue[o])]
        /\ active_queue' = [active_queue EXCEPT ![o] = <<>>]
        /\ posting' = IF gets(o) THEN [posting EXCEPT ![o].op = "error"] ELSE posting
    BY <1>3 DEF active_object_delete
  <2>2. PICK q \in Seq(StateEvent), s \in Seq(StateEvent) : q = active_queue[o] /\ s = <<>>
    <3>1. active_queue[o] \in Seq(StateEvent)
      BY <1>1 DEF ActiveTypes
    <3>2. <<>> \in Seq(StateEvent)
      OBVIOUS
    <3> QED
      BY <3>1, <3>2
  <2>3. Len(s) = 0 /\ Len(s) <= ActorQSize
    BY <2>2, ActiveAssumption
  <2>4. \A e \in PoolEvent : occurrences(e, q) \in Nat
    BY OccFinite
  <2>5. /\ \A a \in Actor : active_queue'[a] = IF a = o THEN s ELSE active_queue[a]
        /\ active_queue' \in [Actor -> Seq(StateEvent)]
        /\ \A e \in PoolEvent : lost'[e] = lost[e] + occurrences(e, q)
    BY <1>1, <2>1, <2>2 DEF ActiveTypes
  <2>6. lost' \in [PoolEvent -> Nat]
    <3>1. \A e \in PoolEvent : lost[e] + occurrences(e, q) \in Nat
      BY <1>1, <2>4 DEF ActiveTypes
    <3> QED
      BY <2>1, <2>2, <3>1
  <2>7. PICK P \in Posting :
          /\ PostOK(P) /\ (P.op # "release" \/ P = posting[o])
          /\ \A a \in Poster : posting'[a] = IF a = o THEN P ELSE posting[a]
          /\ \A e \in PoolEvent : Uses(P, e) = Uses(posting[o], e)
    <3>1. CASE gets(o)
      <4>1. posting[o] = NoPost
        BY <3>1 DEF gets
      <4>2. posting' = [posting EXCEPT ![o].op = "error"]
        BY <2>1, <3>1
      <4>3. \A a \in Poster :
              posting'[a] = IF a = o THEN [NoPost EXCEPT !.op = "error"] ELSE posting[a]
        BY <1>1, <4>1, <4>2 DEF ActiveTypes
      <4> QED
        BY <4>1, <4>3, ErrorFacts, NoPostFacts
    <3>2. CASE ~ gets(o)
      <4>1. posting' = posting /\ posting[o] \in Posting /\ PostOK(posting[o])
        BY <1>1, <2>1, <3>2 DEF ActiveTypes
      <4> QED
        BY <4>1
    <3> QED
      BY <3>1, <3>2
  <2>8. PostOK(P) /\ (P.op = "release" => P = posting[o])
    BY <1>1, <2>7 DEF ActiveTypes
  <2>9. posting' \in [Poster -> Posting]
    <3>1. CASE gets(o)
      BY <1>1, <2>1, <2>7, <3>1 DEF ActiveTypes
    <3>2. CASE ~ gets(o)
      BY <1>1, <2>1, <3>2 DEF ActiveTypes
    <3> QED
      BY <3>1, <3>2
  <2>10. ActiveTypes'
    BY <1>1, <2>3, <2>5, <2>6, <2>7, <2>8, <2>9 DEF ActiveTypes
  <2>11. ASSUME NEW e \in PoolEvent PROVE references(e)' = references(e)
    <3>1. PICK x \in StateEvent \cup {NoEvent} : x = executing[o]
      BY <1>1 DEF ActiveTypes
    <3>2. PICK l \in Nat : l = occurrences(e, q) /\ lost'[e] = lost[e] + l
      BY <2>4, <2>5
    <3>3. occurrences(e, s) = 0
      <4>1. Occ(e, s) = {}
        BY <2>2 DEF Occ
      <4> QED
        BY <4>1, OccFinite, FS_EmptySet
    <3>4. references(e)' = references(e) + l - occurrences(e, active_queue[o]) + occurrences(e, s)
                            - One(executing[o] = e) + One(x = e) - Uses(posting[o], e) + Uses(P, e)
      <4>1. \A a \in Poster : posting'[a] = IF a = o THEN P ELSE posting[a]
        BY <2>7
      <4>2. \A a \in Actor : executing'[a] = IF a = o THEN x ELSE executing[a]
        BY <1>1, <3>1
      <4>3. \A a \in Actor : active_queue'[a] = IF a = o THEN s ELSE active_queue[a]
        BY <2>5
      <4>4. Len(s) <= ActorQSize /\ lost'[e] = lost[e] + l /\ ActiveTypes /\ o \in Poster
        BY <1>1, <2>3, <3>2
      <4> QED
        BY <4>1, <4>2, <4>3, <4>4, Moves, Z3T(60)
    <3>5. PICK i \in Int, j \in Nat, r \in Nat : i = Uses(P, e) /\ j = One(x = e) /\ r = references(e)
      <4>1. Uses(P, e) \in Int /\ One(x = e) \in Nat
        BY DEF Uses, One
      <4> QED
        BY <1>1, <4>1, Numbers
    <3>6. Uses(posting[o], e) = i
      BY <2>7, <3>5
    <3>7. references(e)' = r + l - l + 0 - j + j - i + i
      BY <2>2, <3>1, <3>2, <3>3, <3>4, <3>5, <3>6
    <3> QED
      BY <3>5, <3>7
  <2>12. \A a \in Poster : posting'[a].op = "release" =>
           posting[a].op = "release" /\ posting'[a].event = posting[a].event
    BY <2>7, <2>8
  <2> QED
    BY <1>1, <2>10, <2>11, <2>12, Balanced DEF ActiveInv
<1> QED
  BY <1>2, <1>3

LEMMA active_event_get_error_Inv ==
  ASSUME ActiveInv, NEW o \in Actor, active_event_get_error(o)
  PROVE  ActiveInv'
<1>1. UNCHANGED <<active_queue, deferred, executing, held, posting, ref_count, pool_free, listeners, timed, lost>>
  BY DEF active_event_get_error, objectVars, poolVars
<1>2. ActiveTypes'
  BY <1>1 DEF ActiveInv, ActiveTypes
<1> QED
  BY <1>1, <1>2, Elsewhere

LEMMA active_time_event_post_Inv ==
  ASSUME ActiveInv, NEW e \in TimeEvent, active_time_event_post(e)
  PROVE  ActiveInv'
<1>1. /\ ActiveTypes /\ timed[e].on /\ e \in StateEvent /\ e \notin PoolEvent
      /\ UNCHANGED <<deferred, executing, held, posting, ref_count, pool_free, listeners, lost>>
  BY ActiveAssumption DEF ActiveInv, active_time_event_post, poolVars, StateEvent
<1>2. timed[e].object \in Actor
  <2>1. timed[e] \in {Off} \cup [on : {TRUE}, once : BOOLEAN, object : Actor]
    BY <1>1 DEF ActiveTypes
  <2>2. timed[e] # Off
    BY <1>1 DEF Off
  <2> QED
    BY <2>1, <2>2
<1>3. PICK o \in Actor : o = timed[e].object
  BY <1>2
<1>4. CASE queue_refuses(o)
  <2>1. UNCHANGED <<active_queue, timed>>
    BY <1>3, <1>4 DEF active_time_event_post
  <2>2. ActiveTypes'
    BY <1>1, <2>1 DEF ActiveTypes
  <2> QED
    BY <1>1, <2>1, <2>2, Elsewhere
<1>5. CASE ~ queue_refuses(o)
  <2>1. PICK q \in Seq(StateEvent) : q = active_queue[o] /\ Len(q) <= ActorQSize
    BY <1>1 DEF ActiveTypes
  <2>2. Len(q) # ActorQSize /\ ActorQSize \in Nat /\ Len(q) \in Nat
    BY <1>5, <2>1, ActiveAssumption DEF queue_refuses
  <2>3. PICK s \in Seq(StateEvent) : s = Append(q, e) /\ Len(s) = Len(q) + 1
    <3>1. e \in StateEvent
      BY <1>1
    <3>2. \A y \in StateEvent : Append(q, y) \in Seq(StateEvent) /\ Len(Append(q, y)) = Len(q) + 1
      OBVIOUS
    <3> QED
      BY <3>1, <3>2
  <2>4. Len(s) <= ActorQSize
    BY <2>1, <2>2, <2>3
  <2>5. /\ active_queue' = [active_queue EXCEPT ![o] = s]
        /\ timed' = timed \/ timed' = [timed EXCEPT ![e] = Off]
    BY <1>3, <1>5, <2>1, <2>3 DEF active_time_event_post
  <2>6. /\ \A a \in Actor : active_queue'[a] = IF a = o THEN s ELSE active_queue[a]
        /\ active_queue' \in [Actor -> Seq(StateEvent)]
        /\ timed' \in [TimeEvent -> {Off} \cup [on : {TRUE}, once : BOOLEAN, object : Actor]]
    BY <1>1, <2>5 DEF ActiveTypes
  <2>7. ActiveTypes'
    BY <1>1, <2>4, <2>6 DEF ActiveTypes
  <2>8. ASSUME NEW f \in PoolEvent PROVE references(f)' = references(f)
    <3>1. One(e = f) = 0
      BY <1>1 DEF One
    <3>2. PICK u \in Nat : u = occurrences(f, q)
      BY OccFinite
    <3>3. occurrences(f, s) = occurrences(f, active_queue[o])
      <4>1. occurrences(f, s) = u + 0
        BY <1>1, <2>3, <3>1, <3>2, OccAppend
      <4> QED
        BY <2>1, <3>2, <4>1
    <3>4. Cardinality(InQueues(f)') =
            Cardinality(InQueues(f)) - occurrences(f, active_queue[o]) + occurrences(f, s)
      BY <1>1, <2>4, <2>6, QueueStep_Counts
    <3>5. PICK n \in Nat : n = Cardinality(InQueues(f))
      BY <1>1, Numbers
    <3>6. Cardinality(InQueues(f)') = n - u + u
      BY <2>1, <3>2, <3>3, <3>4, <3>5
    <3>7. Cardinality(InQueues(f)') = Cardinality(InQueues(f))
      BY <3>5, <3>6
    <3>8. /\ lost'[f] = lost[f] /\ Executing(f)' = Executing(f) /\ Posts(f)' = Posts(f)
          /\ Guards(f)' = Guards(f)
      BY <1>1 DEF Executing, Posts, Guards
    <3>9. references(f)' = lost'[f] + Cardinality(InQueues(f)') + Cardinality(Executing(f)')
                           + Cardinality(Posts(f)') + Cardinality(Guards(f)')
      BY DEF references, InQueues, Executing, Posts, Guards
    <3> QED
      BY <3>7, <3>8, <3>9, ReferencesAre
  <2> QED
    BY <1>1, <2>7, <2>8, Balanced DEF ActiveInv
<1> QED
  BY <1>4, <1>5

LEMMA active_broadcast_queue_register_Inv ==
  ASSUME ActiveInv, NEW o \in Actor, active_broadcast_queue_register(o)
  PROVE  ActiveInv'
<1>1. /\ ActiveTypes /\ listeners' = Append(listeners, o)
      /\ UNCHANGED <<active_queue, deferred, executing, held, posting, ref_count, pool_free, timed, lost>>
  BY DEF ActiveInv, active_broadcast_queue_register, poolVars, objectVars
<1>2. listeners' \in Seq(Actor)
  <2>1. listeners \in Seq(Actor)
    BY <1>1 DEF ActiveTypes
  <2> QED
    BY <1>1, <2>1
<1>3. ActiveTypes'
  BY <1>1, <1>2 DEF ActiveTypes
<1> QED
  BY <1>1, <1>3, Elsewhere

LEMMA active_broadcast_queue_unregister_Inv ==
  ASSUME ActiveInv, NEW o \in Actor, active_broadcast_queue_unregister(o)
  PROVE  ActiveInv'
<1>1. /\ ActiveTypes /\ listeners' = RemoveFirst(listeners, o)
      /\ UNCHANGED <<active_queue, deferred, executing, held, posting, ref_count, pool_free, timed, lost>>
  BY DEF ActiveInv, active_broadcast_queue_unregister, poolVars, objectVars
<1>2. listeners' \in Seq(Actor)
  <2>1. listeners \in Seq(Actor)
    BY <1>1 DEF ActiveTypes
  <2> QED
    BY <1>1, <2>1, RemoveFirstUnlinks
<1>3. ActiveTypes'
  BY <1>1, <1>2 DEF ActiveTypes
<1> QED
  BY <1>1, <1>3, Elsewhere

LEMMA active_time_event_fire_Inv ==
  ASSUME ActiveInv, NEW p \in Poster, NEW e \in TimeEvent, NEW o \in Timed, NEW once \in BOOLEAN,
         active_time_event_fire(p, e, o, once)
  PROVE  ActiveInv'
<1>1. /\ ActiveTypes /\ o \in Actor
      /\ timed' = timed \/ timed' = [timed EXCEPT ![e] = [on |-> TRUE, once |-> once, object |-> o]]
      /\ UNCHANGED <<active_queue, deferred, executing, held, posting, ref_count, pool_free, listeners, lost>>
  BY ActiveAssumption DEF ActiveInv, active_time_event_fire, poolVars, objectVars
<1>2. timed' \in [TimeEvent -> {Off} \cup [on : {TRUE}, once : BOOLEAN, object : Actor]]
  <2>1. [on |-> TRUE, once |-> once, object |-> o] \in [on : {TRUE}, once : BOOLEAN, object : Actor]
    BY <1>1
  <2>2. timed \in [TimeEvent -> {Off} \cup [on : {TRUE}, once : BOOLEAN, object : Actor]]
    BY <1>1 DEF ActiveTypes
  <2> QED
    BY <1>1, <2>1, <2>2
<1>3. ActiveTypes'
  BY <1>1, <1>2 DEF ActiveTypes
<1> QED
  BY <1>1, <1>3, Elsewhere

LEMMA active_time_event_deactivate_Inv ==
  ASSUME ActiveInv, NEW p \in Poster, NEW e \in TimeEvent, active_time_event_deactivate(p, e)
  PROVE  ActiveInv'
<1>1. /\ ActiveTypes /\ timed' = [timed EXCEPT ![e] = Off]
      /\ UNCHANGED <<active_queue, deferred, executing, held, posting, ref_count, pool_free, listeners, lost>>
  BY DEF ActiveInv, active_time_event_deactivate, poolVars, objectVars
<1>2. timed' \in [TimeEvent -> {Off} \cup [on : {TRUE}, once : BOOLEAN, object : Actor]]
  BY <1>1 DEF ActiveTypes
<1>3. ActiveTypes'
  BY <1>1, <1>2 DEF ActiveTypes
<1> QED
  BY <1>1, <1>3, Elsewhere

LEMMA ActiveInit_Inv == ActiveInit => ActiveInv
<1> SUFFICES ASSUME ActiveInit PROVE ActiveInv
  OBVIOUS
<1>1. /\ \A o \in Actor : active_queue[o] = <<>> /\ deferred[o] = <<>> /\ executing[o] = NoEvent
      /\ \A p \in Poster : posting[p] = NoPost
      /\ \A e \in PoolEvent : lost[e] = 0
      /\ \A p \in Client : held[p] = NoEvent
      /\ pool_free = PoolEvent
  BY DEF ActiveInit
<1>2. ActiveTypes
  <2>1. <<>> \in Seq(StateEvent) /\ <<>> \in Seq(Actor) /\ Len(<<>>) = 0
    OBVIOUS
  <2>2. \A o \in Actor : Len(active_queue[o]) = 0 /\ Len(deferred[o]) = 0
    BY <1>1, <2>1
  <2>3. posting \in [Poster -> Posting] /\ \A p \in Poster : PostOK(posting[p])
    BY <1>1, NoPostFacts DEF ActiveInit
  <2>4. \A o \in Actor : Len(active_queue[o]) <= ActorQSize
    BY <2>2, ActiveAssumption
  <2>5. \A o \in Actor : \A i \in 1 .. Len(deferred[o]) : deferred[o][i] \in Deferrable
    BY <2>2
  <2>6. /\ active_queue \in [Actor -> Seq(StateEvent)] /\ deferred \in [Actor -> Seq(StateEvent)]
        /\ listeners \in Seq(Actor)
    BY <2>1 DEF ActiveInit
  <2>7. /\ executing \in [Actor -> StateEvent \cup {NoEvent}]
        /\ held \in [Client -> PoolEvent \cup {NoEvent}]
        /\ ref_count \in [PoolEvent -> Nat] /\ lost \in [PoolEvent -> Nat]
        /\ pool_free \in SUBSET PoolEvent
        /\ timed \in [TimeEvent -> {Off} \cup [on : {TRUE}, once : BOOLEAN, object : Actor]]
    BY DEF ActiveInit
  <2> QED
    BY <2>3, <2>4, <2>5, <2>6, <2>7 DEF ActiveTypes
<1>3. \A e \in PoolEvent : references(e) = 0
  <2> SUFFICES ASSUME NEW e \in PoolEvent PROVE references(e) = 0
    OBVIOUS
  <2>1. InQueues(e) = {}
    <3>1. \A o \in Actor : DOMAIN active_queue[o] = {}
      BY <1>1
    <3> QED
      BY <3>1 DEF InQueues
  <2>2. Executing(e) = {} /\ Posts(e) = {} /\ Guards(e) = {}
    BY <1>1, ActiveAssumption DEF Executing, Posts, Guards, NoPost
  <2> QED
    <3>1. /\ Cardinality(InQueues(e)) = 0 /\ Cardinality(Executing(e)) = 0
          /\ Cardinality(Posts(e)) = 0 /\ Cardinality(Guards(e)) = 0
      BY <2>1, <2>2, FS_EmptySet
    <3>2. references(e) = 0 + 0 + 0 + 0 + 0
      BY <1>1, <3>1, ReferencesAre
    <3> QED
      BY <3>2
<1>4. HeldOK
  BY <1>1, ActiveAssumption DEF HeldOK
<1>5. EventRefsOK
  BY <1>1, <1>3, NoPostFacts, ActiveAssumption DEF EventRefsOK
<1> QED
  BY <1>2, <1>4, <1>5 DEF ActiveInv

LEMMA ActiveNext_Inv ==
  ASSUME ActiveInv, [ActiveNext]_activeVars
  PROVE  ActiveInv'
<1>1. CASE UNCHANGED activeVars
  <2>1. ActiveTypes'
    BY <1>1 DEF ActiveInv, ActiveTypes, activeVars
  <2> QED
    BY <1>1, <2>1, Elsewhere DEF activeVars
<1>2. CASE ActiveNext
  <2>1. ASSUME NEW p \in Poster,
               \/ active_event_memory_allocate(p) \/ active_queue_event_broadcast(p)
               \/ count_reference(p) \/ post_to_queue(p)
               \/ active_memory_collect(p) \/ release_event(p)
        PROVE  ActiveInv'
    BY <2>1, active_event_memory_allocate_Inv, active_queue_event_broadcast_Inv,
       count_reference_Inv, post_to_queue_Inv, active_memory_collect_Inv, release_event_Inv
  <2>2. ASSUME NEW p \in Poster, NEW o \in Actor,
               active_object_delete(p, o) \/ \E front \in BOOLEAN : active_event_post(p, o, front)
        PROVE  ActiveInv'
    BY <2>2, active_object_delete_Inv, active_event_post_Inv
  <2>3. ASSUME NEW p \in Poster, NEW e \in TimeEvent,
               \/ active_time_event_deactivate(p, e)
               \/ \E o \in Timed, once \in BOOLEAN : active_time_event_fire(p, e, o, once)
        PROVE  ActiveInv'
    BY <2>3, active_time_event_deactivate_Inv, active_time_event_fire_Inv
  <2>4. ASSUME NEW o \in Actor,
               \/ active_event_get(o) \/ active_event_get_error(o) \/ executed(o)
               \/ active_event_defer_post(o) \/ active_event_recall(o)
               \/ active_broadcast_queue_register(o) \/ active_broadcast_queue_unregister(o)
        PROVE  ActiveInv'
    BY <2>4, active_event_get_Inv, active_event_get_error_Inv, executed_Inv, active_event_defer_post_Inv, active_event_recall_Inv,
       active_broadcast_queue_register_Inv, active_broadcast_queue_unregister_Inv
  <2>5. ASSUME NEW e \in TimeEvent, active_time_event_post(e) PROVE ActiveInv'
    BY <2>5, active_time_event_post_Inv
  <2> QED
    BY <1>2, <2>1, <2>2, <2>3, <2>4, <2>5 DEF ActiveNext
<1> QED
  BY <1>1, <1>2

\* The count of a pool event that no handler defers is the number of its references at
\* every moment, whoever preempts a post, a broadcast or a collection, and whatever
\* object is deleted while it executes: the block is given back when its last reference
\* goes and not before.  Other events of the pool may be deferred meanwhile, which
\* active_event_defer_post does not count.
THEOREM EventsAreCounted == ActiveSpec => []EventRefsOK
<1>1. ActiveInit => ActiveInv
  BY ActiveInit_Inv
<1>2. ActiveInv /\ [ActiveNext]_activeVars => ActiveInv'
  BY ActiveNext_Inv
<1>3. ActiveInv => EventRefsOK
  BY DEF ActiveInv
<1> QED
  BY <1>1, <1>2, <1>3, PTL DEF ActiveSpec

HIDE DEF Counted

-----------------------------------------------------------------------------
(***************************************************************************)
(* Event timers: whoever adds, stops, moves or removes a timer between two *)
(* ticks, etimer_process is asked for when a timer on the list is due.     *)
(* Inductive is what next_expiration, or the value update_time is about to *)
(* write there, promises to each timer on the list.  Intervals and forward *)
(* moves are at most M.  EtBounds leaves out two things, and neither can   *)
(* be allowed: once the clock wraps (ClockMax = ClockWrap) or a timer is   *)
(* moved back (AdjustBack) the code does miss expiries, and TLC finds      *)
(* ServedNextTick violated.                                                *)
(***************************************************************************)

ends(t) == etimer[t].start + etimer[t].interval

Timers(M) == [start : Nat, interval : 0 .. M, p : EtOwner \cup {NoOwner}]

EtBounds(M) ==
  /\ M \in Nat /\ Interval \subseteq 0 .. M /\ AdjustBy \subseteq 0 .. M /\ AdjustBack = {}
  /\ 4 * M <= ClockWrap /\ ClockMax + 2 * M + 1 < ClockWrap

EtTypes(M) ==
  /\ timerlist \in Seq(Etimer) /\ etimer \in [Etimer -> Timers(M)]
  /\ current_clock \in 0 .. ClockMax /\ next_expiration \in Nat /\ update \in Nat \cup {-1}
  /\ \A t \in Etimer : etimer[t].start <= current_clock + M

\* What next_expiration holds once update_time has written it.
wanted == IF update = -1 THEN next_expiration ELSE update

Timely(t) ==
  /\ wanted <= ends(t) \/ (ends(t) <= current_clock /\ (poll \/ etRun))
  /\ next_expiration <= ends(t) \/ poll \/ (ends(t) <= current_clock /\ etRun)
  /\ ends(t) <= current_clock => poll \/ etRun

EtInv(M) == EtTypes(M) /\ \A t \in ToSet(timerlist) : Timely(t)

\* A list of timers at the clock now, and what update_time finds in it.
LEMMA update_timeFinds ==
  ASSUME NEW M, EtBounds(M), EtTypes(M), NEW list \in Seq(Etimer), NEW T \in [Etimer -> Timers(M)],
         \A t \in Etimer : T[t].start <= current_clock + M,
         update_time(list, T)
  PROVE  /\ update' \in Nat
         /\ \A t \in ToSet(list) : current_clock <= T[t].start + T[t].interval
              => update' <= T[t].start + T[t].interval
<1>1. /\ M \in Nat /\ ClockWrap \in Nat \ {0} /\ ClockMax \in Nat /\ current_clock \in Nat
      /\ current_clock <= ClockMax /\ ClockMax + 2 * M + 1 < ClockWrap
  BY EtimerAssumption DEF EtBounds, EtTypes
<1>2. CASE list = <<>>
  BY <1>2 DEF update_time, ToSet
<1>3. CASE list # <<>>
  <2> DEFINE S == {remaining(t, T) : t \in ToSet(list)}
             m == Min(S)
  <2>1. \A t \in ToSet(list) : t \in Etimer
    BY DEF ToSet
  <2>2. \A t \in Etimer : T[t].start \in Nat /\ T[t].interval \in Nat /\ T[t].interval <= M
    BY <1>1 DEF Timers
  <2>3. \A t \in Etimer : remaining(t, T) \in 0 .. ClockWrap - 1
    <3>1. ASSUME NEW t \in Etimer
          PROVE  remaining(t, T) \in 0 .. ClockWrap - 1
      <4>1. PICK x \in Int : x = T[t].start + T[t].interval - current_clock
        BY <1>1, <2>2
      <4>2. ClockWrap \in Nat \ {0} /\ x % ClockWrap \in 0 .. ClockWrap - 1
        BY <1>1, ModFacts
      <4> QED
        BY <4>1, <4>2 DEF remaining
    <3> QED
      BY <3>1
  <2>4. S \in SUBSET Nat /\ S # {}
    <3>1. 1 \in DOMAIN list
      BY <1>3
    <3>2. list[1] \in ToSet(list)
      BY <3>1 DEF ToSet
    <3> QED
      BY <1>1, <2>1, <2>3, <3>2
  <2>5. m \in S /\ \A r \in S : m <= r
    <3> HIDE DEF S
    <3> QED
      BY <2>4, MinOfNats
  <2>6. m \in 0 .. ClockWrap - 1
    BY <2>1, <2>3, <2>5
  <2>7. update' = (current_clock + m) % ClockWrap
    BY <1>3 DEF update_time
  <2>8. \A t \in ToSet(list) : m <= remaining(t, T)
    BY <2>5
  <2> HIDE DEF m, S
  <2>9. update' \in Nat
    <3>1. PICK x \in Int : x = current_clock + m
      BY <1>1, <2>6
    <3>2. x % ClockWrap \in 0 .. ClockWrap - 1
      BY <1>1, ModFacts
    <3> QED
      BY <1>1, <2>7, <3>1, <3>2
  <2>10. ASSUME NEW t \in ToSet(list), current_clock <= T[t].start + T[t].interval
         PROVE  update' <= T[t].start + T[t].interval
    <3>0. PICK b, l \in Nat : b = T[t].start /\ l = T[t].interval /\ b <= current_clock + M /\ l <= M
      BY <2>1, <2>2
    <3>1. PICK e \in Nat : e = b + l /\ e = T[t].start + T[t].interval /\ e <= current_clock + 2 * M
      BY <1>1, <3>0
    <3>2. PICK d \in 0 .. ClockWrap - 1 : d = e - current_clock
      BY <1>1, <2>10, <3>1
    <3>3. remaining(t, T) = d
      <4>1. PICK x \in Int : x = d /\ x \in 0 .. ClockWrap - 1
        BY <1>1, <3>2
      <4>2. x % ClockWrap = x
        BY <1>1, <4>1, ModFacts
      <4>3. b + l - current_clock = x
        BY <1>1, <3>1, <3>2, <4>1
      <4> QED
        BY <3>0, <4>1, <4>2, <4>3 DEF remaining
    <3>4. m <= d
      BY <2>8, <3>3
    <3>5. PICK x \in Int : x = current_clock + m /\ x \in 0 .. ClockWrap - 1 /\ x <= e
      <4>1. m \in Int /\ 0 <= m /\ m <= d
        BY <2>6, <3>4
      <4> QED
        BY <1>1, <3>1, <3>2, <4>1
    <3>6. x % ClockWrap = x
      BY <1>1, <3>5, ModFacts
    <3> QED
      BY <2>7, <3>1, <3>5, <3>6
  <2> QED
    BY <2>9, <2>10
<1> QED
  BY <1>2, <1>3

\* Timers that leave the list leave the others as they were.
LEMMA ListPart ==
  ASSUME NEW s \in Seq(Etimer)
  PROVE  /\ \A t \in Etimer : /\ RemoveFirst(s, t) \in Seq(Etimer)
                              /\ ToSet(RemoveFirst(s, t)) \subseteq ToSet(s)
         /\ \A i \in 1 .. Len(s) : /\ RemoveAt(s, i) \in Seq(Etimer)
                                  /\ ToSet(RemoveAt(s, i)) \subseteq ToSet(s)
<1>1. \A r : \A x : x \in ToSet(r) <=> In(x, r)
  BY DEF ToSet, In
<1>2. ASSUME NEW t \in Etimer
      PROVE  RemoveFirst(s, t) \in Seq(Etimer) /\ ToSet(RemoveFirst(s, t)) \subseteq ToSet(s)
  <2>1. /\ RemoveFirst(s, t) \in Seq(Etimer)
        /\ \A x : x # t => (In(x, RemoveFirst(s, t)) <=> In(x, s))
        /\ In(t, RemoveFirst(s, t)) => In(t, s)
    BY RemoveFirstUnlinks
  <2> QED
    BY <1>1, <2>1
<1>3. ASSUME NEW i \in 1 .. Len(s)
      PROVE  RemoveAt(s, i) \in Seq(Etimer) /\ ToSet(RemoveAt(s, i)) \subseteq ToSet(s)
  <2>1. PICK r \in Seq(Etimer) :
             /\ r = RemoveAt(s, i) /\ Len(r) = Len(s) - 1
             /\ \A j \in 1 .. Len(s) - 1 : r[j] = IF j < i THEN s[j] ELSE s[j + 1]
    BY RemoveAtProperties
  <2>2. \A x : x \in ToSet(r) => \E j \in 1 .. Len(s) : x = s[j]
    <3>1. \A x \in ToSet(r) : \E j \in 1 .. Len(s) - 1 : x = r[j]
      BY <2>1 DEF ToSet
    <3>2. \A j \in 1 .. Len(s) - 1 : \E l \in 1 .. Len(s) : r[j] = s[l]
      BY <2>1
    <3> QED
      BY <3>1, <3>2
  <2> QED
    BY <2>1, <2>2 DEF ToSet
<1> QED
  BY <1>2, <1>3


\* The walk of PROCESS_EVENT_EXITED ends, and keeps timers of the list only.
LEMMA unlinkedPart ==
  ASSUME NEW p, timerlist \in Seq(Etimer)
  PROVE  unlinked(p) \in Seq(Etimer) /\ ToSet(unlinked(p)) \subseteq ToSet(timerlist)
<1> DEFINE n == Len(timerlist)
           Walk(j) == {F \in [0 .. j -> Seq(Etimer)] :
                         F = [i \in 0 .. j |->
                                IF i = 0 THEN <<>>
                                ELSE IF etimer[timerlist[i]].p = p THEN F[i - 1]
                                ELSE Append(F[i - 1], timerlist[i])]}
<1>1. n \in Nat /\ \A i \in 1 .. n : timerlist[i] \in Etimer
  OBVIOUS
<1>2. Walk(n) # {}
  <2> DEFINE Bad == {j \in 0 .. n : Walk(j) = {}}
  <2>2. SUFFICES ASSUME Bad # {} PROVE FALSE
    <3>1. n \in 0 .. n
      BY <1>1
    <3>2. n \notin Bad => Walk(n) # {}
      BY <3>1
    <3> HIDE DEF Walk, Bad
    <3> QED
      BY <3>2
  <2>3. PICK j \in 0 .. n : Walk(j) = {} /\ \A l \in 0 .. n : Walk(l) = {} => j <= l
    <3>1. Bad \in SUBSET Nat
      BY <1>1
    <3> HIDE DEF Bad
    <3>2. Min(Bad) \in Bad /\ \A l \in Bad : Min(Bad) <= l
      BY <2>2, <3>1, MinOfNats
    <3> QED
      BY <3>2 DEF Bad
  <2>4. CASE j = 0
    <3> DEFINE F == [i \in 0 .. 0 |-> <<>>]
    <3>1. F \in Walk(0)
      OBVIOUS
    <3> QED
      BY <2>3, <2>4, <3>1
  <2>5. CASE j # 0
    <3>1. j - 1 \in 0 .. n /\ ~ (j <= j - 1) /\ j \in 1 .. n
      BY <1>1, <2>5
    <3>2. PICK F : F \in Walk(j - 1)
      BY <2>3, <3>1
    <3> DEFINE x == timerlist[j]
               G == [i \in 0 .. j |-> IF i = j
                                      THEN IF etimer[x].p = p THEN F[j - 1] ELSE Append(F[j - 1], x)
                                      ELSE F[i]]
    <3>3. F \in [0 .. j - 1 -> Seq(Etimer)] /\ x \in Etimer
      BY <1>1, <3>1, <3>2
    <3>4. \A i \in 0 .. j - 1 : F[i] = IF i = 0 THEN <<>>
                                      ELSE IF etimer[timerlist[i]].p = p THEN F[i - 1]
                                      ELSE Append(F[i - 1], timerlist[i])
      BY <3>2
    <3>5. G \in [0 .. j -> Seq(Etimer)]
      BY <3>1, <3>3
    <3>6. \A i \in 0 .. j : G[i] = IF i = 0 THEN <<>>
                                  ELSE IF etimer[timerlist[i]].p = p THEN G[i - 1]
                                  ELSE Append(G[i - 1], timerlist[i])
      BY <3>1, <3>4
    <3>7. G \in Walk(j)
      BY <3>5, <3>6
    <3> QED
      BY <2>3, <3>7
  <2> QED
    BY <2>4, <2>5
<1> DEFINE kept == CHOOSE F : F = [i \in 0 .. n |->
                                    IF i = 0 THEN <<>>
                                    ELSE IF etimer[timerlist[i]].p = p THEN F[i - 1]
                                    ELSE Append(F[i - 1], timerlist[i])]
<1>3. kept = [i \in 0 .. n |-> IF i = 0 THEN <<>>
                               ELSE IF etimer[timerlist[i]].p = p THEN kept[i - 1]
                               ELSE Append(kept[i - 1], timerlist[i])]
  BY <1>2
<1>4. unlinked(p) = kept[n]
  BY DEF unlinked
<1> HIDE DEF kept
<1> DEFINE OfList(j) == kept[j] \in Seq(Etimer) /\ ToSet(kept[j]) \subseteq ToSet(timerlist)
           Bad == {j \in 0 .. n : ~ OfList(j)}
<1>5. ASSUME Bad # {} PROVE FALSE
  <2>1. PICK j \in 0 .. n : ~ OfList(j) /\ \A l \in 0 .. n : ~ OfList(l) => j <= l
    <3>1. Bad \in SUBSET Nat
      BY <1>1
    <3> HIDE DEF Bad
    <3>2. Min(Bad) \in Bad /\ \A l \in Bad : Min(Bad) <= l
      BY <1>5, <3>1, MinOfNats
    <3> QED
      BY <3>2 DEF Bad
  <2>2. CASE j = 0
    <3>1. kept[0] = <<>>
      BY <1>1, <1>3
    <3>2. ToSet(<<>>) = {}
      BY DEF ToSet
    <3> QED
      BY <2>1, <2>2, <3>1, <3>2
  <2>3. CASE j # 0
    <3>1. j - 1 \in 0 .. n /\ ~ (j <= j - 1) /\ j \in 1 .. n
      BY <1>1, <2>3
    <3>2. OfList(j - 1)
      BY <2>1, <3>1
    <3>3. PICK x \in Etimer : x = timerlist[j] /\ x \in ToSet(timerlist)
      BY <1>1, <3>1 DEF ToSet
    <3>4. kept[j] = IF etimer[x].p = p THEN kept[j - 1] ELSE Append(kept[j - 1], x)
      BY <1>3, <2>3, <3>3
    <3>5. PICK s \in Seq(Etimer) : s = kept[j - 1] /\ ToSet(s) \subseteq ToSet(timerlist)
      BY <3>2
    <3>6. Append(s, x) \in Seq(Etimer) /\ ToSet(Append(s, x)) \subseteq ToSet(s) \cup {x}
      BY <3>3, <3>5 DEF ToSet
    <3>7. OfList(j)
      BY <3>3, <3>4, <3>5, <3>6
    <3> QED
      BY <2>1, <3>7
  <2> QED
    BY <2>2, <2>3
<1>6. OfList(n)
  BY <1>1, <1>5
<1> QED
  BY <1>4, <1>6


\* A step after which every timer on the list was there before, and ends when it did.
LEMMA StillTimely ==
  ASSUME NEW M, EtBounds(M), EtInv(M), EtTypes(M)', ToSet(timerlist') \subseteq ToSet(timerlist),
         \A t \in Etimer : ends(t)' = ends(t),
         UNCHANGED <<next_expiration, current_clock, poll, etRun>>,
         \/ wanted' = wanted
         \/ \A t \in ToSet(timerlist') : current_clock <= ends(t) => wanted' <= ends(t)
  PROVE  EtInv(M)'
<1>1. /\ current_clock \in Nat
      /\ \A t \in ToSet(timerlist') : t \in Etimer /\ ends(t) \in Nat /\ ends(t)' = ends(t) /\ Timely(t)
  <2>1. \A t \in ToSet(timerlist) : t \in Etimer
    BY DEF ToSet, EtInv, EtTypes
  <2>2. \A t \in Etimer : etimer[t].start \in Nat /\ etimer[t].interval \in Nat
    BY DEF EtInv, EtTypes, EtBounds, Timers
  <2> QED
    BY <2>1, <2>2, EtimerAssumption DEF EtInv, EtTypes, ends
<1>2. \A t \in ToSet(timerlist') : Timely(t)'
  BY <1>1 DEF Timely
<1> QED
  BY <1>2 DEF EtInv

\* add_timer asks for a poll, and so nobody is forgotten.
LEMMA add_timerInv ==
  ASSUME NEW M, EtBounds(M), EtInv(M), NEW p \in EtOwner, NEW t \in Etimer,
         NEW T \in [Etimer -> Timers(M)], \A u \in Etimer : T[u].start <= current_clock + M,
         add_timer(p, t, T)
  PROVE  EtInv(M)'
<1>1. /\ poll' = TRUE /\ UNCHANGED <<next_expiration, current_clock, etRun>>
      /\ etimer' = T \/ etimer' = [T EXCEPT ![t].p = p]
      /\ timerlist' = timerlist \/ timerlist' = <<t>> \o timerlist
      /\ update_time(timerlist', etimer') /\ timerlist \in Seq(Etimer)
  BY DEF add_timer, EtInv, EtTypes
<1>2. /\ etimer' \in [Etimer -> Timers(M)]
      /\ \A u \in Etimer : etimer'[u].start = T[u].start
  <2>1. CASE etimer' = T
    BY <2>1
  <2>2. CASE etimer' = [T EXCEPT ![t].p = p]
    BY <2>2 DEF Timers
  <2> QED
    BY <1>1, <2>1, <2>2
<1>3. timerlist' \in Seq(Etimer) /\ \A u \in Etimer : etimer'[u].start <= current_clock + M
  BY <1>1, <1>2
<1>4. /\ update' \in Nat
      /\ \A u \in ToSet(timerlist') : current_clock <= ends(u)' => update' <= ends(u)'
  BY <1>1, <1>2, <1>3, update_timeFinds DEF EtInv, ends
<1>5. EtTypes(M)'
  BY <1>1, <1>2, <1>3, <1>4 DEF EtInv, EtTypes
<1>6. \A u \in ToSet(timerlist') : ends(u)' \in Nat /\ Timely(u)'
  <2>1. \A u \in ToSet(timerlist') : u \in Etimer
    BY <1>3 DEF ToSet
  <2>2. \A u \in Etimer : ends(u)' \in Nat
    BY <1>2 DEF ends, Timers, EtBounds
  <2>3. wanted' = update' /\ current_clock \in Nat
    BY <1>4, EtimerAssumption DEF wanted, EtInv, EtTypes
  <2> QED
    BY <1>1, <1>4, <2>1, <2>2, <2>3 DEF Timely
<1> QED
  BY <1>5, <1>6 DEF EtInv

\* start + a moved forward by at most M does not wrap.
LEMMA StartMoves ==
  ASSUME NEW M, EtBounds(M), EtTypes(M), NEW t \in Etimer, Movable(t), NEW d \in 0 .. M
  PROVE  (etimer[t].start + d) % ClockWrap = etimer[t].start + d
<1>1. PICK x \in Int : x = etimer[t].start + d /\ 0 <= x /\ x <= ClockMax + M
  <2>1. M \in Nat /\ ClockMax \in Nat /\ current_clock \in Nat /\ current_clock <= ClockMax
    BY EtimerAssumption DEF EtBounds, EtTypes
  <2>2. etimer[t].start \in Nat /\ etimer[t].start <= current_clock
    BY DEF EtTypes, Timers, Movable
  <2>3. d \in Nat /\ d <= M
    BY <2>1
  <2> QED
    BY <2>1, <2>2, <2>3
<1>2. ClockWrap \in Nat \ {0} /\ x \in 0 .. ClockWrap - 1
  <2>1. M \in Nat /\ ClockMax \in Int /\ ClockWrap \in Nat \ {0} /\ ClockMax + 2 * M + 1 < ClockWrap
    BY EtimerAssumption DEF EtBounds
  <2> QED
    BY <1>1, <2>1
<1>3. x % ClockWrap = x
  BY <1>2, ModFacts
<1> QED
  BY <1>1, <1>3

LEMMA AddersInv ==
  ASSUME NEW M, EtBounds(M), EtInv(M), NEW p \in EtOwner, NEW t \in Etimer,
         etimer_reset(p, t) \/ etimer_restart(p, t) \/ \E i \in Interval : etimer_set(p, t, i)
  PROVE  EtInv(M)'
<1>1. /\ M \in Nat /\ current_clock \in Nat /\ etimer \in [Etimer -> Timers(M)]
      /\ \A u \in Etimer : etimer[u].start \in Nat /\ etimer[u].start <= current_clock + M
  BY EtimerAssumption DEF EtBounds, EtInv, EtTypes, Timers
<1>2. ASSUME NEW s \in Nat, s <= current_clock + M, NEW T,
             \/ T = [etimer EXCEPT ![t].start = s]
             \/ \E i \in Interval : T = [etimer EXCEPT ![t].interval = i, ![t].start = s]
      PROVE  T \in [Etimer -> Timers(M)] /\ \A u \in Etimer : T[u].start <= current_clock + M
  <2> s <= current_clock + M
    BY <1>2
  <2>1. CASE T = [etimer EXCEPT ![t].start = s]
    BY <1>1, <2>1 DEF Timers
  <2>2. ASSUME NEW i \in 0 .. M, T = [etimer EXCEPT ![t].interval = i, ![t].start = s]
        PROVE  T \in [Etimer -> Timers(M)] /\ \A u \in Etimer : T[u].start <= current_clock + M
    <3> DEFINE U == [etimer EXCEPT ![t].interval = i]
    <3>1. U \in [Etimer -> Timers(M)] /\ \A u \in Etimer : U[u].start = etimer[u].start
      BY <1>1, <2>2 DEF Timers
    <3>2. T = [U EXCEPT ![t].start = s]
      BY <2>2
    <3> HIDE DEF U
    <3> QED
      BY <1>1, <3>1, <3>2 DEF Timers
  <2> QED
    BY <1>2, <2>1, <2>2 DEF EtBounds
<1>3. CASE etimer_reset(p, t)
  <2>1. PICK s \in Nat : s = etimer[t].start + etimer[t].interval /\ s <= current_clock + M
    BY <1>1, <1>3 DEF etimer_reset, Movable, Timers
  <2>2. (etimer[t].start + etimer[t].interval) % ClockWrap = s
    BY <1>1, <1>3, <2>1, StartMoves DEF etimer_reset, EtInv, Timers
  <2>3. add_timer(p, t, [etimer EXCEPT ![t].start = s])
    BY <1>3, <2>2 DEF etimer_reset
  <2> QED
    BY <1>2, <2>1, <2>3, add_timerInv
<1>4. CASE etimer_restart(p, t)
  <2>1. current_clock <= current_clock + M
    BY <1>1
  <2>2. add_timer(p, t, [etimer EXCEPT ![t].start = current_clock])
    BY <1>4 DEF etimer_restart
  <2> QED
    BY <1>1, <1>2, <2>1, <2>2, add_timerInv
<1>5. ASSUME NEW i \in Interval, etimer_set(p, t, i)
      PROVE  EtInv(M)'
  <2>1. current_clock <= current_clock + M
    BY <1>1
  <2>2. add_timer(p, t, [etimer EXCEPT ![t].interval = i, ![t].start = current_clock])
    BY <1>5 DEF etimer_set
  <2> QED
    BY <1>1, <1>2, <2>1, <2>2, add_timerInv
<1> QED
  BY <1>3, <1>4, <1>5

\* etimer_adjust moves the end of a timer forward: who was in time still is.
LEMMA etimer_adjustInv ==
  ASSUME NEW M, EtBounds(M), EtInv(M), NEW t \in Etimer, NEW d \in AdjustBy, etimer_adjust(t, d)
  PROVE  EtInv(M)'
<1>1. /\ M \in Nat /\ current_clock \in Nat /\ etimer \in [Etimer -> Timers(M)]
      /\ \A u \in Etimer : etimer[u].start \in Nat /\ etimer[u].start <= current_clock + M
      /\ \A u \in Etimer : etimer[u].interval \in Nat
      /\ d \in 0 .. M /\ timerlist \in Seq(Etimer)
  BY EtimerAssumption DEF EtBounds, EtInv, EtTypes, Timers
<1>2. PICK s \in Nat : s = etimer[t].start + d /\ etimer[t].start <= s /\ s <= current_clock + M
  <2>1. etimer[t].start \in Nat /\ etimer[t].start <= current_clock /\ d \in Nat /\ d <= M
    BY <1>1 DEF etimer_adjust, Movable
  <2> QED
    BY <1>1, <2>1
<1>3. (etimer[t].start + d) % ClockWrap = s
  BY <1>1, <1>2, StartMoves DEF etimer_adjust, EtInv
<1>4. /\ etimer' = [etimer EXCEPT ![t].start = s] /\ update_time(timerlist, etimer')
      /\ UNCHANGED <<timerlist, next_expiration, current_clock, poll, etRun>> /\ ~ etRun
  BY <1>3 DEF etimer_adjust, CanCall
<1>5. etimer' \in [Etimer -> Timers(M)] /\ \A u \in Etimer : etimer'[u].start <= current_clock + M
  BY <1>1, <1>2, <1>4 DEF Timers
<1>6. \A u \in Etimer : ends(u) \in Nat /\ ends(u)' \in Nat /\ ends(u) <= ends(u)'
  <2>1. \A u \in Etimer : /\ etimer'[u].interval = etimer[u].interval
                          /\ etimer'[u].start = IF u = t THEN s ELSE etimer[u].start
    BY <1>1, <1>4 DEF Timers
  <2>2. ASSUME NEW u \in Etimer
        PROVE  ends(u) \in Nat /\ ends(u)' \in Nat /\ ends(u) <= ends(u)'
    <3>1. PICK b, l, a \in Nat : /\ b = etimer[u].start /\ l = etimer[u].interval
                                 /\ a = etimer'[u].start /\ b <= a
      BY <1>1, <1>2, <2>1
    <3>2. ends(u) = b + l /\ ends(u)' = a + l
      BY <2>1, <3>1 DEF ends
    <3> QED
      BY <3>1, <3>2
  <2> QED
    BY <2>2
<1>7. /\ update' \in Nat
      /\ \A u \in ToSet(timerlist) : current_clock <= ends(u)' => update' <= ends(u)'
  BY <1>1, <1>4, <1>5, update_timeFinds DEF EtInv, ends
<1>8. EtTypes(M)'
  BY <1>1, <1>4, <1>5, <1>7 DEF EtInv, EtTypes
<1>9. \A u \in ToSet(timerlist') : Timely(u)'
  <2>1. \A u \in ToSet(timerlist) : u \in Etimer /\ Timely(u)
    BY <1>1 DEF ToSet, EtInv
  <2>2. wanted' = update' /\ next_expiration \in Nat
    BY <1>7 DEF wanted, EtInv, EtTypes
  <2> QED
    BY <1>1, <1>4, <1>6, <1>7, <2>1, <2>2 DEF Timely
<1> QED
  BY <1>8, <1>9 DEF EtInv

LEMMA etimer_stopInv ==
  ASSUME NEW M, EtBounds(M), EtInv(M), NEW t \in Etimer, etimer_stop(t)
  PROVE  EtInv(M)'
<1>1. /\ timerlist \in Seq(Etimer) /\ etimer \in [Etimer -> Timers(M)] /\ EtTypes(M)
      /\ timerlist' \in Seq(Etimer) /\ ToSet(timerlist') \subseteq ToSet(timerlist)
      /\ etimer' = [etimer EXCEPT ![t].p = NoOwner]
      /\ UNCHANGED <<next_expiration, current_clock, poll, etRun>>
  BY ListPart DEF etimer_stop, EtInv, EtTypes
<1>2. /\ etimer' \in [Etimer -> Timers(M)]
      /\ \A u \in Etimer : etimer'[u].start = etimer[u].start /\ etimer'[u].interval = etimer[u].interval
  BY <1>1 DEF Timers
<1>3. \A u \in Etimer : ends(u)' = ends(u)
  BY <1>2 DEF ends
<1>4. CASE t \in ToSet(timerlist)
  <2>1. /\ update' \in Nat
        /\ \A u \in ToSet(timerlist') : current_clock <= ends(u) => update' <= ends(u)
    BY <1>1, <1>4, update_timeFinds DEF etimer_stop, EtTypes, ends
  <2>2. EtTypes(M)'
    BY <1>1, <1>2, <2>1 DEF EtTypes
  <2>3. wanted' = update'
    BY <2>1 DEF wanted
  <2> QED
    BY <1>1, <1>3, <2>1, <2>2, <2>3, StillTimely
<1>5. CASE t \notin ToSet(timerlist)
  <2>1. update' = update
    BY <1>5 DEF etimer_stop
  <2>2. EtTypes(M)' /\ wanted' = wanted
    BY <1>1, <1>2, <2>1 DEF EtTypes, wanted
  <2> QED
    BY <1>1, <1>3, <2>2, StillTimely
<1> QED
  BY <1>4, <1>5

LEMMA etimer_exitedInv ==
  ASSUME NEW M, EtBounds(M), EtInv(M), NEW p \in EtOwner, etimer_exited(p)
  PROVE  EtInv(M)'
<1>1. /\ EtTypes(M) /\ timerlist' \in Seq(Etimer) /\ ToSet(timerlist') \subseteq ToSet(timerlist)
      /\ UNCHANGED <<next_expiration, current_clock, etimer, poll, etRun, update>>
  BY unlinkedPart DEF etimer_exited, EtInv, EtTypes
<1>2. EtTypes(M)' /\ wanted' = wanted /\ \A u \in Etimer : ends(u)' = ends(u)
  BY <1>1 DEF EtTypes, wanted, ends
<1> QED
  BY <1>1, <1>2, StillTimely

\* A tick at next_expiration asks for etimer_process, before or after update_time.
LEMMA TicksInv ==
  ASSUME NEW M, EtBounds(M), EtInv(M), proto_tick_handler \/ update_written \/ etimer_polled
  PROVE  EtInv(M)'
<1>1. /\ M \in Nat /\ current_clock \in Nat /\ next_expiration \in Nat /\ update \in Nat \cup {-1}
      /\ ClockMax \in Nat
      /\ \A u \in Etimer : etimer[u].start \in Nat /\ etimer[u].start <= current_clock + M
  BY EtimerAssumption DEF EtBounds, EtInv, EtTypes, Timers
<1>0. current_clock < ClockMax => (current_clock + 1) % ClockWrap = current_clock + 1
  <2>1. PICK x \in Int : x = current_clock + 1
    BY <1>1
  <2>2. ClockWrap \in Nat \ {0} /\ ClockMax + 2 * M + 1 < ClockWrap
    BY EtimerAssumption DEF EtBounds
  <2>3. current_clock < ClockMax => x \in 0 .. ClockWrap - 1
    BY <1>1, <2>1, <2>2
  <2> QED
    BY <2>1, <2>2, <2>3, ModFacts
<1>2. \A u \in ToSet(timerlist) : u \in Etimer /\ ends(u) \in Nat /\ Timely(u)
  <2>1. \A u \in ToSet(timerlist) : u \in Etimer
    BY DEF ToSet, EtInv, EtTypes
  <2>2. \A u \in Etimer : ends(u) \in Nat
    BY DEF ends, Timers, EtBounds, EtInv, EtTypes
  <2> QED
    BY <2>1, <2>2 DEF EtInv
<1>3. timerlist' = timerlist /\ etimer' = etimer /\ \A u : ends(u)' = ends(u)
  BY DEF proto_tick_handler, update_written, etimer_polled, ends
<1>4. CASE proto_tick_handler
  <2>1. /\ current_clock < ClockMax /\ current_clock' = current_clock + 1 /\ wanted' = wanted
        /\ UNCHANGED <<next_expiration, etRun, update>>
        /\ poll => poll'
        /\ timerlist # <<>> /\ next_expiration <= current_clock + 1 => poll'
    BY <1>0, <1>4 DEF proto_tick_handler, wanted
  <2>2. \A u \in Etimer : etimer[u].start <= current_clock + 1 + M
    BY <1>1
  <2>3. EtTypes(M)'
    BY <1>1, <1>3, <2>1, <2>2 DEF EtInv, EtTypes
  <2>4. wanted \in Nat
    BY <1>1 DEF wanted
  <2>5. ASSUME NEW u \in ToSet(timerlist) PROVE Timely(u)'
    <3>1. timerlist # <<>>
      BY DEF ToSet
    <3>2. /\ wanted <= ends(u) \/ (ends(u) <= current_clock /\ (poll \/ etRun))
          /\ next_expiration <= ends(u) \/ poll \/ (ends(u) <= current_clock /\ etRun)
          /\ ends(u) <= current_clock => poll \/ etRun
      BY <1>2 DEF Timely
    <3>3. ends(u) <= current_clock => ends(u) <= current_clock + 1
      BY <1>1, <1>2
    <3>4. ends(u) <= current_clock + 1 => poll' \/ etRun
      BY <1>1, <1>2, <2>1, <3>1, <3>2
    <3> QED
      BY <1>3, <2>1, <3>2, <3>3, <3>4 DEF Timely
  <2> QED
    BY <1>3, <2>3, <2>5 DEF EtInv
<1>5. CASE update_written
  <2>1. /\ update \in Nat /\ next_expiration' = update /\ update' = -1
        /\ UNCHANGED <<current_clock, poll, etRun>> /\ wanted = update /\ wanted' = update
    BY <1>1, <1>5 DEF update_written, wanted
  <2>2. EtTypes(M)'
    BY <1>3, <2>1 DEF EtInv, EtTypes
  <2>3. \A u \in ToSet(timerlist) : Timely(u)'
    BY <1>2, <1>3, <2>1 DEF Timely
  <2> QED
    BY <1>3, <2>2, <2>3 DEF EtInv
<1>6. CASE etimer_polled
  <2>1. /\ poll' = FALSE /\ etRun' = TRUE /\ wanted = next_expiration /\ wanted' = wanted
        /\ UNCHANGED <<next_expiration, current_clock, update>>
    BY <1>6 DEF etimer_polled, CanCall, wanted
  <2>2. EtTypes(M)'
    BY <1>3, <2>1 DEF EtInv, EtTypes
  <2>3. \A u \in ToSet(timerlist) : Timely(u)'
    BY <1>2, <1>3, <2>1 DEF Timely
  <2> QED
    BY <1>3, <2>2, <2>3 DEF EtInv
<1> QED
  BY <1>4, <1>5, <1>6

\* etimer_process ends its loop with no expired timer on the list, or takes one off.
LEMMA etimer_processInv ==
  ASSUME NEW M, EtBounds(M), EtInv(M), etimer_process
  PROVE  EtInv(M)'
<1> DEFINE i == SelectInSeq(timerlist, timer_expired)
           I == {j \in 1 .. Len(timerlist) : timer_expired(timerlist[j])}
<1>1. /\ M \in Nat /\ ClockWrap \in Nat \ {0} /\ ClockMax \in Nat /\ current_clock \in Nat
      /\ current_clock <= ClockMax /\ ClockMax + 2 * M + 1 < ClockWrap
  BY EtimerAssumption DEF EtBounds, EtInv, EtTypes
<1>2. /\ EtTypes(M) /\ timerlist \in Seq(Etimer) /\ etimer \in [Etimer -> Timers(M)]
      /\ \A t \in Etimer : etimer[t].start \in Nat /\ etimer[t].interval \in Nat
  BY <1>1 DEF EtInv, EtTypes, Timers
<1>3. \A t \in ToSet(timerlist) : t \in Etimer /\ ends(t) \in Nat /\ Timely(t)
  <2>1. \A t \in ToSet(timerlist) : t \in Etimer
    BY <1>2 DEF ToSet
  <2> QED
    BY <1>2, <2>1 DEF EtInv, ends
<1>4. i = IF I # {} THEN Min(I) ELSE 0
  BY DEF SelectInSeq
<1>5. I \in SUBSET Nat
  BY <1>2
<1>6. I # {} => i \in I
  <2> HIDE DEF I
  <2> QED
    BY <1>4, <1>5, MinOfNats
<1>7. I = {} <=> i = 0
  BY <1>2, <1>4, <1>6
<1> HIDE DEF i
<1>8. /\ UNCHANGED <<next_expiration, current_clock, poll>> /\ update = -1 /\ wanted = next_expiration
      /\ i = 0 => etRun' = FALSE /\ UNCHANGED <<timerlist, etimer, update>>
      /\ i # 0 => /\ timerlist' = RemoveAt(timerlist, i)
                  /\ etimer' = [etimer EXCEPT ![timerlist[i]].p = NoOwner]
                  /\ update_time(timerlist', etimer)
                  /\ UNCHANGED etRun
  BY DEF etimer_process, wanted, i
<1>9. CASE i = 0
  <2>1. \A t \in ToSet(timerlist) : ~ timer_expired(t)
    BY <1>7, <1>9 DEF ToSet
  <2>2. ASSUME NEW t \in ToSet(timerlist) PROVE current_clock < ends(t)
    <3>1. PICK b, l \in Nat : b = etimer[t].start /\ l = etimer[t].interval
      BY <1>2, <1>3
    <3>2. CASE b > current_clock
      BY <1>1, <3>1, <3>2 DEF ends
    <3>3. CASE b <= current_clock
      <4>1. PICK x \in Int : x = current_clock - b + 1 /\ x \in 0 .. ClockWrap - 1
        BY <1>1, <3>1, <3>3
      <4>2. x % ClockWrap = x
        BY <1>1, <4>1, ModFacts
      <4>3. ~ (l < x)
        BY <2>1, <3>1, <4>1, <4>2 DEF timer_expired
      <4> QED
        BY <1>1, <3>1, <4>1, <4>3 DEF ends
    <3> QED
      BY <1>1, <3>1, <3>2, <3>3
  <2>3. EtTypes(M)' /\ \A t : ends(t)' = ends(t)
    BY <1>2, <1>8, <1>9 DEF EtTypes, ends
  <2>4. next_expiration \in Nat /\ wanted' = next_expiration
    BY <1>2, <1>8, <1>9 DEF EtTypes, wanted
  <2>5. ASSUME NEW t \in ToSet(timerlist) PROVE Timely(t)'
    <3>1. ~ (ends(t) <= current_clock)
      BY <1>1, <1>3, <2>2
    <3>2. next_expiration <= ends(t)
      BY <1>3, <1>8, <3>1 DEF Timely
    <3> QED
      BY <1>8, <2>3, <2>4, <3>1, <3>2 DEF Timely
  <2> QED
    BY <1>8, <1>9, <2>3, <2>5 DEF EtInv
<1>10. CASE i # 0
  <2>1. i \in 1 .. Len(timerlist) /\ timerlist[i] \in Etimer
    BY <1>2, <1>6, <1>7, <1>10
  <2>2. timerlist' \in Seq(Etimer) /\ ToSet(timerlist') \subseteq ToSet(timerlist)
    BY <1>2, <1>8, <1>10, <2>1, ListPart
  <2>3. /\ etimer' \in [Etimer -> Timers(M)]
        /\ \A t \in Etimer : etimer'[t].start = etimer[t].start /\ etimer'[t].interval = etimer[t].interval
    <3>1. PICK t \in Etimer : t = timerlist[i]
      BY <2>1
    <3>2. etimer' = [etimer EXCEPT ![t].p = NoOwner]
      BY <1>8, <1>10, <3>1
    <3> QED
      BY <1>2, <3>1, <3>2 DEF Timers
  <2>4. \A t \in Etimer : ends(t)' = ends(t)
    BY <2>3 DEF ends
  <2>5. /\ update' \in Nat
        /\ \A t \in ToSet(timerlist') : current_clock <= ends(t) => update' <= ends(t)
    BY <1>2, <1>8, <1>10, <2>2, update_timeFinds DEF EtTypes, ends
  <2>6. EtTypes(M)' /\ wanted' = update'
    BY <1>2, <1>8, <1>10, <2>2, <2>3, <2>5 DEF EtTypes, wanted
  <2> QED
    BY <1>8, <1>10, <2>2, <2>4, <2>5, <2>6, StillTimely
<1> QED
  BY <1>9, <1>10

LEMMA EtInitInv ==
  ASSUME NEW M, EtBounds(M), EtInit
  PROVE  EtInv(M)
<1>1. M \in Nat /\ 0 \in 0 .. ClockMax /\ ToSet(<<>>) = {}
  BY EtimerAssumption DEF EtBounds, ToSet
<1>2. etimer \in [Etimer -> Timers(M)] /\ \A t \in Etimer : etimer[t].start <= current_clock + M
  BY <1>1 DEF EtInit, Timers
<1> QED
  BY <1>1, <1>2 DEF EtInit, EtInv, EtTypes

LEMMA EtNextInv ==
  ASSUME NEW M, EtBounds(M), EtInv(M), [EtNext]_etimerVars
  PROVE  EtInv(M)'
<1>1. CASE UNCHANGED etimerVars
  <2>1. EtTypes(M)' /\ timerlist' = timerlist
    BY <1>1 DEF etimerVars, EtInv, EtTypes
  <2>2. \A t : Timely(t)' <=> Timely(t)
    BY <1>1 DEF etimerVars, Timely, wanted, ends
  <2> QED
    BY <2>1, <2>2 DEF EtInv
<1>2. CASE EtNext
  <2>1. ASSUME NEW p \in EtOwner, NEW t \in Etimer,
               (\E i \in Interval : etimer_set(p, t, i)) \/ etimer_reset(p, t) \/ etimer_restart(p, t)
        PROVE  EtInv(M)'
    BY <2>1, AddersInv
  <2>2. ASSUME NEW t \in Etimer, etimer_stop(t) PROVE EtInv(M)'
    BY <2>2, etimer_stopInv
  <2>3. ASSUME NEW t \in Etimer, NEW d \in AdjustBy \cup {-b : b \in AdjustBack}, etimer_adjust(t, d)
        PROVE  EtInv(M)'
    <3>1. d \in AdjustBy
      BY DEF EtBounds
    <3> QED
      BY <2>3, <3>1, etimer_adjustInv
  <2>4. ASSUME NEW p \in EtOwner, etimer_exited(p) PROVE EtInv(M)'
    BY <2>4, etimer_exitedInv
  <2> QED
    BY <1>2, <2>1, <2>2, <2>3, <2>4, TicksInv, etimer_processInv DEF EtNext
<1> QED
  BY <1>1, <1>2

\* No expiry is missed: whenever a timer on the list is due, etimer_process is asked
\* for, whatever was added, stopped, moved on or removed with its process, and
\* wherever ticks fell into update_time.  For any bound M on intervals and forward
\* moves up to a quarter of the clock's range.  Timers are not moved back and the clock
\* has not wrapped: in both cases the code misses expiries, and not even ServedNextTick
\* holds.
THEOREM NoExpiryIsMissed ==
  ASSUME NEW M, EtBounds(M)
  PROVE  EtimerSpec => []NoExpiryMissed
<1>1. EtInit => EtInv(M)
  BY EtInitInv
<1>2. EtInv(M) /\ [EtNext]_etimerVars => EtInv(M)'
  BY EtNextInv
<1>3. EtInv(M) => NoExpiryMissed
  <2> SUFFICES ASSUME EtInv(M), CanCall, NEW t \in ToSet(timerlist), Due(t)
               PROVE  poll
    BY DEF NoExpiryMissed
  <2>1. /\ M \in Nat /\ ClockWrap \in Nat \ {0} /\ current_clock \in Nat
        /\ 4 * M <= ClockWrap
    BY EtimerAssumption DEF EtBounds, EtInv, EtTypes
  <2>2. PICK e \in Nat : e = ends(t) /\ e <= current_clock + 2 * M
    <3>1. t \in Etimer
      BY DEF ToSet, EtInv, EtTypes
    <3>2. etimer[t] \in Timers(M) /\ etimer[t].start <= current_clock + M
      BY <3>1 DEF EtInv, EtTypes
    <3>3. etimer[t].start \in Nat /\ etimer[t].interval \in Nat /\ etimer[t].interval <= M
      BY <2>1, <3>2 DEF Timers
    <3> QED
      BY <2>1, <3>2, <3>3 DEF ends
  <2>3. e <= current_clock
    <3>1. SUFFICES ASSUME e > current_clock PROVE FALSE
      BY <2>1, <2>2
    <3>2. PICK x \in Int : x = current_clock - e /\ x \in -ClockWrap .. -1 /\ -(2 * M) <= x
      BY <2>1, <2>2, <3>1
    <3>3. x % ClockWrap = x + ClockWrap
      BY <2>1, <3>2, ModFacts
    <3>4. 2 * (x % ClockWrap) < ClockWrap
      BY <2>2, <3>2 DEF Due, ends
    <3> QED
      BY <2>1, <3>2, <3>3, <3>4
  <2> QED
    BY <2>2, <2>3 DEF EtInv, Timely, CanCall
<1> QED
  BY <1>1, <1>2, <1>3, PTL DEF EtimerSpec
=============================================================================
