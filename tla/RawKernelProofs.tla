-------------------------- MODULE RawKernelProofs --------------------------
(***************************************************************************)
(* What the internal functions of the kernel do to its lists, for every    *)
(* set of tasks, every number of priorities and every set of objects.      *)
(***************************************************************************)
EXTENDS RawKernel, RawListProofs

-----------------------------------------------------------------------------
(* What a primitive of one kind of list does to the kernel record.          *)

\* The idle task is linked on the ready list of the lowest priority for ever,
\* so that a most urgent ready list exists whatever is removed.
IdleReady(K) ==
  /\ In(Idle, K.task_ready_list[IdlePrio])
  /\ K.priority[Idle] = IdlePrio

\* K1 is K after the block of t was linked on (on = TRUE) or unlinked from
\* (on = FALSE) the ready list of its priority, and nothing else.
ReadyStep(K, K1, t, on) ==
  /\ K1 = [K EXCEPT !.task_ready_list = K1.task_ready_list,
                    !.task_bit_map = K1.task_bit_map,
                    !.highest_priority = K1.highest_priority]
  /\ K1 \in KernelState
  /\ IndexOK(K1)
  /\ \A p \in Prio :
       /\ NoDup(K1.task_ready_list[p])
       /\ \A u \in Task : In(u, K1.task_ready_list[p])
                           <=> IF u = t THEN on /\ p = K.priority[t]
                                        ELSE In(u, K.task_ready_list[p])

\* How long the tasks on the tick list still have to wait: they are in the order
\* of their times, and every one has at least n ticks left.
TicksOK(K, n) ==
  /\ Sorted(K.tick_head, tick_remains(K))
  /\ \A u \in Task : In(u, K.tick_head) => tick_remain(K, u) >= n

TicksKept(K, K1) ==
  /\ K1.raw_tick_count = K.raw_tick_count
  /\ \A n \in {0, 1} : TicksOK(K, n) => TicksOK(K1, n)

SameTicks(K, K1) ==
  /\ K1.tick_head = K.tick_head /\ K1.tick_match = K.tick_match
  /\ K1.raw_tick_count = K.raw_tick_count

\* What the tasks hold: the mutexes, how many times, the links between them, the
\* priorities without any inheritance.
SameHeld(K, K1) ==
  /\ K1.mtxtsk = K.mtxtsk /\ K1.mtxnext = K.mtxnext /\ K1.mtxlist = K.mtxlist
  /\ K1.bpriority = K.bpriority /\ K1.owner_nested = K.owner_nested

LEMMA TicksCompose ==
  ASSUME NEW K, NEW K1, NEW K2
  PROVE  /\ TicksKept(K, K)
         /\ SameTicks(K, K1) => TicksKept(K, K1)
         /\ TicksKept(K, K1) /\ TicksKept(K1, K2) => TicksKept(K, K2)
         /\ TicksKept(K, K1) /\ SameTicks(K1, K2) => TicksKept(K, K2)
BY DEF TicksKept, SameTicks, TicksOK, tick_remains, tick_remain

\* The same for the tick list ...
TickStep(K, K1, t, on) ==
  /\ K1 = [K EXCEPT !.tick_head = K1.tick_head, !.tick_match = K1.tick_match]
  /\ K1 \in KernelState /\ TicksKept(K, K1)
  /\ NoDup(K1.tick_head)
  /\ \A u \in Task : In(u, K1.tick_head) <=> IF u = t THEN on ELSE In(u, K.tick_head)

\* ... and for the block lists: t is on that of o, or on none if o is NoObj.
BlockStep(K, K1, t, o) ==
  /\ K1 = [K EXCEPT !.block_list = K1.block_list]
  /\ K1 \in KernelState /\ BlockSorted(K1)
  /\ \A q \in Obj :
       /\ NoDup(K1.block_list[q])
       /\ \A u \in Task : In(u, K1.block_list[q])
                           <=> IF u = t THEN q = o ELSE In(u, K.block_list[q])

OffReady(K, t) == \A p \in Prio : ~ In(t, K.task_ready_list[p])
OffBlock(K, t) == \A o \in Obj : ~ In(t, K.block_list[o])

LEMMA PrioFacts ==
  /\ IdlePrio \in Prio /\ Prio \in SUBSET Nat
  /\ \A p \in Prio : p <= IdlePrio
BY KernelAssumption DEF IdlePrio, Prio

-----------------------------------------------------------------------------
(* raw_pend.c: the ready queue.                                             *)

\* The types of the fields the three kinds of step change.
LEMMA QueueType ==
  ASSUME NEW K \in KernelState, NEW lists \in [Prio -> Seq(Task)],
         NEW bits \in SUBSET Prio, NEW p \in Prio
  PROVE  [K EXCEPT !.task_ready_list = lists, !.task_bit_map = bits,
                   !.highest_priority = p] \in KernelState
BY DEF KernelState

LEMMA TickType ==
  ASSUME NEW K \in KernelState, NEW list \in Seq(Task), NEW match \in [Task -> Ticks]
  PROVE  [K EXCEPT !.tick_head = list, !.tick_match = match] \in KernelState
BY DEF KernelState

LEMMA BlockType ==
  ASSUME NEW K \in KernelState, NEW lists \in [Obj -> Seq(Task)]
  PROVE  [K EXCEPT !.block_list = lists] \in KernelState
BY DEF KernelState

\* The bit of the priority and the highest priority after a list has grown.
LEMMA GrowReady ==
  ASSUME NEW K \in KernelState, IndexOK(K), ReadyOnce(K),
         NEW t \in Task, OffReady(K, t), NEW list \in Seq(Task),
         list # <<>>, NoDup(list),
         \A u \in Task : In(u, list) <=> (In(u, K.task_ready_list[K.priority[t]]) \/ u = t)
  PROVE  ReadyStep(K, mark_ready([K EXCEPT !.task_ready_list[K.priority[t]] = list],
                                 K.priority[t]), t, TRUE)
<1> DEFINE p == K.priority[t]
           K1 == mark_ready([K EXCEPT !.task_ready_list[p] = list], p)
<1>1. p \in Prio
  BY DEF KernelState
<1>2. /\ K1 = [K EXCEPT !.task_ready_list = K1.task_ready_list,
                        !.task_bit_map = K1.task_bit_map,
                        !.highest_priority = K1.highest_priority]
      /\ K1.task_ready_list = [K.task_ready_list EXCEPT ![p] = list]
      /\ K1.task_bit_map = K.task_bit_map \cup {p}
      /\ K1.highest_priority = IF p < K.highest_priority THEN p ELSE K.highest_priority
  BY DEF KernelState, mark_ready
<1>3. /\ K.task_ready_list \in [Prio -> Seq(Task)] /\ K.highest_priority \in Prio
       /\ K.task_bit_map \in SUBSET Prio
  BY DEF KernelState
<1> HIDE DEF K1
<1>4. K1 \in KernelState
  <2>1. /\ K1.task_ready_list \in [Prio -> Seq(Task)]
        /\ K1.task_bit_map \in SUBSET Prio /\ K1.highest_priority \in Prio
    BY <1>1, <1>2, <1>3
  <2>2. [K EXCEPT !.task_ready_list = K1.task_ready_list,
                  !.task_bit_map = K1.task_bit_map,
                  !.highest_priority = K1.highest_priority] \in KernelState
    BY <2>1, QueueType
  <2> QED
    BY <1>2, <2>2, Zenon
<1>5. IndexOK(K1)
  <2>1. \A q \in Prio : K1.task_ready_list[q] = IF q = p THEN list ELSE K.task_ready_list[q]
    BY <1>2, <1>3
  <2>2. K1.task_bit_map = {q \in Prio : K1.task_ready_list[q] # <<>>}
    <3>1. \A q \in Prio : q \in K1.task_bit_map <=> K1.task_ready_list[q] # <<>>
      BY <1>2, <2>1 DEF IndexOK
    <3> QED
      BY SMTT(30), <1>1, <1>2, <1>3, <3>1
  <2>3. K1.highest_priority \in K1.task_bit_map
    BY <1>2 DEF IndexOK
  <2>4. \A q \in K1.task_bit_map : K1.highest_priority <= q
    <3>1. p \in Nat /\ K.highest_priority \in Nat /\ K.task_bit_map \in SUBSET Nat
      BY <1>1, <1>3, PrioFacts
    <3>2. \A q \in K.task_bit_map : K.highest_priority <= q
      BY DEF IndexOK
    <3> QED
      BY <1>2, <3>1, <3>2
  <2> QED
    BY <2>2, <2>3, <2>4 DEF IndexOK
<1>6. ASSUME NEW q \in Prio
      PROVE  /\ NoDup(K1.task_ready_list[q])
             /\ \A u \in Task : In(u, K1.task_ready_list[q])
                                 <=> IF u = t THEN q = p ELSE In(u, K.task_ready_list[q])
  <2>1. K1.task_ready_list[q] = IF q = p THEN list ELSE K.task_ready_list[q]
    BY <1>2, <1>3
  <2> QED
    BY <2>1 DEF ReadyOnce, OffReady
<1> QED
  BY <1>2, <1>4, <1>5, <1>6 DEF ReadyStep, K1

LEMMA add_ready_list_headLinks ==
  ASSUME NEW K \in KernelState, IndexOK(K), ReadyOnce(K), NEW t \in Task, OffReady(K, t)
  PROVE  ReadyStep(K, add_ready_list_head(K, t), t, TRUE)
<1> DEFINE p == K.priority[t]
           list == <<t>> \o K.task_ready_list[p]
<1>1. p \in Prio /\ K.task_ready_list \in [Prio -> Seq(Task)]
  BY DEF KernelState
<1>2. /\ list \in Seq(Task) /\ list # <<>> /\ NoDup(list)
      /\ \A u \in Task : In(u, list) <=> (In(u, K.task_ready_list[p]) \/ u = t)
  BY <1>1, ConsLinks DEF OffReady, ReadyOnce
<1>3. add_ready_list_head(K, t) = mark_ready([K EXCEPT !.task_ready_list[p] = list], p)
  BY DEF add_ready_list_head, KernelState
<1> QED
  BY <1>2, <1>3, GrowReady

LEMMA add_ready_list_endLinks ==
  ASSUME NEW K \in KernelState, IndexOK(K), ReadyOnce(K), NEW t \in Task, OffReady(K, t)
  PROVE  ReadyStep(K, add_ready_list_end(K, t), t, TRUE)
<1> DEFINE p == K.priority[t]
           list == Append(K.task_ready_list[p], t)
<1>1. p \in Prio /\ K.task_ready_list \in [Prio -> Seq(Task)]
  BY DEF KernelState
<1>2. /\ list \in Seq(Task) /\ list # <<>> /\ NoDup(list)
      /\ \A u \in Task : In(u, list) <=> (In(u, K.task_ready_list[p]) \/ u = t)
  BY <1>1, AppendLinks DEF OffReady, ReadyOnce
<1>3. add_ready_list_end(K, t) = mark_ready([K EXCEPT !.task_ready_list[p] = list], p)
  BY DEF add_ready_list_end, KernelState
<1> QED
  BY <1>2, <1>3, GrowReady

\* add_ready_list inserts at the head or at the end: the links are the same.
LEMMA add_ready_listLinks ==
  ASSUME NEW K \in KernelState, IndexOK(K), ReadyOnce(K), NEW t \in Task, OffReady(K, t)
  PROVE  ReadyStep(K, add_ready_list(K, t), t, TRUE)
BY add_ready_list_headLinks, add_ready_list_endLinks DEF add_ready_list

\* remove_ready_list always finds the next priority, because the idle task
\* stays, and keeps the bitmap exact.
LEMMA remove_ready_listUnlinks ==
  ASSUME NEW K \in KernelState, IndexOK(K), ReadyOnce(K), IdleReady(K),
         NEW t \in Task \ {Idle},
         \A p \in Prio : p # K.priority[t] => ~ In(t, K.task_ready_list[p])
  PROVE  ReadyStep(K, remove_ready_list(K, t), t, FALSE)
<1> DEFINE p    == K.priority[t]
           list == RemoveFirst(K.task_ready_list[p], t)
           bits == K.task_bit_map \ {p}
           next == {q \in bits : q >= p}
           K1   == remove_ready_list(K, t)
<1>1. /\ p \in Prio /\ K.task_ready_list \in [Prio -> Seq(Task)]
      /\ K.highest_priority \in Prio /\ K.task_bit_map \subseteq Prio
  BY DEF KernelState
<1>2. /\ list \in Seq(Task) /\ NoDup(list)
      /\ \A u \in Task : In(u, list) <=> (In(u, K.task_ready_list[p]) /\ u # t)
  BY <1>1, RemoveFirstUnlinks DEF ReadyOnce
<1> HIDE DEF list
<1>3. list = <<>> => IdlePrio \in next
  <2>1. In(Idle, K.task_ready_list[IdlePrio]) /\ K.task_ready_list[IdlePrio] # <<>>
    BY <1>1, PrioFacts, LinkedNonEmpty DEF IdleReady
  <2>2. p = IdlePrio => In(Idle, list)
    BY <1>2, <2>1, KernelAssumption
  <2>3. p = IdlePrio => list # <<>>
    BY <1>2, <2>2, LinkedNonEmpty
  <2>4. IdlePrio >= p
    BY <1>1, PrioFacts
  <2> QED
    BY <2>1, <2>3, <2>4, PrioFacts DEF IndexOK
<1>4. list = <<>> => Min(next) \in next /\ \A q \in next : Min(next) <= q
  <2>1. next \in SUBSET Nat
    BY <1>1, PrioFacts
  <2> HIDE DEF next
  <2> QED
    BY <1>3, <2>1, MinOfNats
<1>5. /\ K1 = [K EXCEPT !.task_ready_list = K1.task_ready_list,
                        !.task_bit_map = K1.task_bit_map,
                        !.highest_priority = K1.highest_priority]
      /\ K1.task_ready_list = [K.task_ready_list EXCEPT ![p] = list]
      /\ K1.task_bit_map = IF list = <<>> THEN bits ELSE K.task_bit_map
      /\ K1.highest_priority = IF list = <<>> /\ p = K.highest_priority
                               THEN Min(next) ELSE K.highest_priority
  BY ZenonT(60), <1>1, <1>3 DEF KernelState, remove_ready_list, Fault, list
<1> HIDE DEF K1
<1>6. K1 \in KernelState
  <2>1. /\ K1.task_ready_list \in [Prio -> Seq(Task)]
        /\ K1.task_bit_map \in SUBSET Prio /\ K1.highest_priority \in Prio
    BY <1>1, <1>2, <1>4, <1>5
  <2>2. [K EXCEPT !.task_ready_list = K1.task_ready_list,
                  !.task_bit_map = K1.task_bit_map,
                  !.highest_priority = K1.highest_priority] \in KernelState
    BY <2>1, QueueType
  <2> QED
    BY <1>5, <2>2, Zenon
<1>7. IndexOK(K1)
  <2>1. \A q \in Prio : K1.task_ready_list[q] = IF q = p THEN list ELSE K.task_ready_list[q]
    BY <1>1, <1>5
  <2>2. list # <<>> => p \in K.task_bit_map
    <3>1. ASSUME list # <<>> PROVE K.task_ready_list[p] # <<>>
      <4>1. In(Head(list), list) /\ Head(list) \in Task
        BY <1>2, <3>1, LinkedNonEmpty
      <4> QED
        BY <1>1, <1>2, <4>1, LinkedNonEmpty
    <3> QED
      BY <1>1, <3>1 DEF IndexOK
  <2>3. K1.task_bit_map = {q \in Prio : K1.task_ready_list[q] # <<>>}
    BY <1>1, <1>5, <2>1, <2>2 DEF IndexOK
  <2>4. K1.highest_priority \in K1.task_bit_map
    BY <1>4, <1>5 DEF IndexOK
  <2>5. \A q \in K1.task_bit_map : K1.highest_priority <= q
    BY <1>1, <1>4, <1>5, PrioFacts DEF IndexOK
  <2> QED
    BY <2>3, <2>4, <2>5 DEF IndexOK
<1>8. ASSUME NEW q \in Prio
      PROVE  /\ NoDup(K1.task_ready_list[q])
             /\ \A u \in Task : In(u, K1.task_ready_list[q])
                                 <=> IF u = t THEN FALSE ELSE In(u, K.task_ready_list[q])
  <2>1. K1.task_ready_list[q] = IF q = p THEN list ELSE K.task_ready_list[q]
    BY <1>1, <1>5
  <2> QED
    BY <1>2, <2>1 DEF ReadyOnce
<1> QED
  BY <1>5, <1>6, <1>7, <1>8 DEF ReadyStep, K1

\* The order of one list is all that changes.
LEMMA move_to_ready_list_endLinks ==
  ASSUME NEW K \in KernelState, IndexOK(K), ReadyOnce(K),
         NEW t \in Task, In(t, K.task_ready_list[K.priority[t]]),
         \A p \in Prio : p # K.priority[t] => ~ In(t, K.task_ready_list[p])
  PROVE  ReadyStep(K, move_to_ready_list_end(K, t), t, TRUE)
<1> DEFINE p    == K.priority[t]
           rest == RemoveFirst(K.task_ready_list[p], t)
           list == Append(rest, t)
           K1   == move_to_ready_list_end(K, t)
<1>1. /\ p \in Prio /\ K.task_ready_list \in [Prio -> Seq(Task)]
      /\ K.highest_priority \in Prio /\ K.task_bit_map \in SUBSET Prio
  BY DEF KernelState
<1>2. /\ rest \in Seq(Task) /\ NoDup(rest)
      /\ \A u \in Task : In(u, rest) <=> (In(u, K.task_ready_list[p]) /\ u # t)
  <2>1. K.task_ready_list[p] \in Seq(Task) /\ NoDup(K.task_ready_list[p])
    BY <1>1 DEF ReadyOnce
  <2> QED
    BY <2>1, RemoveFirstUnlinks
<1> HIDE DEF rest
<1>3. /\ list \in Seq(Task) /\ list # <<>> /\ NoDup(list)
      /\ \A u \in Task : In(u, list) <=> In(u, K.task_ready_list[p])
  BY <1>2, AppendLinks
<1>4. /\ K1 = [K EXCEPT !.task_ready_list = K1.task_ready_list,
                        !.task_bit_map = K1.task_bit_map,
                        !.highest_priority = K1.highest_priority]
      /\ K1.task_ready_list = [K.task_ready_list EXCEPT ![p] = list]
      /\ K1.task_bit_map = K.task_bit_map
      /\ K1.highest_priority = K.highest_priority
  BY <1>1 DEF KernelState, move_to_ready_list_end, rest
<1> HIDE DEF list, K1
<1>5. K1 \in KernelState
  <2>1. /\ K1.task_ready_list \in [Prio -> Seq(Task)]
        /\ K1.task_bit_map \in SUBSET Prio /\ K1.highest_priority \in Prio
    BY <1>1, <1>3, <1>4
  <2>2. [K EXCEPT !.task_ready_list = K1.task_ready_list,
                  !.task_bit_map = K1.task_bit_map,
                  !.highest_priority = K1.highest_priority] \in KernelState
    BY <2>1, QueueType
  <2> QED
    BY <1>4, <2>2, Zenon
<1>6. \A q \in Prio : K1.task_ready_list[q] = IF q = p THEN list ELSE K.task_ready_list[q]
  BY <1>1, <1>4
<1>7. K.task_ready_list[p] # <<>>
  BY <1>1, LinkedNonEmpty
<1>8. IndexOK(K1)
  <2>1. \A q \in Prio : K1.task_ready_list[q] # <<>> <=> K.task_ready_list[q] # <<>>
    BY <1>3, <1>6, <1>7
  <2> QED
    BY <1>4, <2>1 DEF IndexOK
<1>9. ASSUME NEW q \in Prio
      PROVE  /\ NoDup(K1.task_ready_list[q])
             /\ \A u \in Task : In(u, K1.task_ready_list[q])
                                 <=> IF u = t THEN q = p ELSE In(u, K.task_ready_list[q])
  BY <1>3, <1>6 DEF ReadyOnce
<1> QED
  BY <1>4, <1>5, <1>8, <1>9 DEF ReadyStep, K1

\* get_ready_task never takes the head of an empty list.
LEMMA HighestReadyIsReady ==
  ASSUME NEW K \in KernelState, IndexOK(K)
  PROVE  /\ HighestReady(K) \in Task
         /\ In(HighestReady(K), K.task_ready_list[K.highest_priority])
<1>1. K.task_ready_list[K.highest_priority] \in Seq(Task) \ {<<>>}
  BY DEF KernelState, IndexOK
<1> QED
  BY <1>1, LinkedNonEmpty DEF HighestReady

-----------------------------------------------------------------------------
(* raw_tick.c: the tick list.                                               *)

\* The arithmetic of the tick counter, also when it wraps.
LEMMA TickFacts ==
  /\ \A x, y \in Ticks : (x + y) % TickMod \in Ticks /\ (x - y) % TickMod \in Ticks
  /\ \A x, y \in Ticks : (((x + y) % TickMod) - x) % TickMod = y
  /\ \A K \in KernelState, u \in Task : tick_remain(K, u) \in Ticks
  /\ Ticks \subseteq Int
<1>1. TickMod \in Nat \ {0}
  BY KernelAssumption
<1>2. \A x, y \in Ticks : (x + y) % TickMod \in Ticks /\ (x - y) % TickMod \in Ticks
  BY <1>1, ModFacts DEF Ticks
<1>3. ASSUME NEW x \in Ticks, NEW y \in Ticks
      PROVE  (((x + y) % TickMod) - x) % TickMod = y
  <2>1. x \in Int /\ y \in Int /\ x >= 0 /\ x < TickMod /\ y >= 0 /\ y < TickMod
    BY <1>1 DEF Ticks
  <2>2. y % TickMod = y
    <3>1. y \in 0 .. TickMod - 1
      BY <1>1, <2>1
    <3> QED
      BY <1>1, <2>1, <3>1, ModFacts
  <2>3. CASE x + y < TickMod
    <3>1. x + y \in 0 .. TickMod - 1 /\ (x + y) - x = y
      BY <1>1, <2>1, <2>3
    <3> DEFINE z == x + y
    <3>a. z \in Int /\ z \in 0 .. TickMod - 1
      BY <2>1, <3>1
    <3> HIDE DEF z
    <3>b. z % TickMod = z
      BY <1>1, <3>a, ModFacts
    <3>2. (x + y) % TickMod = x + y
      BY <3>b DEF z
    <3> QED
      BY <2>2, <3>1, <3>2
  <2>4. CASE ~ (x + y < TickMod)
    <3> DEFINE d == y - TickMod
    <3>1. /\ x + y \in TickMod .. 2 * TickMod - 1 /\ ((x + y) - TickMod) - x = d
          /\ d \in -TickMod .. -1 /\ d + TickMod = y
      BY <1>1, <2>1, <2>4
    <3>2. (x + y) % TickMod = (x + y) - TickMod
      BY <1>1, <3>1, ModFacts
    <3> HIDE DEF d
    <3>3. d % TickMod = y
      BY <1>1, <3>1, ModFacts
    <3> QED
      BY <3>1, <3>2, <3>3
  <2> QED
    BY <2>3, <2>4
<1>4. \A K \in KernelState, u \in Task : tick_remain(K, u) \in Ticks
  BY <1>2 DEF tick_remain, KernelState
<1>5. Ticks \subseteq Int
  BY <1>1 DEF Ticks
<1> QED
  BY <1>2, <1>3, <1>4, <1>5

LEMMA tick_list_insertLinks ==
  ASSUME NEW K \in KernelState, NoDup(K.tick_head),
         NEW t \in Task, ~ In(t, K.tick_head), NEW time \in Ticks \ {0}
  PROVE  TickStep(K, tick_list_insert(K, t, time), t, TRUE)
<1> DEFINE later == {u \in Task : tick_remain(K, u) > time}
           list  == InsertBefore(K.tick_head, t, later)
           match == [K.tick_match EXCEPT ![t] = (K.raw_tick_count + time) % TickMod]
<1>1. K.tick_head \in Seq(Task) /\ K.tick_match \in [Task -> Ticks]
  BY DEF KernelState
<1>2. match \in [Task -> Ticks]
  <2>1. K.raw_tick_count \in Ticks
    BY DEF KernelState
  <2>2. (K.raw_tick_count + time) % TickMod \in Ticks
    BY <2>1, TickFacts
  <2> QED
    BY <1>1, <2>2
<1>3. tick_list_insert(K, t, time) = [K EXCEPT !.tick_head = list, !.tick_match = match]
  BY DEF tick_list_insert, KernelState
<1>a. \A u \in Task : u \in later <=> tick_remain(K, u) > time
  OBVIOUS
<1> HIDE DEF later
<1>4. /\ list \in Seq(Task) /\ NoDup(list)
      /\ \A u \in Task : In(u, list) <=> (In(u, K.tick_head) \/ u = t)
  BY <1>1, InsertBeforeLinks
<1> DEFINE K1 == [K EXCEPT !.tick_head = list, !.tick_match = match]
<1>b. match[t] = (K.raw_tick_count + time) % TickMod /\ \A u \in Task \ {t} : match[u] = K.tick_match[u]
  BY <1>1
<1> HIDE DEF match
<1>5. K1.tick_head = list /\ K1.tick_match = match /\ K1.raw_tick_count = K.raw_tick_count
  BY DEF KernelState
<1>6. K1 \in KernelState
  BY <1>2, <1>4, TickType
<1>7. K1 = [K EXCEPT !.tick_head = K1.tick_head, !.tick_match = K1.tick_match]
  BY <1>5
<1> HIDE DEF K1
<1>8. ASSUME NEW n \in {0, 1}, TicksOK(K, n) PROVE TicksOK(K1, n)
  <2> DEFINE f == tick_remains(K1)
  <2>1. f \in [Task -> Int] /\ \A u \in Task : f[u] = tick_remain(K1, u)
    BY <1>6, TickFacts DEF tick_remains
  <2>2. \A u \in Task \ {t} : tick_remain(K1, u) = tick_remain(K, u)
    BY <1>5, <1>b DEF tick_remain
  <2>3. tick_remain(K1, t) = time
    <3>1. K.raw_tick_count \in Ticks
      BY DEF KernelState
    <3>2. tick_remain(K1, t) = (((K.raw_tick_count + time) % TickMod) - K.raw_tick_count) % TickMod
      BY <1>5, <1>b DEF tick_remain
    <3> QED
      BY <3>1, <3>2, TickFacts
  <2> HIDE DEF f
  <2>4. \A u \in Task : In(u, K.tick_head) => u # t /\ f[u] = tick_remains(K)[u]
    BY <2>1, <2>2 DEF tick_remains
  <2>5. Sorted(K.tick_head, f)
    BY SMTT(30), <1>1, <1>8, <2>4, SortedAgree DEF TicksOK
  <2>6. \A u \in Task : In(u, K.tick_head) => (u \in later <=> f[u] > f[t])
    BY <1>a, <2>1, <2>2, <2>3, <2>4
  <2>7. Sorted(list, f)
    BY <1>1, <2>1, <2>5, <2>6, InsertBeforeSorted DEF list
  <2>8. \A u \in Task : In(u, list) => tick_remain(K1, u) >= n
    BY <1>4, <1>8, <2>2, <2>3 DEF TicksOK, Ticks
  <2> QED
    BY <1>5, <2>7, <2>8 DEF TicksOK, f
<1> QED
  BY <1>3, <1>4, <1>5, <1>6, <1>7, <1>8 DEF TickStep, TicksKept, K1

LEMMA tick_list_removeUnlinks ==
  ASSUME NEW K \in KernelState, NoDup(K.tick_head), NEW t \in Task
  PROVE  TickStep(K, tick_list_remove(K, t), t, FALSE)
<1> DEFINE list  == RemoveFirst(K.tick_head, t)
           match == [K.tick_match EXCEPT ![t] = 0]
<1>1. K.tick_head \in Seq(Task) /\ K.tick_match \in [Task -> Ticks]
  BY DEF KernelState
<1>2. match \in [Task -> Ticks]
  BY <1>1, KernelAssumption DEF Ticks
<1>3. tick_list_remove(K, t) = [K EXCEPT !.tick_head = list, !.tick_match = match]
  BY DEF tick_list_remove, KernelState
<1>4. /\ list \in Seq(Task) /\ NoDup(list)
      /\ \A u \in Task : In(u, list) <=> (In(u, K.tick_head) /\ u # t)
  BY <1>1, RemoveFirstUnlinks
<1> DEFINE K1 == [K EXCEPT !.tick_head = list, !.tick_match = match]
<1>a. \A f : Sorted(K.tick_head, f) => Sorted(list, f)
  BY <1>1, RemoveFirstSorted
<1>b. \A u \in Task \ {t} : match[u] = K.tick_match[u]
  BY <1>1
<1> HIDE DEF list, match
<1>5. K1.tick_head = list /\ K1.tick_match = match /\ K1.raw_tick_count = K.raw_tick_count
  BY DEF KernelState
<1>6. K1 \in KernelState
  BY <1>2, <1>4, TickType
<1>7. K1 = [K EXCEPT !.tick_head = K1.tick_head, !.tick_match = K1.tick_match]
  BY <1>5
<1> HIDE DEF K1
<1>8. ASSUME NEW n \in {0, 1}, TicksOK(K, n) PROVE TicksOK(K1, n)
  <2>1. \A u \in Task \ {t} : tick_remain(K1, u) = tick_remain(K, u)
    BY <1>5, <1>b DEF tick_remain
  <2>2. \A u \in Task : In(u, list) => tick_remains(K1)[u] = tick_remains(K)[u]
    BY <1>4, <2>1 DEF tick_remains
  <2>3. Sorted(list, tick_remains(K1))
    BY <1>4, <1>8, <1>a, <2>2, SortedAgree DEF TicksOK
  <2> QED
    BY <1>4, <1>5, <1>8, <2>1, <2>3 DEF TicksOK
<1> QED
  BY <1>3, <1>4, <1>5, <1>6, <1>7, <1>8 DEF TickStep, TicksKept, K1

-----------------------------------------------------------------------------
(* raw_pend.c: the block lists.                                             *)

LEMMA add_to_block_listLinks ==
  ASSUME NEW K \in KernelState, BlockOnce(K), BlockSorted(K), NEW t \in Task, OffBlock(K, t), NEW o \in Obj
  PROVE  BlockStep(K, add_to_block_list(K, o, t), t, o)
<1> DEFINE before == {u \in Task : K.priority[u] > K.priority[t]}
           list   == IF o \in FifoObj THEN Append(K.block_list[o], t)
                     ELSE InsertBefore(K.block_list[o], t, before)
           lists  == [K.block_list EXCEPT ![o] = list]
<1>1. K.block_list \in [Obj -> Seq(Task)]
  BY DEF KernelState
<1>2. add_to_block_list(K, o, t) = [K EXCEPT !.block_list = lists]
  BY <1>1 DEF add_to_block_list, KernelState
<1>a. /\ K.priority \in [Task -> Int]
      /\ \A u \in Task : u \in before <=> K.priority[u] > K.priority[t]
  <2>1. K.priority \in [Task -> Prio] /\ Prio \subseteq Int
    BY PrioFacts DEF KernelState
  <2> QED
    BY <2>1
<1> HIDE DEF before
<1>b. o \notin FifoObj => Sorted(list, K.priority)
  BY <1>1, <1>a, InsertBeforeSorted DEF BlockSorted
<1>3. /\ list \in Seq(Task) /\ NoDup(list)
      /\ \A u \in Task : In(u, list) <=> (In(u, K.block_list[o]) \/ u = t)
  BY <1>1, InsertBeforeLinks, AppendLinks DEF BlockOnce, OffBlock
<1> HIDE DEF list
<1>4. lists \in [Obj -> Seq(Task)]
  BY <1>1, <1>3
<1>5. \A q \in Obj : lists[q] = IF q = o THEN list ELSE K.block_list[q]
  BY <1>1
<1> HIDE DEF lists
<1>6. /\ [K EXCEPT !.block_list = lists].block_list = lists
      /\ [K EXCEPT !.block_list = lists].priority = K.priority
  BY DEF KernelState
<1>7. ASSUME NEW q \in Obj
      PROVE  /\ NoDup(lists[q])
             /\ \A u \in Task : In(u, lists[q])
                                 <=> IF u = t THEN q = o ELSE In(u, K.block_list[q])
  BY <1>3, <1>5 DEF BlockOnce, OffBlock
<1>8. BlockSorted([K EXCEPT !.block_list = lists])
  BY <1>5, <1>6, <1>b DEF BlockSorted
<1> QED
  BY <1>2, <1>4, <1>6, <1>7, <1>8, BlockType DEF BlockStep

LEMMA unlink_blockedUnlinks ==
  ASSUME NEW K \in KernelState, BlockOnce(K), BlockSorted(K), NEW t \in Task,
         \A q \in Obj : q # K.block_obj[t] => ~ In(t, K.block_list[q])
  PROVE  BlockStep(K, unlink_blocked(K, t), t, NoObj)
<1> DEFINE o     == K.block_obj[t]
           list  == RemoveFirst(K.block_list[o], t)
           lists == [K.block_list EXCEPT ![o] = list]
<1>1. K.block_list \in [Obj -> Seq(Task)] /\ o \in Obj \cup {NoObj} /\ NoObj \notin Obj
  BY KernelAssumption DEF KernelState
<1>2. unlink_blocked(K, t) = [K EXCEPT !.block_list = lists]
  BY <1>1 DEF unlink_blocked, KernelState
<1>3. o \in Obj => /\ list \in Seq(Task) /\ NoDup(list)
                   /\ \A u \in Task : In(u, list) <=> (In(u, K.block_list[o]) /\ u # t)
  BY <1>1, RemoveFirstUnlinks DEF BlockOnce
<1>a. o \in Obj \ FifoObj => Sorted(list, K.priority)
  BY <1>1, RemoveFirstSorted DEF BlockSorted
<1> HIDE DEF list
<1>4. lists \in [Obj -> Seq(Task)]
  BY <1>1, <1>3
<1>5. \A q \in Obj : lists[q] = IF q = o THEN list ELSE K.block_list[q]
  BY <1>1
<1> HIDE DEF lists
<1>6. /\ [K EXCEPT !.block_list = lists].block_list = lists
      /\ [K EXCEPT !.block_list = lists].priority = K.priority
  BY DEF KernelState
<1>7. ASSUME NEW q \in Obj
      PROVE  /\ NoDup(lists[q])
             /\ \A u \in Task : In(u, lists[q])
                                 <=> IF u = t THEN q = NoObj ELSE In(u, K.block_list[q])
  BY <1>1, <1>3, <1>5 DEF BlockOnce
<1>8. BlockSorted([K EXCEPT !.block_list = lists])
  BY <1>5, <1>6, <1>a DEF BlockSorted
<1> QED
  BY <1>2, <1>4, <1>6, <1>7, <1>8, BlockType DEF BlockStep

-----------------------------------------------------------------------------
(* The internal functions as a whole.  Consistent is the part of the       *)
(* inductive invariant that holds between any two of them; it implies       *)
(* ListsOK and HighestOK of RawTask.                                        *)

\* The fields that Consistent reads besides the three kinds of list.
SameTasks(K, K1) ==
  /\ K1.raw_task_active = K.raw_task_active /\ K1.task_state = K.task_state
  /\ K1.priority = K.priority /\ K1.block_obj = K.block_obj
  /\ K1.block_status = K.block_status /\ K1.raw_tick_count = K.raw_tick_count
  /\ SameHeld(K, K1) /\ K1.fault = K.fault /\ K1.live = K.live

SameQueue(K, K1) ==
  /\ K1.task_ready_list = K.task_ready_list /\ K1.task_bit_map = K.task_bit_map
  /\ K1.highest_priority = K.highest_priority

LEMMA QueueFrame ==
  ASSUME NEW K \in KernelState, NEW K1, NEW t, NEW on, ReadyStep(K, K1, t, on)
  PROVE  /\ K1 \in KernelState /\ SameTasks(K, K1)
         /\ K1.block_list = K.block_list /\ SameTicks(K, K1)
BY ZenonT(40) DEF SameHeld, ReadyStep, KernelState, SameTasks, SameTicks

LEMMA TickFrame ==
  ASSUME NEW K \in KernelState, NEW K1, NEW t, NEW on, TickStep(K, K1, t, on)
  PROVE  /\ K1 \in KernelState /\ SameTasks(K, K1) /\ SameQueue(K, K1)
         /\ K1.block_list = K.block_list
BY DEF SameHeld, TickStep, KernelState, SameTasks, SameQueue, SameTicks

LEMMA BlockFrame ==
  ASSUME NEW K \in KernelState, NEW K1, NEW t, NEW o, BlockStep(K, K1, t, o)
  PROVE  /\ K1 \in KernelState /\ SameTasks(K, K1) /\ SameQueue(K, K1)
         /\ SameTicks(K, K1)
BY DEF SameHeld, BlockStep, KernelState, SameTasks, SameQueue, SameTicks

\* What the states say about the idle task and about the head of a list.
LEMMA ConsistentFacts ==
  ASSUME NEW K, Consistent(K)
  PROVE  /\ IdleReady(K)
         /\ \A t \in Task : /\ K.task_state[t] # "RDY" => OffReady(K, t)
                            /\ K.task_state[t] \notin Pending => OffBlock(K, t)
                            /\ \A p \in Prio : p # K.priority[t] => ~ In(t, K.task_ready_list[p])
                            /\ \A o \in Obj : o # K.block_obj[t] => ~ In(t, K.block_list[o])
BY KernelAssumption, PrioFacts
   DEF Consistent, LinkedAs, IdleOK, IdleReady, OffReady, OffBlock

\* K1 is consistent and in it every task is in the state it has in K.
StatesKept(K, K1) ==
  /\ Consistent(K1)
  /\ K1.task_state = K.task_state /\ K1.block_obj = K.block_obj
  /\ K1.block_status = K.block_status
  /\ K1.raw_task_active = K.raw_task_active /\ K1.live = K.live
  /\ K1.raw_tick_count = K.raw_tick_count /\ TicksKept(K, K1)

\* ... and no mutex changes hands.
SameStates(K, K1) == StatesKept(K, K1) /\ SameHeld(K, K1)

-----------------------------------------------------------------------------
(* Functions that change the state of one task.  On the way from one        *)
(* consistent kernel to the next the task is linked as no state says:       *)
(* Links says where it is linked, and that nothing else has changed.        *)

Links(K, K1, t, ready, obj, timed) ==
  /\ K1 \in KernelState
  /\ IndexOK(K1) /\ Once(K1) /\ BlockSorted(K1) /\ TicksKept(K, K1)
  /\ K1.raw_task_active = K.raw_task_active /\ K1.raw_tick_count = K.raw_tick_count
  /\ SameHeld(K, K1) /\ K1.fault = K.fault /\ K1.live = K.live
  /\ \A u \in Task :
       /\ u # t => /\ K1.task_state[u] = K.task_state[u]
                   /\ K1.priority[u] = K.priority[u]
                   /\ K1.block_obj[u] = K.block_obj[u]
                   /\ K1.block_status[u] = K.block_status[u]
       /\ \A p \in Prio : In(u, K1.task_ready_list[p])
            <=> IF u = t THEN ready = "on" /\ p = K1.priority[t] ELSE In(u, K.task_ready_list[p])
       /\ \A o \in Obj : In(u, K1.block_list[o])
            <=> IF u = t THEN o = obj ELSE In(u, K.block_list[o])
       /\ In(u, K1.tick_head) <=> IF u = t THEN timed = "on" ELSE In(u, K.tick_head)

\* The links that go with the state of a task.
ready_link(K, t) == IF K.task_state[t] = "RDY" THEN "on" ELSE "off"
tick_link(K, t) == IF K.task_state[t] \in Timed THEN "on" ELSE "off"
waits_for(K, t) == IF K.task_state[t] \in Pending THEN K.block_obj[t] ELSE NoObj

\* K1 is consistent and in it every task but t is in the state it has in K.
OneMoves(K, K1, t) ==
  /\ Consistent(K1)
  /\ K1.raw_task_active = K.raw_task_active /\ K1.live = K.live
  /\ K1.raw_tick_count = K.raw_tick_count /\ TicksKept(K, K1)
  /\ \A u \in Task \ {t} : /\ K1.task_state[u] = K.task_state[u]
                           /\ K1.block_obj[u] = K.block_obj[u]
                           /\ K1.block_status[u] = K.block_status[u]

Moves(K, K1, t) == OneMoves(K, K1, t) /\ SameHeld(K, K1)

\* A task that does not wait in K1 has no block_obj, or one it had when it did not
\* wait in K either.
Forgets(K, K1, t) ==
  \/ K1.block_obj[t] = NoObj
  \/ K.task_state[t] \notin Pending /\ K1.block_obj[t] = K.block_obj[t]

\* A consistent kernel is where it starts ...
LEMMA LinksStart ==
  ASSUME NEW K, Consistent(K), NEW t \in Task
  PROVE  Links(K, K, t, ready_link(K, t), waits_for(K, t), tick_link(K, t))
<1>1. /\ K \in KernelState /\ LinkedAs(K, t) /\ NoObj \notin Obj
      /\ BlockSorted(K) /\ TicksKept(K, K)
  BY KernelAssumption, TicksCompose DEF Consistent
<1>2. \A o \in Obj : In(t, K.block_list[o]) <=> o = waits_for(K, t)
  BY <1>1 DEF LinkedAs, waits_for
<1> QED
  BY <1>1, <1>2 DEF SameHeld, Links, Consistent, LinkedAs, ready_link, tick_link

\* ... and where it ends, when the task has the state that goes with its links.
LEMMA LinksEnd ==
  ASSUME NEW K, Consistent(K), NEW K1, NEW t \in Task \ {Idle},
         NEW ready, NEW obj, NEW timed, Links(K, K1, t, ready, obj, timed),
         ready = ready_link(K1, t), obj = waits_for(K1, t), timed = tick_link(K1, t),
         K1.task_state[t] \in Pending => obj \in Obj
  PROVE  Moves(K, K1, t)
<1>1. K \in KernelState /\ K1 \in KernelState /\ NoObj \notin Obj /\ Idle \in Task
  BY KernelAssumption DEF Consistent, Links
<1>2. IdleOK(K1)
  BY <1>1 DEF SameHeld, Links, Consistent, IdleOK
<1>3. LinkedAs(K1, t)
  BY <1>1 DEF Links, LinkedAs, waits_for, ready_link, tick_link
<1>4. ASSUME NEW u \in Task \ {t} PROVE LinkedAs(K1, u)
  <2>1. LinkedAs(K, u)
    BY DEF Consistent
  <2> QED
    BY <2>1 DEF Links, LinkedAs
<1>5. Mutex = {} => ~ K1.fault
  BY DEF Links, Consistent
<1> QED
  BY <1>1, <1>2, <1>3, <1>4, <1>5 DEF Links, Consistent, Moves, OneMoves

\* Each function changes one of the links.
LEMMA add_ready_listLinked ==
  ASSUME NEW K, Consistent(K), NEW K1, NEW t \in Task, NEW obj, NEW timed,
         Links(K, K1, t, "off", obj, timed)
  PROVE  /\ Links(K, add_ready_list(K1, t), t, "on", obj, timed)
         /\ SameTasks(K1, add_ready_list(K1, t))
         /\ Links(K, add_ready_list_head(K1, t), t, "on", obj, timed)
         /\ SameTasks(K1, add_ready_list_head(K1, t))
         /\ Links(K, add_ready_list_end(K1, t), t, "on", obj, timed)
         /\ SameTasks(K1, add_ready_list_end(K1, t))
<1>1. /\ K1 \in KernelState /\ IndexOK(K1) /\ ReadyOnce(K1) /\ OffReady(K1, t)
  BY DEF Links, Once, OffReady
<1>2. ASSUME NEW K2, ReadyStep(K1, K2, t, TRUE)
      PROVE  Links(K, K2, t, "on", obj, timed) /\ SameTasks(K1, K2)
  <2>1. /\ K2 \in KernelState /\ SameTasks(K1, K2)
        /\ K2.block_list = K1.block_list /\ SameTicks(K1, K2)
    BY <1>1, <1>2, QueueFrame
  <2>2. IndexOK(K2) /\ Once(K2) /\ BlockSorted(K2) /\ TicksKept(K, K2)
    BY <1>2, <2>1, TicksCompose
    DEF ReadyStep, Links, Once, ReadyOnce, BlockOnce, BlockSorted, SameTasks, SameTicks
  <2>3. \A u \in Task, p \in Prio : In(u, K2.task_ready_list[p])
           <=> IF u = t THEN p = K2.priority[t] ELSE In(u, K.task_ready_list[p])
    BY <1>2, <2>1 DEF ReadyStep, Links, SameTasks
  <2> QED
    BY <2>1, <2>2, <2>3 DEF SameHeld, Links, SameTasks, SameTicks
<1> QED
  BY <1>1, <1>2, add_ready_listLinks, add_ready_list_headLinks, add_ready_list_endLinks

LEMMA remove_ready_listLinked ==
  ASSUME NEW K, Consistent(K), NEW K1, NEW t \in Task \ {Idle},
         NEW ready, NEW obj, NEW timed, Links(K, K1, t, ready, obj, timed)
  PROVE  /\ Links(K, remove_ready_list(K1, t), t, "off", obj, timed)
         /\ SameTasks(K1, remove_ready_list(K1, t))
<1> DEFINE K2 == remove_ready_list(K1, t)
<1>1. IdleReady(K1)
  BY ConsistentFacts, PrioFacts, KernelAssumption DEF Links, IdleReady
<1>2. ReadyStep(K1, K2, t, FALSE)
  BY <1>1, remove_ready_listUnlinks DEF Links, Once
<1> HIDE DEF K2
<1>3. /\ K2 \in KernelState /\ SameTasks(K1, K2)
      /\ K2.block_list = K1.block_list /\ SameTicks(K1, K2)
  BY <1>2, QueueFrame DEF Links
<1>4. IndexOK(K2) /\ Once(K2) /\ BlockSorted(K2) /\ TicksKept(K, K2)
  BY <1>2, <1>3, TicksCompose
  DEF ReadyStep, Links, Once, ReadyOnce, BlockOnce, BlockSorted, SameTasks, SameTicks
<1>5. \A u \in Task, p \in Prio : In(u, K2.task_ready_list[p])
         <=> IF u = t THEN FALSE ELSE In(u, K.task_ready_list[p])
  BY <1>2, <1>3 DEF ReadyStep, Links, SameTasks
<1> QED
  BY <1>3, <1>4, <1>5 DEF SameHeld, Links, SameTasks, SameTicks, K2

LEMMA tick_list_insertLinked ==
  ASSUME NEW K, NEW K1, NEW t \in Task, NEW ready, NEW obj, NEW time \in Ticks \ {0},
         Links(K, K1, t, ready, obj, "off")
  PROVE  /\ Links(K, tick_list_insert(K1, t, time), t, ready, obj, "on")
         /\ SameTasks(K1, tick_list_insert(K1, t, time))
<1> DEFINE K2 == tick_list_insert(K1, t, time)
<1>1. TickStep(K1, K2, t, TRUE)
  BY tick_list_insertLinks DEF Links, Once
<1> HIDE DEF K2
<1>2. /\ K2 \in KernelState /\ SameTasks(K1, K2) /\ SameQueue(K1, K2)
      /\ K2.block_list = K1.block_list
  BY <1>1, TickFrame DEF Links
<1>3. IndexOK(K2) /\ Once(K2) /\ BlockSorted(K2) /\ TicksKept(K, K2)
  BY <1>1, <1>2, TicksCompose
  DEF TickStep, Links, SameQueue, IndexOK, Once, ReadyOnce, BlockOnce, BlockSorted, SameTasks
<1>4. \A u \in Task : In(u, K2.tick_head) <=> IF u = t THEN TRUE ELSE In(u, K.tick_head)
  BY <1>1 DEF TickStep, Links
<1> QED
  BY <1>2, <1>3, <1>4 DEF SameHeld, Links, SameTasks, SameQueue, K2

LEMMA tick_list_removeLinked ==
  ASSUME NEW K, NEW K1, NEW t \in Task, NEW ready, NEW obj, NEW timed,
         Links(K, K1, t, ready, obj, timed)
  PROVE  /\ Links(K, tick_list_remove(K1, t), t, ready, obj, "off")
         /\ SameTasks(K1, tick_list_remove(K1, t))
<1> DEFINE K2 == tick_list_remove(K1, t)
<1>1. TickStep(K1, K2, t, FALSE)
  BY tick_list_removeUnlinks DEF Links, Once
<1> HIDE DEF K2
<1>2. /\ K2 \in KernelState /\ SameTasks(K1, K2) /\ SameQueue(K1, K2)
      /\ K2.block_list = K1.block_list
  BY <1>1, TickFrame DEF Links
<1>3. IndexOK(K2) /\ Once(K2) /\ BlockSorted(K2) /\ TicksKept(K, K2)
  BY <1>1, <1>2, TicksCompose
  DEF TickStep, Links, SameQueue, IndexOK, Once, ReadyOnce, BlockOnce, BlockSorted, SameTasks
<1>4. \A u \in Task : In(u, K2.tick_head) <=> IF u = t THEN FALSE ELSE In(u, K.tick_head)
  BY <1>1 DEF TickStep, Links
<1> QED
  BY <1>2, <1>3, <1>4 DEF SameHeld, Links, SameTasks, SameQueue, K2

LEMMA add_to_block_listLinked ==
  ASSUME NEW K, NEW K1, NEW t \in Task, NEW ready, NEW timed, NEW o \in Obj,
         Links(K, K1, t, ready, NoObj, timed)
  PROVE  /\ Links(K, add_to_block_list(K1, o, t), t, ready, o, timed)
         /\ SameTasks(K1, add_to_block_list(K1, o, t))
<1> DEFINE K2 == add_to_block_list(K1, o, t)
<1>1. K1 \in KernelState /\ BlockOnce(K1) /\ BlockSorted(K1) /\ OffBlock(K1, t)
  BY KernelAssumption DEF Links, Once, OffBlock
<1>2. BlockStep(K1, K2, t, o)
  BY <1>1, add_to_block_listLinks
<1> HIDE DEF K2
<1>3. /\ K2 \in KernelState /\ SameTasks(K1, K2) /\ SameQueue(K1, K2)
      /\ SameTicks(K1, K2)
  BY <1>1, <1>2, BlockFrame
<1>4. IndexOK(K2) /\ Once(K2) /\ BlockSorted(K2) /\ TicksKept(K, K2)
  BY <1>2, <1>3, TicksCompose
  DEF BlockStep, Links, SameQueue, IndexOK, Once, ReadyOnce, BlockOnce, SameTicks
<1>5. \A u \in Task, q \in Obj : In(u, K2.block_list[q])
         <=> IF u = t THEN q = o ELSE In(u, K.block_list[q])
  BY <1>2 DEF BlockStep, Links
<1> QED
  BY <1>3, <1>4, <1>5 DEF SameHeld, Links, SameTasks, SameQueue, SameTicks, K2

LEMMA unlink_blockedLinked ==
  ASSUME NEW K, NEW K1, NEW t \in Task, NEW ready, NEW timed,
         Links(K, K1, t, ready, K1.block_obj[t], timed)
  PROVE  /\ Links(K, unlink_blocked(K1, t), t, ready, NoObj, timed)
         /\ SameTasks(K1, unlink_blocked(K1, t))
<1> DEFINE K2 == unlink_blocked(K1, t)
<1>1. K1 \in KernelState /\ BlockOnce(K1) /\ BlockSorted(K1)
  BY DEF Links, Once
<1>2. BlockStep(K1, K2, t, NoObj)
  BY <1>1, unlink_blockedUnlinks DEF Links
<1> HIDE DEF K2
<1>3. /\ K2 \in KernelState /\ SameTasks(K1, K2) /\ SameQueue(K1, K2)
      /\ SameTicks(K1, K2)
  BY <1>1, <1>2, BlockFrame
<1>4. IndexOK(K2) /\ Once(K2) /\ BlockSorted(K2) /\ TicksKept(K, K2)
  BY <1>2, <1>3, TicksCompose
  DEF BlockStep, Links, SameQueue, IndexOK, Once, ReadyOnce, BlockOnce, SameTicks
<1>5. \A u \in Task, q \in Obj : In(u, K2.block_list[q])
         <=> IF u = t THEN q = NoObj ELSE In(u, K.block_list[q])
  BY <1>2 DEF BlockStep, Links
<1> QED
  BY <1>3, <1>4, <1>5 DEF SameHeld, Links, SameTasks, SameQueue, SameTicks, K2

\* Writing fields of the task leaves the links alone; the priority is written
\* only while the task is on no list that is sorted by it.
LEMMA WriteFields ==
  ASSUME NEW K, NEW K1, NEW K2, NEW t \in Task, NEW ready, NEW obj, NEW timed,
         Links(K, K1, t, ready, obj, timed),
         K2 \in KernelState, SameQueue(K1, K2),
         K2.block_list = K1.block_list, SameTicks(K1, K2),
         K2.raw_task_active = K1.raw_task_active, SameHeld(K1, K2), K2.fault = K1.fault,
         K2.live = K1.live,
         \A u \in Task \ {t} : /\ K2.task_state[u] = K1.task_state[u]
                               /\ K2.priority[u] = K1.priority[u]
                               /\ K2.block_obj[u] = K1.block_obj[u]
                               /\ K2.block_status[u] = K1.block_status[u],
         \/ K2.priority[t] = K1.priority[t]
         \/ ready = "off" /\ obj \in {NoObj} \cup FifoObj
  PROVE  Links(K, K2, t, ready, obj, timed)
<1>1. IndexOK(K2) /\ Once(K2) /\ TicksKept(K, K2)
  BY TicksCompose DEF Links, SameQueue, SameTicks, IndexOK, Once, ReadyOnce, BlockOnce
<1>2. BlockSorted(K2)
  <2> SUFFICES ASSUME NEW o \in Obj \ FifoObj PROVE Sorted(K2.block_list[o], K2.priority)
    BY DEF BlockSorted
  <2>1. K1.block_list[o] \in Seq(Task) /\ Sorted(K1.block_list[o], K1.priority)
    BY DEF Links, KernelState, BlockSorted
  <2>2. \A u \in Task : In(u, K1.block_list[o]) => K2.priority[u] = K1.priority[u]
    BY KernelAssumption DEF Links
  <2> QED
    BY <2>1, <2>2, SortedAgree
<1> QED
  BY <1>1, <1>2 DEF SameHeld, Links, SameQueue, SameTicks

\* WriteFields for each of the fields that the functions below write.
LEMMA WriteStatus ==
  ASSUME NEW K, NEW K1, NEW t \in Task, NEW ready, NEW obj, NEW timed,
         Links(K, K1, t, ready, obj, timed), NEW status \in BlockState
  PROVE  LET K2 == [K1 EXCEPT !.block_status[t] = status]
         IN  /\ Links(K, K2, t, ready, obj, timed)
             /\ K2.task_state = K1.task_state /\ K2.block_obj = K1.block_obj
             /\ K2.priority = K1.priority /\ K2.block_status[t] = status
<1> DEFINE K2 == [K1 EXCEPT !.block_status[t] = status]
<1>1. K1 \in KernelState
  BY DEF Links
<1>2. /\ K2 \in KernelState /\ SameQueue(K1, K2) /\ SameTicks(K1, K2)
      /\ K2.block_list = K1.block_list
      /\ K2.raw_task_active = K1.raw_task_active /\ SameHeld(K1, K2)
      /\ K2.fault = K1.fault /\ K2.live = K1.live /\ K2.task_state = K1.task_state
      /\ K2.priority = K1.priority /\ K2.block_obj = K1.block_obj
      /\ K2.block_status[t] = status
      /\ \A u \in Task \ {t} : K2.block_status[u] = K1.block_status[u]
  BY <1>1 DEF SameHeld, KernelState, SameQueue, SameTicks
<1> HIDE DEF K2
<1>3. Links(K, K2, t, ready, obj, timed)
  BY <1>2, WriteFields
<1> QED
  BY <1>2, <1>3 DEF K2

LEMMA WriteObj ==
  ASSUME NEW K, NEW K1, NEW t \in Task, NEW ready, NEW obj, NEW timed,
         Links(K, K1, t, ready, obj, timed), NEW o \in Obj \cup {NoObj}
  PROVE  LET K2 == [K1 EXCEPT !.block_obj[t] = o]
         IN  /\ Links(K, K2, t, ready, obj, timed)
             /\ K2.task_state = K1.task_state /\ K2.block_obj[t] = o
             /\ K2.priority = K1.priority /\ K2.block_status = K1.block_status
<1> DEFINE K2 == [K1 EXCEPT !.block_obj[t] = o]
<1>1. K1 \in KernelState
  BY DEF Links
<1>2. /\ K2 \in KernelState /\ SameQueue(K1, K2)
      /\ K2.block_list = K1.block_list /\ SameTicks(K1, K2)
      /\ K2.raw_task_active = K1.raw_task_active /\ SameHeld(K1, K2)
      /\ K2.fault = K1.fault /\ K2.live = K1.live /\ K2.task_state = K1.task_state /\ K2.priority = K1.priority
      /\ K2.block_status = K1.block_status
      /\ K2.block_obj[t] = o /\ \A u \in Task \ {t} : K2.block_obj[u] = K1.block_obj[u]
  BY <1>1 DEF SameHeld, KernelState, SameQueue, SameTicks
<1> HIDE DEF K2
<1>3. Links(K, K2, t, ready, obj, timed)
  BY <1>2, WriteFields
<1> QED
  BY <1>2, <1>3 DEF K2

LEMMA WriteState ==
  ASSUME NEW K, NEW K1, NEW t \in Task, NEW ready, NEW obj, NEW timed,
         Links(K, K1, t, ready, obj, timed), NEW s \in TaskState
  PROVE  LET K2 == [K1 EXCEPT !.task_state[t] = s]
         IN  /\ Links(K, K2, t, ready, obj, timed)
             /\ K2.task_state[t] = s /\ K2.block_obj = K1.block_obj
             /\ K2.priority = K1.priority /\ K2.block_status = K1.block_status
<1> DEFINE K2 == [K1 EXCEPT !.task_state[t] = s]
<1>1. K1 \in KernelState
  BY DEF Links
<1>2. /\ K2 \in KernelState /\ SameQueue(K1, K2)
      /\ K2.block_list = K1.block_list /\ SameTicks(K1, K2)
      /\ K2.raw_task_active = K1.raw_task_active /\ SameHeld(K1, K2)
      /\ K2.fault = K1.fault /\ K2.live = K1.live /\ K2.block_obj = K1.block_obj /\ K2.priority = K1.priority
      /\ K2.block_status = K1.block_status
      /\ K2.task_state[t] = s /\ \A u \in Task \ {t} : K2.task_state[u] = K1.task_state[u]
  BY <1>1 DEF SameHeld, KernelState, SameQueue, SameTicks
<1> HIDE DEF K2
<1>3. Links(K, K2, t, ready, obj, timed)
  BY <1>2, WriteFields
<1> QED
  BY <1>2, <1>3 DEF K2

LEMMA PendingNotIdle ==
  ASSUME NEW K, Consistent(K), NEW t \in Task, K.task_state[t] # "RDY"
  PROVE  t \in Task \ {Idle}
BY DEF Consistent, IdleOK

-----------------------------------------------------------------------------
(* raw_task.c, raw_mutex.c: changes of priority.                            *)

\* The priority of a task is written while it is on no list that is sorted by it.
LEMMA WritePriority ==
  ASSUME NEW K, NEW K1, NEW t \in Task, NEW timed, NEW p \in Prio,
         Links(K, K1, t, "off", NoObj, timed)
  PROVE  LET K2 == [K1 EXCEPT !.priority[t] = p]
         IN  /\ Links(K, K2, t, "off", NoObj, timed)
             /\ K2.task_state = K1.task_state /\ K2.block_obj = K1.block_obj
             /\ K2.block_status = K1.block_status
<1> DEFINE K2 == [K1 EXCEPT !.priority[t] = p]
<1>1. K1 \in KernelState
  BY DEF Links
<1>2. /\ K2 \in KernelState /\ SameQueue(K1, K2) /\ SameTicks(K1, K2)
      /\ K2.block_list = K1.block_list
      /\ K2.raw_task_active = K1.raw_task_active /\ SameHeld(K1, K2)
      /\ K2.fault = K1.fault /\ K2.live = K1.live /\ K2.task_state = K1.task_state
      /\ K2.block_obj = K1.block_obj /\ K2.block_status = K1.block_status
      /\ \A u \in Task \ {t} : K2.priority[u] = K1.priority[u]
  BY <1>1 DEF SameHeld, KernelState, SameQueue, SameTicks
<1> HIDE DEF K2
<1>3. Links(K, K2, t, "off", NoObj, timed)
  BY <1>2, WriteFields
<1> QED
  BY <1>2, <1>3 DEF K2

\* K1 differs from K in where one task is linked, and the task is linked as before.
LEMMA LinkedAgain ==
  ASSUME NEW K, Consistent(K), NEW K1, NEW t \in Task \ {Idle},
         Links(K, K1, t, ready_link(K, t), waits_for(K, t), tick_link(K, t)),
         K1.task_state = K.task_state, K1.block_obj = K.block_obj,
         K1.block_status = K.block_status
  PROVE  SameStates(K, K1)
<1>1. /\ ready_link(K1, t) = ready_link(K, t) /\ tick_link(K1, t) = tick_link(K, t)
      /\ waits_for(K1, t) = waits_for(K, t)
  BY DEF ready_link, tick_link, waits_for
<1>2. K1.task_state[t] \in Pending => waits_for(K, t) \in Obj
  BY DEF Consistent, LinkedAs, waits_for
<1>3. Moves(K, K1, t)
  BY <1>1, <1>2, LinksEnd
<1> QED
  BY <1>3 DEF Moves, OneMoves, SameStates, StatesKept

\* The case of a ready task: off one ready list and on another.
LEMMA ReprioritiseReady ==
  ASSUME NEW K, Consistent(K), NEW t \in Task \ {Idle}, NEW p \in Prio,
         K.task_state[t] = "RDY"
  PROVE  LET K2 == [remove_ready_list(K, t) EXCEPT !.priority[t] = p]
         IN  /\ SameStates(K, add_ready_list_head(K2, t))
             /\ SameStates(K, add_ready_list_end(K2, t))
<1> DEFINE K1 == remove_ready_list(K, t)
           K2 == [K1 EXCEPT !.priority[t] = p]
<1>1. /\ Links(K, K, t, "on", NoObj, tick_link(K, t))
      /\ ready_link(K, t) = "on" /\ waits_for(K, t) = NoObj
  BY LinksStart DEF ready_link, waits_for, Pending
<1>2. Links(K, K1, t, "off", NoObj, tick_link(K, t)) /\ SameTasks(K, K1)
  BY <1>1, remove_ready_listLinked
<1> HIDE DEF K1
<1>3. /\ Links(K, K2, t, "off", NoObj, tick_link(K, t))
      /\ K2.task_state = K.task_state /\ K2.block_obj = K.block_obj
      /\ K2.block_status = K.block_status
  BY <1>2, WritePriority DEF SameTasks
<1> HIDE DEF K2
<1>4. ASSUME NEW K3, Links(K, K3, t, "on", NoObj, tick_link(K, t)), SameTasks(K2, K3)
      PROVE  SameStates(K, K3)
  BY <1>1, <1>3, <1>4, LinkedAgain DEF SameTasks
<1> QED
  BY <1>3, <1>4, add_ready_listLinked DEF K1, K2

\* The case of a task that is on no list that is sorted by priority.
LEMMA ReprioritiseStopped ==
  ASSUME NEW K, Consistent(K), NEW t \in Task \ {Idle}, NEW p \in Prio,
         K.task_state[t] \notin Pending \cup {"RDY"}
  PROVE  SameStates(K, [K EXCEPT !.priority[t] = p])
<1>1. /\ Links(K, K, t, "off", NoObj, tick_link(K, t))
      /\ ready_link(K, t) = "off" /\ waits_for(K, t) = NoObj
  BY LinksStart DEF ready_link, waits_for
<1> DEFINE K1 == [K EXCEPT !.priority[t] = p]
<1>2. /\ Links(K, K1, t, "off", NoObj, tick_link(K, t))
      /\ K1.task_state = K.task_state /\ K1.block_obj = K.block_obj
      /\ K1.block_status = K.block_status
  BY <1>1, WritePriority
<1> HIDE DEF K1
<1>3. SameStates(K, K1)
  BY <1>1, <1>2, LinkedAgain
<1> QED
  BY <1>3 DEF K1

\* The case of a waiting task: it finds its new place on the block list.
LEMMA ReprioritiseWaiting ==
  ASSUME NEW K, Consistent(K), NEW t \in Task \ {Idle}, NEW p \in Prio,
         K.task_state[t] \in Pending
  PROVE  SameStates(K, change_pend_list_priority([K EXCEPT !.priority[t] = p], t))
<1> DEFINE o  == K.block_obj[t]
           K1 == [K EXCEPT !.priority[t] = p]
           U  == unlink_blocked(K, t)
           U1 == [U EXCEPT !.priority[t] = p]
           K2 == add_to_block_list(U1, o, t)
<1>1. K \in KernelState /\ o \in Obj
  BY DEF Consistent, LinkedAs
<1>2. /\ Links(K, K, t, "off", o, tick_link(K, t))
      /\ ready_link(K, t) = "off" /\ waits_for(K, t) = o
  BY LinksStart DEF ready_link, waits_for, Pending
<1>3. CASE o \notin FifoObj
  <2>1. change_pend_list_priority(K1, t) = K2
    BY <1>1, <1>3 DEF change_pend_list_priority, unlink_blocked, KernelState
  <2>2. Links(K, U, t, "off", NoObj, tick_link(K, t)) /\ SameTasks(K, U)
    BY <1>2, unlink_blockedLinked
  <2> HIDE DEF U
  <2>3. /\ Links(K, U1, t, "off", NoObj, tick_link(K, t))
        /\ U1.task_state = K.task_state /\ U1.block_obj = K.block_obj
        /\ U1.block_status = K.block_status
    BY <2>2, WritePriority DEF SameTasks
  <2> HIDE DEF U1
  <2>4. Links(K, K2, t, "off", o, tick_link(K, t)) /\ SameTasks(U1, K2)
    BY <1>1, <2>3, add_to_block_listLinked
  <2> HIDE DEF K2
  <2>5. SameStates(K, K2)
    BY <1>2, <2>3, <2>4, LinkedAgain DEF SameTasks
  <2> QED
    BY <2>1, <2>5
<1>4. CASE o \in FifoObj
  <2>1. /\ K1 \in KernelState /\ SameQueue(K, K1) /\ SameTicks(K, K1)
        /\ K1.block_list = K.block_list
        /\ K1.raw_task_active = K.raw_task_active /\ SameHeld(K, K1)
        /\ K1.fault = K.fault /\ K1.live = K.live /\ K1.task_state = K.task_state
        /\ K1.block_obj = K.block_obj /\ K1.block_status = K.block_status
        /\ \A u \in Task \ {t} : K1.priority[u] = K.priority[u]
    BY <1>1 DEF SameHeld, KernelState, SameQueue, SameTicks
  <2>2. change_pend_list_priority(K1, t) = K1
    BY <1>4, <2>1 DEF change_pend_list_priority
  <2> HIDE DEF K1
  <2>3. Links(K, K1, t, "off", o, tick_link(K, t))
    BY <1>2, <1>4, <2>1, WriteFields
  <2>4. SameStates(K, K1)
    BY <1>2, <2>1, <2>3, LinkedAgain
  <2> QED
    BY <2>2, <2>4 DEF K1
<1> QED
  BY <1>3, <1>4

\* All of change_priority_then but the rest of the chain: what it does itself,
\* or the kernel it hands to the chain when the task waits.
LEMMA Reprioritise ==
  ASSUME NEW K, Consistent(K), NEW t \in Task \ {Idle}, NEW p \in Prio
  PROVE  LET K1 == [K EXCEPT !.priority[t] = p]
             K2 == [remove_ready_list(K, t) EXCEPT !.priority[t] = p]
         IN  /\ K.task_state[t] = "RDY" => /\ SameStates(K, add_ready_list_head(K2, t))
                                          /\ SameStates(K, add_ready_list_end(K2, t))
             /\ K.task_state[t] \in {"DLY", "SUSPENDED", "DLY_SUSPENDED"} => SameStates(K, K1)
             /\ K.task_state[t] \in Pending => SameStates(K, change_pend_list_priority(K1, t))
BY ReprioritiseReady, ReprioritiseStopped, ReprioritiseWaiting DEF Pending

\* What the held mutexes lend is a priority, and so is the least of them.
LEMMA LentIsPrio ==
  ASSUME NEW K \in KernelState, NEW t \in Task, NEW p \in Prio
  PROVE  Min({p} \cup lent_priorities(K, t)) \in Prio
<1> DEFINE S == {p} \cup lent_priorities(K, t)
<1>1. mutex_chain(K, t) \in SUBSET Mutex
  BY DEF mutex_chain, chain_from
<1>2. \A m \in Mutex : Ceiling[m] \in Prio
  BY KernelAssumption DEF Prio
<1>3. \A m \in Mutex : K.block_list[m] # <<>> => K.priority[Head(K.block_list[m])] \in Prio
  BY KernelAssumption, LinkedNonEmpty DEF KernelState
<1>4. S \in SUBSET Prio
  BY <1>1, <1>2, <1>3 DEF lent_priorities
<1>5. S # {} /\ S \in SUBSET Nat
  BY <1>4, PrioFacts
<1> HIDE DEF S
<1>6. Min(S) \in S
  BY <1>5, MinOfNats
<1> QED
  BY <1>4, <1>6 DEF S

\* Everything but the lists and the states may be written freely.
LEMMA OtherFields ==
  ASSUME NEW K, Consistent(K), NEW K1 \in KernelState, SameQueue(K, K1),
         K1.block_list = K.block_list, K1.tick_head = K.tick_head,
         K1.task_state = K.task_state, K1.priority = K.priority, K1.block_obj = K.block_obj,
         K1.fault = K.fault, \A m \in Mutex : K1.mtxtsk[m] # Idle
  PROVE  Consistent(K1)
<1>1. IndexOK(K1) /\ Once(K1) /\ BlockSorted(K1) /\ IdleOK(K1)
  BY DEF Consistent, SameQueue, IndexOK, Once, ReadyOnce, BlockOnce, BlockSorted, IdleOK
<1>2. \A u \in Task : LinkedAs(K1, u)
  BY DEF Consistent, LinkedAs, SameQueue
<1> QED
  BY <1>1, <1>2 DEF Consistent

\* In a system with mutexes Consistent says nothing about the fault flag.
LEMMA FaultKeeps ==
  ASSUME NEW K, Consistent(K), Mutex # {}
  PROVE  SameStates(K, Fault(K))
<1> DEFINE K1 == Fault(K)
<1>1. K \in KernelState
  BY DEF Consistent
<1>2. /\ K1 \in KernelState /\ SameQueue(K, K1)
      /\ K1.raw_task_active = K.raw_task_active /\ K1.task_state = K.task_state
      /\ K1.priority = K.priority /\ K1.block_obj = K.block_obj
      /\ SameHeld(K, K1) /\ K1.live = K.live /\ K1.block_status = K.block_status
      /\ K1.block_list = K.block_list /\ SameTicks(K, K1)
  BY <1>1 DEF SameHeld, KernelState, Fault, SameQueue, SameTicks
<1> HIDE DEF K1
<1>3. IndexOK(K1) /\ Once(K1) /\ BlockSorted(K1) /\ IdleOK(K1) /\ TicksKept(K, K1)
  BY <1>2, TicksCompose
  DEF SameHeld, Consistent, SameQueue, SameTicks, IndexOK, Once, ReadyOnce, BlockOnce, BlockSorted, IdleOK
<1>4. \A u \in Task : LinkedAs(K1, u)
  BY <1>2 DEF Consistent, LinkedAs, SameQueue, SameTicks
<1> QED
  BY <1>2, <1>3, <1>4 DEF Consistent, SameStates, StatesKept, SameTicks, K1

\* What mtx_chg_pri does itself: the owner it finds is a task other than idle,
\* and what it asks for is a priority.
LEMMA OwnerOfWaiter ==
  ASSUME NEW K, Consistent(K), NEW t \in Task
  PROVE  LET m     == K.block_obj[t]
             owner == K.mtxtsk[m]
         IN  /\ m \in Mutex /\ owner # NoTask => owner \in Task \ {Idle}
             /\ K.priority[t] \in Prio
             /\ m \in Mutex => SameStates(K, Fault(K))
             /\ SameStates(K, K)
<1>1. K \in KernelState
  BY DEF Consistent
<1>2. Mutex # {} => SameStates(K, Fault(K))
  BY FaultKeeps
<1>3. K.block_obj[t] \in Mutex /\ K.mtxtsk[K.block_obj[t]] # NoTask
      => K.mtxtsk[K.block_obj[t]] \in Task \ {Idle}
  BY <1>1 DEF Consistent, IdleOK, KernelState
<1> QED
  BY <1>1, <1>2, <1>3, TicksCompose DEF SameHeld, SameStates, StatesKept, KernelState

LEMMA NewPriority ==
  ASSUME NEW K \in KernelState, NEW t \in Task
  PROVE  /\ unlink_mutex(K, t, NoObj) = K
         /\ Min({K.bpriority[t]} \cup lent_priorities(K, t)) \in Prio
BY LentIsPrio DEF unlink_mutex, KernelState

LEMMA SameCompose ==
  ASSUME NEW K, Consistent(K)
  PROVE  /\ SameStates(K, K)
         /\ \A K1 : SameStates(K, K1) => Consistent(K1)
         /\ \A K1, K2 : SameStates(K, K1) /\ SameStates(K1, K2) => SameStates(K, K2)
BY TicksCompose DEF SameHeld, SameStates, StatesKept

\* The nested calls, from the deepest one up.
LEMMA change_4Keeps ==
  ASSUME NEW K, Consistent(K), Mutex # {}, NEW t \in Task \ {Idle}, NEW p \in Prio
  PROVE  SameStates(K, change_4(K, t, p))
<1>1. \A K1 : SameStates(K, K1) => SameStates(K, Fault(K1))
  BY FaultKeeps, SameCompose
<1> QED
  BY <1>1, Reprioritise, SameCompose DEF change_4, change_priority_then, levels_exceeded

LEMMA mtx_chg_3Keeps ==
  ASSUME NEW K, Consistent(K), NEW t \in Task, NEW oldpri
  PROVE  SameStates(K, mtx_chg_3(K, t, oldpri))
BY OwnerOfWaiter, NewPriority, change_4Keeps
   DEF mtx_chg_3, mtx_chg_pri_then, release_mutex_then, Consistent

LEMMA change_3Keeps ==
  ASSUME NEW K, Consistent(K), NEW t \in Task \ {Idle}, NEW p \in Prio
  PROVE  SameStates(K, change_3(K, t, p))
BY mtx_chg_3Keeps, Reprioritise, SameCompose DEF change_3, change_priority_then

LEMMA mtx_chg_2Keeps ==
  ASSUME NEW K, Consistent(K), NEW t \in Task, NEW oldpri
  PROVE  SameStates(K, mtx_chg_2(K, t, oldpri))
BY OwnerOfWaiter, NewPriority, change_3Keeps
   DEF mtx_chg_2, mtx_chg_pri_then, release_mutex_then, Consistent

LEMMA change_2Keeps ==
  ASSUME NEW K, Consistent(K), NEW t \in Task \ {Idle}, NEW p \in Prio
  PROVE  SameStates(K, change_2(K, t, p))
BY mtx_chg_2Keeps, Reprioritise, SameCompose DEF change_2, change_priority_then

LEMMA mtx_chg_1Keeps ==
  ASSUME NEW K, Consistent(K), NEW t \in Task, NEW oldpri
  PROVE  SameStates(K, mtx_chg_1(K, t, oldpri))
BY OwnerOfWaiter, NewPriority, change_2Keeps
   DEF mtx_chg_1, mtx_chg_pri_then, release_mutex_then, Consistent

LEMMA change_1Keeps ==
  ASSUME NEW K, Consistent(K), NEW t \in Task \ {Idle}, NEW p \in Prio
  PROVE  SameStates(K, change_1(K, t, p))
BY mtx_chg_1Keeps, Reprioritise, SameCompose DEF change_1, change_priority_then

LEMMA mtx_chg_priKeeps ==
  ASSUME NEW K, Consistent(K), NEW t \in Task, NEW oldpri
  PROVE  SameStates(K, mtx_chg_pri(K, t, oldpri))
BY OwnerOfWaiter, NewPriority, change_1Keeps
   DEF mtx_chg_pri, mtx_chg_pri_then, release_mutex_then, Consistent

\* A change of priority, with all the inheritance it brings about, leaves every
\* task in its state and on the lists that go with it.
LEMMA change_internal_task_priorityKeeps ==
  ASSUME NEW K, Consistent(K), NEW t \in Task \ {Idle}, NEW p \in Prio
  PROVE  SameStates(K, change_internal_task_priority(K, t, p))
BY mtx_chg_priKeeps, Reprioritise, SameCompose
   DEF change_internal_task_priority, change_priority_then

\* The links between mutexes are not part of Consistent.
LEMMA unlink_mutexKeeps ==
  ASSUME NEW K, Consistent(K), NEW t \in Task, NEW m \in Mutex \cup {NoObj}
  PROVE  /\ StatesKept(K, unlink_mutex(K, t, m))
         /\ unlink_mutex(K, t, m).bpriority = K.bpriority
         /\ unlink_mutex(K, t, m).mtxtsk = K.mtxtsk
<1> DEFINE K1 == unlink_mutex(K, t, m)
<1>1. K \in KernelState /\ NoObj \notin Mutex
  BY SMTT(40), KernelAssumption DEF Consistent
<1>2. /\ K1 \in KernelState /\ SameQueue(K, K1)
      /\ K1.block_list = K.block_list /\ SameTicks(K, K1)
      /\ K1.task_state = K.task_state /\ K1.priority = K.priority
      /\ K1.block_obj = K.block_obj /\ K1.fault = K.fault /\ K1.live = K.live
      /\ K1.raw_task_active = K.raw_task_active /\ K1.block_status = K.block_status
      /\ K1.bpriority = K.bpriority /\ K1.mtxtsk = K.mtxtsk
  BY <1>1 DEF KernelState, unlink_mutex, SameQueue, SameTicks
<1> HIDE DEF K1
<1>3. Consistent(K1)
  BY <1>2, OtherFields DEF Consistent, IdleOK, SameTicks
<1> QED
  BY <1>2, <1>3, TicksCompose DEF StatesKept, SameTicks, K1

\* The mutex is unlinked; what follows changes priorities only.
LEMMA release_mutexKeeps ==
  ASSUME NEW K, Consistent(K), NEW t \in Task \ {Idle}, NEW m \in Mutex \cup {NoObj}
  PROVE  /\ StatesKept(K, release_mutex(K, t, m))
         /\ SameHeld(unlink_mutex(K, t, m), release_mutex(K, t, m))
         /\ m = NoObj => SameStates(K, release_mutex(K, t, m))
<1> DEFINE K1     == unlink_mutex(K, t, m)
           R      == release_mutex(K, t, m)
           newpri == Min({K1.bpriority[t]} \cup lent_priorities(K1, t))
<1>a. StatesKept(K, K1)
  BY unlink_mutexKeeps
<1>b. m = NoObj => K1 = K
  BY DEF unlink_mutex
<1>1. StatesKept(K, K1) /\ (m = NoObj => K1 = K)
  BY <1>a, <1>b
<1> HIDE DEF K1
<1>2. Consistent(K1) /\ newpri \in Prio
  BY <1>1, NewPriority DEF StatesKept, Consistent
<1> HIDE DEF newpri
<1>3. SameStates(K1, change_internal_task_priority(K1, t, newpri)) /\ SameStates(K1, K1)
  BY <1>2, change_internal_task_priorityKeeps, SameCompose
<1>4. R \in {K1, change_internal_task_priority(K1, t, newpri)}
  BY DEF release_mutex, release_mutex_then, K1, newpri
<1> HIDE DEF R
<1>5. SameStates(K1, R)
  BY <1>3, <1>4
<1>6. StatesKept(K, R)
  BY <1>1, <1>5, TicksCompose DEF StatesKept, SameStates
<1> QED
  BY <1>1, <1>5, <1>6 DEF SameStates, K1, R

LEMMA mutex_state_changeKeeps ==
  ASSUME NEW K, Consistent(K), NEW t \in Task
  PROVE  SameStates(K, mutex_state_change(K, t))
BY OwnerOfWaiter, release_mutexKeeps, FaultKeeps DEF mutex_state_change

-----------------------------------------------------------------------------
(* Waits: how they start and how they end.                                  *)

\* Every state that ends a wait other than by deletion.
Awake == {"RDY", "SUSPENDED"}

\* Off the block list and on the ready list, unless suspended as well: the
\* tick list is still to be dealt with.
LEMMA make_runnableLinked ==
  ASSUME NEW K, Consistent(K), NEW K1, NEW t \in Task,
         NEW timed, Links(K, K1, t, "off", K1.block_obj[t], timed),
         K1.task_state[t] \in Pending
  PROVE  LET K2 == make_runnable(K1, t)
         IN  /\ Links(K, K2, t, ready_link(K2, t), NoObj, timed)
             /\ K2.task_state[t] \in Awake /\ K2.block_obj = K1.block_obj
             /\ K2.block_status = K1.block_status
             /\ K1.task_state[t] \in Suspended => K2.task_state[t] = "SUSPENDED"
<1> DEFINE U == unlink_blocked(K1, t)
           R == add_ready_list(U, t)
           A == [R EXCEPT !.task_state[t] = "RDY"]
           B == [U EXCEPT !.task_state[t] = "SUSPENDED"]
<1>1. Links(K, U, t, "off", NoObj, timed) /\ SameTasks(K1, U)
  BY unlink_blockedLinked
<1> HIDE DEF U
<1>2. Links(K, R, t, "on", NoObj, timed) /\ SameTasks(U, R)
  BY <1>1, add_ready_listLinked
<1> HIDE DEF R
<1>3. U \in KernelState /\ R \in KernelState
  BY <1>1, <1>2 DEF Links
<1>4. /\ A \in KernelState /\ SameQueue(R, A)
      /\ A.block_list = R.block_list /\ SameTicks(R, A)
      /\ A.raw_task_active = R.raw_task_active /\ SameHeld(R, A) /\ A.fault = R.fault
      /\ A.live = R.live
      /\ A.priority = R.priority /\ A.block_obj = R.block_obj
      /\ A.block_status = R.block_status
      /\ A.task_state = [R.task_state EXCEPT ![t] = "RDY"] /\ A.task_state[t] = "RDY"
  BY <1>3 DEF SameHeld, KernelState, TaskState, SameQueue, SameTicks
<1>5. /\ B \in KernelState /\ SameQueue(U, B)
      /\ B.block_list = U.block_list /\ SameTicks(U, B)
      /\ B.raw_task_active = U.raw_task_active /\ SameHeld(U, B) /\ B.fault = U.fault
      /\ B.live = U.live
      /\ B.priority = U.priority /\ B.block_obj = U.block_obj
      /\ B.block_status = U.block_status
      /\ B.task_state = [U.task_state EXCEPT ![t] = "SUSPENDED"]
      /\ B.task_state[t] = "SUSPENDED"
  BY <1>3 DEF SameHeld, KernelState, TaskState, Suspended, SameQueue, SameTicks
<1> HIDE DEF A, B
<1>6. \A u \in Task \ {t} : /\ A.task_state[u] = R.task_state[u]
                             /\ B.task_state[u] = U.task_state[u]
  BY <1>3, <1>4, <1>5 DEF KernelState
<1>7. Links(K, A, t, "on", NoObj, timed)
  BY <1>2, <1>4, <1>6, WriteFields
<1>8. Links(K, B, t, "off", NoObj, timed)
  BY <1>1, <1>5, <1>6, WriteFields
<1>9. make_runnable(K1, t) = IF K1.task_state[t] \in {"PEND", "PEND_TIMEOUT"} THEN A ELSE B
  BY DEF make_runnable, make_ready, A, B, R, U
<1> QED
  BY <1>1, <1>2, <1>4, <1>5, <1>7, <1>8, <1>9 DEF Awake, Suspended, SameTasks, ready_link

\* The end of a wait by an object: put, delete.
LEMMA wake_upMoves ==
  ASSUME NEW K, Consistent(K), NEW t \in Task, K.task_state[t] \in Pending,
         NEW status \in BlockState
  PROVE  /\ Moves(K, wake_up(K, t, status), t)
         /\ wake_up(K, t, status).task_state[t] \in Awake
         /\ wake_up(K, t, status).block_status[t] = status
         /\ wake_up(K, t, status).block_obj[t] = NoObj
         /\ K.task_state[t] \in Suspended => wake_up(K, t, status).task_state[t] = "SUSPENDED"
<1> DEFINE K1 == make_runnable(K, t)
           K2 == tick_list_remove(K1, t)
           K3 == [K2 EXCEPT !.block_status[t] = status]
           K4 == [K3 EXCEPT !.block_obj[t] = NoObj]
           r  == ready_link(K1, t)
<1>1. t \in Task \ {Idle} /\ K.task_state[t] # "RDY"
  BY PendingNotIdle DEF Pending
<1>2. Links(K, K, t, "off", K.block_obj[t], tick_link(K, t))
  BY <1>1, LinksStart DEF waits_for, ready_link
<1>3. /\ Links(K, K1, t, r, NoObj, tick_link(K, t))
      /\ K1.task_state[t] \in Awake
      /\ K.task_state[t] \in Suspended => K1.task_state[t] = "SUSPENDED"
  BY <1>2, make_runnableLinked
<1> HIDE DEF K1
<1>4. /\ Links(K, K2, t, r, NoObj, "off")
      /\ K2.task_state = K1.task_state
  BY <1>3, tick_list_removeLinked DEF SameTasks
<1> HIDE DEF K2
<1>5. /\ Links(K, K3, t, r, NoObj, "off")
      /\ K3.task_state = K1.task_state /\ K3.block_status[t] = status
  BY <1>4, WriteStatus
<1>6. K4 = [K2 EXCEPT !.block_status[t] = status, !.block_obj[t] = NoObj]
  BY <1>4 DEF Links, KernelState
<1> HIDE DEF K3
<1>7. /\ Links(K, K4, t, r, NoObj, "off")
      /\ K4.task_state = K1.task_state /\ K4.block_status[t] = status
      /\ K4.block_obj[t] = NoObj
  BY <1>5, WriteObj
<1>8. wake_up(K, t, status) = K4
  BY <1>6 DEF wake_up, K1, K2
<1> HIDE DEF K4
<1>9. /\ K4.task_state[t] \notin Pending /\ waits_for(K4, t) = NoObj
      /\ ready_link(K4, t) = r /\ tick_link(K4, t) = "off"
  BY <1>3, <1>7 DEF Awake, Timed, Pending, waits_for, ready_link, tick_link
<1>10. Moves(K, K4, t)
  BY <1>1, <1>7, <1>9, LinksEnd
<1> QED
  BY <1>3, <1>7, <1>8, <1>10

\* The start of a wait for an object.
LEMMA raw_pend_objectMoves ==
  ASSUME NEW K, Consistent(K), NEW t \in Task \ {Idle}, K.task_state[t] = "RDY",
         NEW o \in Obj, NEW timeout \in Ticks
  PROVE  LET K1 == raw_pend_object(K, o, t, timeout)
         IN  /\ Moves(K, K1, t)
             /\ K1.task_state[t] \in Pending /\ K1.block_obj[t] = o
             /\ timeout = 0 => K1.task_state[t] = "PEND"
<1> DEFINE K1 == [K EXCEPT !.block_obj[t] = o]
           Ki == tick_list_insert(K1, t, timeout)
           Ka == [K1 EXCEPT !.task_state[t] = "PEND"]
           Kb == [Ki EXCEPT !.task_state[t] = "PEND_TIMEOUT"]
           K2 == IF timeout = 0 THEN Ka ELSE Kb
           K3 == remove_ready_list(K2, t)
           K4 == add_to_block_list(K3, o, t)
<1>1. Links(K, K, t, "on", NoObj, "off")
  BY LinksStart DEF waits_for, ready_link, tick_link, Pending, Timed
<1>2. Links(K, K1, t, "on", NoObj, "off") /\ K1.block_obj[t] = o
  BY <1>1, WriteObj
<1> HIDE DEF K1
<1>3. timeout # 0 => Links(K, Ki, t, "on", NoObj, "on") /\ Ki.block_obj[t] = o
  BY <1>2, tick_list_insertLinked DEF SameTasks
<1> HIDE DEF Ki
<1>4. /\ Links(K, Ka, t, "on", NoObj, "off")
      /\ Ka.task_state[t] = "PEND" /\ Ka.block_obj[t] = o
  BY <1>2, WriteState DEF TaskState, Pending
<1>5. timeout # 0 => /\ Links(K, Kb, t, "on", NoObj, "on")
                     /\ Kb.task_state[t] = "PEND_TIMEOUT" /\ Kb.block_obj[t] = o
  BY <1>3, WriteState DEF TaskState, Pending
<1> HIDE DEF Ka, Kb
<1>6. /\ Links(K, K2, t, "on", NoObj, tick_link(K2, t))
      /\ K2.task_state[t] \in {"PEND", "PEND_TIMEOUT"} /\ K2.block_obj[t] = o
      /\ timeout = 0 => K2.task_state[t] = "PEND"
  BY <1>4, <1>5 DEF tick_link, Timed
<1>7. raw_pend_object(K, o, t, timeout) = K4
  BY DEF raw_pend_object, Ka, Kb, Ki, K1
<1> HIDE DEF K2
<1>8. /\ Links(K, K3, t, "off", NoObj, tick_link(K2, t))
      /\ K3.task_state[t] = K2.task_state[t] /\ K3.block_obj[t] = o
  BY <1>6, remove_ready_listLinked DEF SameTasks
<1> HIDE DEF K3
<1>9. /\ Links(K, K4, t, "off", o, tick_link(K2, t))
      /\ K4.task_state[t] = K2.task_state[t] /\ K4.block_obj[t] = o
  <2>1. Links(K, K4, t, "off", o, tick_link(K2, t)) /\ SameTasks(K3, K4)
    BY <1>8, add_to_block_listLinked
  <2> HIDE DEF K4
  <2> QED
    BY <1>8, <2>1 DEF SameTasks
<1> HIDE DEF K4
<1>10. /\ K4.task_state[t] \in Pending /\ K4.block_obj[t] = o
       /\ timeout = 0 => K4.task_state[t] = "PEND"
  BY <1>6, <1>9 DEF Pending
<1>11. Moves(K, K4, t)
  <2>1. waits_for(K4, t) = o
    BY <1>10 DEF waits_for
  <2>2. ready_link(K4, t) = "off" /\ tick_link(K4, t) = tick_link(K2, t)
    BY <1>6, <1>9 DEF ready_link, tick_link
  <2> QED
    BY <1>9, <1>10, <2>1, <2>2, LinksEnd
<1> QED
  BY <1>7, <1>10, <1>11

\* Several functions that concern the same task, one after the other.
LEMMA MovesCompose ==
  ASSUME NEW K, NEW K1, NEW K2, NEW t
  PROVE  /\ SameStates(K, K1) => Moves(K, K1, t)
         /\ Moves(K, K1, t) /\ Moves(K1, K2, t) => Moves(K, K2, t)
BY TicksCompose DEF SameHeld, SameStates, StatesKept, Moves, OneMoves

LEMMA ForgetObj ==
  ASSUME NEW K, Consistent(K), NEW t \in Task \ {Idle}, K.task_state[t] \notin Pending
  PROVE  /\ Moves(K, [K EXCEPT !.block_obj[t] = NoObj], t)
         /\ [K EXCEPT !.block_obj[t] = NoObj].task_state = K.task_state
         /\ [K EXCEPT !.block_obj[t] = NoObj].block_status = K.block_status
<1> DEFINE K1 == [K EXCEPT !.block_obj[t] = NoObj]
<1>1. Links(K, K, t, ready_link(K, t), NoObj, tick_link(K, t))
  BY LinksStart DEF waits_for
<1>2. /\ Links(K, K1, t, ready_link(K, t), NoObj, tick_link(K, t))
      /\ K1.task_state = K.task_state /\ K1.block_status = K.block_status
  BY <1>1, WriteObj
<1> HIDE DEF K1
<1>3. /\ ready_link(K1, t) = ready_link(K, t) /\ tick_link(K1, t) = tick_link(K, t)
      /\ waits_for(K1, t) = NoObj
  BY <1>2 DEF ready_link, tick_link, waits_for
<1>4. Moves(K, K1, t)
  BY <1>2, <1>3, LinksEnd
<1> QED
  BY <1>2, <1>4 DEF K1

\* A task that is on no list becomes ready (raw_task_wait_abort, tick_list_update).
LEMMA BecomeReady ==
  ASSUME NEW K, Consistent(K), NEW K1, NEW t \in Task \ {Idle},
         Links(K, K1, t, "off", NoObj, "off")
  PROVE  LET K2 == make_ready(K1, t)
         IN  /\ Links(K, K2, t, "on", NoObj, "off")
             /\ K2.task_state[t] = "RDY" /\ K2.block_obj = K1.block_obj
             /\ K2.block_status = K1.block_status
             /\ Moves(K, K2, t)
<1> DEFINE R  == add_ready_list(K1, t)
           K2 == [R EXCEPT !.task_state[t] = "RDY"]
<1>1. Links(K, R, t, "on", NoObj, "off") /\ SameTasks(K1, R)
  BY add_ready_listLinked
<1> HIDE DEF R
<1>2. "RDY" \in TaskState
  BY DEF TaskState
<1>3. /\ Links(K, K2, t, "on", NoObj, "off") /\ K2.task_state[t] = "RDY"
      /\ K2.block_obj = K1.block_obj /\ K2.block_status = K1.block_status
  BY <1>1, <1>2, WriteState DEF SameTasks
<1> HIDE DEF K2
<1>4. /\ ready_link(K2, t) = "on" /\ tick_link(K2, t) = "off" /\ waits_for(K2, t) = NoObj
      /\ K2.task_state[t] \notin Pending
  BY <1>3 DEF ready_link, tick_link, waits_for, Timed, Pending
<1>5. Moves(K, K2, t)
  BY <1>3, <1>4, LinksEnd
<1> QED
  BY <1>3, <1>5 DEF K2, R, make_ready

\* block_status is written, and the task stays where it is.
LEMMA SetStatus ==
  ASSUME NEW K, Consistent(K), NEW t \in Task, NEW status \in BlockState
  PROVE  LET K1 == [K EXCEPT !.block_status[t] = status]
         IN  /\ Moves(K, K1, t) /\ K1.block_status[t] = status
             /\ K1.task_state = K.task_state /\ K1.block_obj = K.block_obj
<1> DEFINE K1 == [K EXCEPT !.block_status[t] = status]
<1>1. /\ K1 \in KernelState /\ SameQueue(K, K1) /\ SameTicks(K, K1)
      /\ K1.block_list = K.block_list
      /\ K1.raw_task_active = K.raw_task_active /\ SameHeld(K, K1)
      /\ K1.fault = K.fault /\ K1.live = K.live /\ K1.task_state = K.task_state
      /\ K1.priority = K.priority /\ K1.block_obj = K.block_obj
      /\ K1.block_status[t] = status
      /\ \A u \in Task \ {t} : K1.block_status[u] = K.block_status[u]
  BY DEF SameHeld, Consistent, KernelState, SameQueue, SameTicks
<1> HIDE DEF K1
<1>2. Consistent(K1)
  BY <1>1, OtherFields DEF SameHeld, Consistent, IdleOK, SameTicks
<1>3. TicksKept(K, K1)
  BY <1>1, TicksCompose
<1> QED
  BY <1>1, <1>2, <1>3 DEF Moves, OneMoves, SameTicks, K1

\* The end of a wait that mutex_state_change follows: K1 is the kernel after the
\* task was taken off its lists and got its new state.
LEMMA EndMutexWait ==
  ASSUME NEW K, NEW K1, NEW t \in Task \ {Idle}, Moves(K, K1, t),
         K1.task_state[t] \notin Pending
  PROVE  LET K2 == [mutex_state_change(K1, t) EXCEPT !.block_obj[t] = NoObj]
         IN  /\ Moves(K, K2, t) /\ K2.task_state[t] = K1.task_state[t]
             /\ K2.block_status[t] = K1.block_status[t] /\ K2.block_obj[t] = NoObj
<1> DEFINE M  == mutex_state_change(K1, t)
           K2 == [M EXCEPT !.block_obj[t] = NoObj]
<1>1. SameStates(K1, M)
  BY mutex_state_changeKeeps DEF Moves, OneMoves
<1> HIDE DEF M
<1>2. /\ Consistent(M) /\ M.task_state[t] = K1.task_state[t]
      /\ M.block_status = K1.block_status
  BY <1>1 DEF SameStates, StatesKept
<1>3. /\ Moves(M, K2, t) /\ K2.task_state = M.task_state /\ K2.block_status = M.block_status
      /\ K2.block_obj[t] = NoObj
  BY <1>2, ForgetObj DEF Consistent, KernelState
<1> HIDE DEF K2
<1>4. Moves(K, K2, t)
  BY <1>1, <1>3, MovesCompose
<1> QED
  BY <1>2, <1>3, <1>4 DEF K2, M

\* The end of a wait by the tick.
LEMMA tick_expireMoves ==
  ASSUME NEW K, Consistent(K), NEW t \in Task, K.task_state[t] \in Timed
  PROVE  /\ Moves(K, tick_expire(K, t), t)
         /\ tick_expire(K, t).task_state[t] \in Awake
         /\ K.task_state[t] \in Suspended => tick_expire(K, t).task_state[t] = "SUSPENDED"
         /\ tick_expire(K, t).block_status[t] = IF K.task_state[t] \in Pending THEN "TIMEOUT" ELSE "OK"
         /\ Forgets(K, tick_expire(K, t), t)
<1> DEFINE K1 == tick_list_remove(K, t)
<1>1. t \in Task \ {Idle}
  BY PendingNotIdle DEF Timed
<1>2. ready_link(K, t) = "off" /\ tick_link(K, t) = "on"
  BY DEF ready_link, tick_link, Timed
<1>3. Links(K, K1, t, "off", waits_for(K, t), "off") /\ SameTasks(K, K1)
  BY <1>2, LinksStart, tick_list_removeLinked
<1> HIDE DEF K1
<1>4. CASE K.task_state[t] = "DLY"
  <2> DEFINE R  == make_ready(K1, t)
             K2 == [R EXCEPT !.block_status[t] = "OK"]
  <2>1. waits_for(K, t) = NoObj
    BY <1>4 DEF waits_for, Pending
  <2>2. Moves(K, R, t) /\ R.task_state[t] = "RDY" /\ R.block_obj = K.block_obj
    BY <1>1, <1>3, <2>1, BecomeReady DEF SameTasks
  <2>3. tick_expire(K, t) = K2
    BY <1>4 DEF tick_expire, K1
  <2> HIDE DEF R
  <2>4. "OK" \in BlockState
    BY DEF BlockState
  <2>5. /\ Moves(R, K2, t) /\ K2.task_state = R.task_state /\ K2.block_status[t] = "OK"
        /\ K2.block_obj = R.block_obj
    BY <2>2, <2>4, SetStatus DEF Moves, OneMoves
  <2> HIDE DEF K2
  <2>6. Moves(K, K2, t)
    BY <2>2, <2>5, MovesCompose
  <2> QED
    BY <1>4, <2>2, <2>3, <2>5, <2>6 DEF Awake, Suspended, Pending, Forgets
<1>5. CASE K.task_state[t] = "DLY_SUSPENDED"
  <2> DEFINE B  == [K1 EXCEPT !.block_status[t] = "OK"]
             K2 == [B EXCEPT !.task_state[t] = "SUSPENDED"]
  <2>1. waits_for(K, t) = NoObj
    BY <1>5 DEF waits_for, Pending
  <2>2. "OK" \in BlockState /\ "SUSPENDED" \in TaskState
    BY DEF BlockState, TaskState, Suspended
  <2>3. /\ Links(K, B, t, "off", NoObj, "off") /\ B.block_status[t] = "OK"
        /\ B.block_obj = K.block_obj
    BY <1>3, <2>1, <2>2, WriteStatus DEF SameTasks
  <2>4. tick_expire(K, t) = K2
    BY <1>3, <1>5 DEF tick_expire, K1, Links, KernelState
  <2> HIDE DEF B
  <2>5. /\ Links(K, K2, t, "off", NoObj, "off") /\ K2.task_state[t] = "SUSPENDED"
        /\ K2.block_status[t] = "OK" /\ K2.block_obj = K.block_obj
    BY <2>2, <2>3, WriteState
  <2> HIDE DEF K2
  <2>6. /\ ready_link(K2, t) = "off" /\ tick_link(K2, t) = "off" /\ waits_for(K2, t) = NoObj
        /\ K2.task_state[t] \notin Pending
    BY <2>5 DEF ready_link, tick_link, waits_for, Timed, Pending
  <2>7. Moves(K, K2, t)
    BY <1>1, <2>5, <2>6, LinksEnd
  <2> QED
    BY <1>5, <2>4, <2>5, <2>7 DEF Awake, Pending, Forgets
<1>6. CASE K.task_state[t] \in {"PEND_TIMEOUT", "PEND_TIMEOUT_SUSPENDED"}
  <2> DEFINE R  == make_runnable(K1, t)
             K2 == [R EXCEPT !.block_status[t] = "TIMEOUT"]
             K3 == [mutex_state_change(K2, t) EXCEPT !.block_obj[t] = NoObj]
  <2>1. /\ K1.task_state[t] = K.task_state[t] /\ K1.task_state[t] \in Pending
        /\ waits_for(K, t) = K1.block_obj[t]
    BY <1>3, <1>6 DEF SameTasks, Pending, waits_for
  <2>2. /\ Links(K, R, t, ready_link(R, t), NoObj, "off") /\ R.task_state[t] \in Awake
        /\ K.task_state[t] \in Suspended => R.task_state[t] = "SUSPENDED"
    BY <1>3, <2>1, make_runnableLinked
  <2> HIDE DEF R
  <2>3. "TIMEOUT" \in BlockState
    BY DEF BlockState
  <2>4. /\ Links(K, K2, t, ready_link(R, t), NoObj, "off") /\ K2.task_state = R.task_state
        /\ K2.block_status[t] = "TIMEOUT"
    BY <2>2, <2>3, WriteStatus
  <2>5. tick_expire(K, t) = K3
    BY <1>6 DEF tick_expire, K1, R
  <2> HIDE DEF K2
  <2>6. /\ ready_link(K2, t) = ready_link(R, t) /\ tick_link(K2, t) = "off"
        /\ waits_for(K2, t) = NoObj /\ K2.task_state[t] \notin Pending
    BY <2>2, <2>4 DEF ready_link, tick_link, waits_for, Timed, Pending, Awake
  <2>7. Moves(K, K2, t)
    BY <1>1, <2>4, <2>6, LinksEnd
  <2>8. /\ Moves(K, K3, t) /\ K3.task_state[t] = K2.task_state[t]
        /\ K3.block_status[t] = K2.block_status[t] /\ K3.block_obj[t] = NoObj
    BY <1>1, <2>6, <2>7, EndMutexWait
  <2> HIDE DEF K3
  <2> QED
    BY <1>6, <2>2, <2>4, <2>5, <2>8 DEF Pending, Forgets
<1> QED
  BY <1>4, <1>5, <1>6 DEF Timed

\* raw_task_wait_abort: whatever the task waits for, it is ready afterwards.
LEMMA wait_abortMoves ==
  ASSUME NEW K, Consistent(K), NEW t \in Task
  PROVE  /\ Moves(K, wait_abort(K, t), t)
         /\ wait_abort(K, t) = K \/ wait_abort(K, t).task_state[t] = "RDY"
         /\ IF K.task_state[t] \in Pending \cup Timed
            THEN wait_abort(K, t).block_status[t] = "ABORT"
            ELSE wait_abort(K, t).block_status = K.block_status
         /\ Forgets(K, wait_abort(K, t), t)
<1> DEFINE K2 == tick_list_remove(K, t)
<1>1. Moves(K, K, t)
  BY TicksCompose DEF SameHeld, Moves, OneMoves
<1>2. K.task_state[t] # "RDY" => t \in Task \ {Idle}
  BY PendingNotIdle
<1>3. Links(K, K2, t, ready_link(K, t), waits_for(K, t), "off") /\ SameTasks(K, K2)
  BY LinksStart, tick_list_removeLinked
<1> HIDE DEF K2
<1>4. "ABORT" \in BlockState
  BY DEF BlockState
<1>5. CASE K.task_state[t] = "SUSPENDED"
  <2>1. Links(K, K, t, "off", NoObj, "off")
    BY <1>5, LinksStart DEF ready_link, waits_for, tick_link, Pending, Timed
  <2>2. /\ Moves(K, make_ready(K, t), t) /\ make_ready(K, t).task_state[t] = "RDY"
        /\ make_ready(K, t).block_status = K.block_status
        /\ make_ready(K, t).block_obj = K.block_obj
    BY <1>2, <1>5, <2>1, BecomeReady
  <2>3. wait_abort(K, t) = make_ready(K, t)
    BY <1>5 DEF wait_abort, Pending
  <2> QED
    BY <1>5, <2>2, <2>3 DEF Pending, Timed, Forgets
<1>6. CASE K.task_state[t] \in {"DLY", "DLY_SUSPENDED"}
  <2> DEFINE R == make_ready(K2, t)
             S == [R EXCEPT !.block_status[t] = "ABORT"]
  <2>1. Links(K, K2, t, "off", NoObj, "off")
    BY <1>3, <1>6 DEF ready_link, waits_for, Pending
  <2>2. Moves(K, R, t) /\ R.task_state[t] = "RDY" /\ R.block_obj = K.block_obj
    BY <1>2, <1>3, <1>6, <2>1, BecomeReady DEF SameTasks
  <2>3. wait_abort(K, t) = S
    BY <1>6 DEF wait_abort, K2, Pending
  <2> HIDE DEF R
  <2>4. /\ Moves(R, S, t) /\ S.task_state = R.task_state /\ S.block_status[t] = "ABORT"
        /\ S.block_obj = R.block_obj
    BY <1>4, <2>2, SetStatus DEF Moves, OneMoves
  <2> HIDE DEF S
  <2>5. Moves(K, S, t)
    BY <2>2, <2>4, MovesCompose
  <2> QED
    BY <1>6, <2>2, <2>3, <2>4, <2>5 DEF Timed, Pending, Forgets
<1>7. CASE K.task_state[t] \in Pending
  <2> DEFINE U == unlink_blocked(K2, t)
             R == make_ready(U, t)
             S == [R EXCEPT !.block_status[t] = "ABORT"]
             M == [mutex_state_change(S, t) EXCEPT !.block_obj[t] = NoObj]
  <2>1. Links(K, K2, t, "off", K2.block_obj[t], "off") /\ t \in Task \ {Idle}
    BY <1>2, <1>3, <1>7 DEF ready_link, waits_for, Pending, SameTasks
  <2>2. Links(K, U, t, "off", NoObj, "off")
    BY <2>1, unlink_blockedLinked
  <2>3. wait_abort(K, t) = M
    BY <1>7 DEF wait_abort, K2, Pending
  <2> HIDE DEF U
  <2>4. Moves(K, R, t) /\ R.task_state[t] = "RDY"
    BY <2>1, <2>2, BecomeReady
  <2> HIDE DEF R
  <2>5. Moves(R, S, t) /\ S.task_state = R.task_state /\ S.block_status[t] = "ABORT"
    BY <1>4, <2>4, SetStatus DEF Moves, OneMoves
  <2> HIDE DEF S
  <2>6. Moves(K, S, t) /\ S.task_state[t] = "RDY" /\ S.task_state[t] \notin Pending
    BY <2>4, <2>5, MovesCompose DEF Pending
  <2>7. /\ Moves(K, M, t) /\ M.task_state[t] = "RDY" /\ M.block_status[t] = "ABORT"
        /\ M.block_obj[t] = NoObj
    BY <2>1, <2>5, <2>6, EndMutexWait
  <2> HIDE DEF M
  <2> QED
    BY <1>7, <2>3, <2>7 DEF Forgets
<1>8. CASE K.task_state[t] \notin Pending \cup {"SUSPENDED", "DLY", "DLY_SUSPENDED"}
  BY <1>1, <1>8 DEF wait_abort, Pending, Timed, Forgets
<1> QED
  BY <1>5, <1>6, <1>7, <1>8

LEMMA get_ready_taskPicks ==
  ASSUME NEW K, Consistent(K)
  PROVE  LET K1 == get_ready_task(K)
         IN  /\ Consistent(K1)
             /\ K1.task_state = K.task_state /\ K1.block_obj = K.block_obj
             /\ K1.block_status = K.block_status /\ SameTicks(K, K1)
             /\ K1.live = K.live /\ K1.task_state[K1.raw_task_active] = "RDY"
             /\ K1.raw_task_active = HighestReady(K) /\ SameHeld(K, K1)
<1> DEFINE K1 == get_ready_task(K)
           h  == HighestReady(K)
<1>1. K \in KernelState /\ K.highest_priority \in Prio
  BY DEF Consistent, KernelState
<1>2. h \in Task /\ In(h, K.task_ready_list[K.highest_priority])
  BY <1>1, HighestReadyIsReady DEF Consistent
<1>3. K.task_state[h] = "RDY"
  BY <1>1, <1>2 DEF Consistent, LinkedAs
<1> HIDE DEF h
<1>4. /\ K1 \in KernelState /\ SameQueue(K, K1)
      /\ K1.block_list = K.block_list /\ SameTicks(K, K1)
      /\ K1.task_state = K.task_state /\ K1.priority = K.priority /\ K1.block_obj = K.block_obj
      /\ K1.fault = K.fault /\ SameHeld(K, K1) /\ K1.raw_task_active = h
      /\ K1.live = K.live /\ K1.block_status = K.block_status
  BY <1>1, <1>2 DEF SameHeld, KernelState, get_ready_task, SameQueue, h, SameTicks
<1> HIDE DEF K1
<1>5. Consistent(K1)
  BY <1>4, OtherFields DEF SameHeld, Consistent, IdleOK, SameTicks
<1> QED
  BY <1>3, <1>4, <1>5 DEF K1, h

\* raw_sched.c: round robin moves a ready task to the end of its list.
LEMMA move_to_ready_list_endKeeps ==
  ASSUME NEW K, Consistent(K), NEW t \in Task, K.task_state[t] = "RDY"
  PROVE  SameStates(K, move_to_ready_list_end(K, t))
<1> DEFINE K1 == move_to_ready_list_end(K, t)
<1>1. K \in KernelState /\ K.priority[t] \in Prio /\ LinkedAs(K, t)
  BY DEF Consistent, KernelState
<1>2. ReadyStep(K, K1, t, TRUE)
  BY <1>1, ConsistentFacts, move_to_ready_list_endLinks DEF Consistent, Once, LinkedAs
<1> HIDE DEF K1
<1>3. /\ K1 \in KernelState /\ SameTasks(K, K1)
      /\ K1.block_list = K.block_list /\ SameTicks(K, K1)
  BY <1>1, <1>2, QueueFrame
<1>4. IndexOK(K1) /\ Once(K1) /\ BlockSorted(K1) /\ IdleOK(K1) /\ TicksKept(K, K1)
  BY <1>2, <1>3, TicksCompose
  DEF Consistent, ReadyStep, SameTasks, SameHeld, SameTicks, Once, ReadyOnce, BlockOnce,
      BlockSorted, IdleOK
<1>5. ASSUME NEW u \in Task PROVE LinkedAs(K1, u)
  <2>1. LinkedAs(K, u)
    BY DEF Consistent
  <2>2. \A p \in Prio : In(u, K1.task_ready_list[p]) <=> In(u, K.task_ready_list[p])
    BY <1>1, <1>2 DEF ReadyStep, LinkedAs
  <2> QED
    BY <1>3, <2>1, <2>2 DEF LinkedAs, SameTasks, SameTicks
<1> QED
  BY <1>3, <1>4, <1>5 DEF Consistent, SameStates, StatesKept, SameTasks, K1

\* A step that writes none of the fields that Consistent speaks of.
LEMMA WriteOther ==
  ASSUME NEW K, Consistent(K), NEW K1 \in KernelState, SameQueue(K, K1), SameTasks(K, K1),
         K1.block_list = K.block_list, SameTicks(K, K1)
  PROVE  SameStates(K, K1)
BY OtherFields, TicksCompose DEF SameHeld, SameStates, StatesKept, SameTasks, SameTicks, Consistent, IdleOK

LEMMA calculate_time_sliceKeeps ==
  ASSUME NEW K, Consistent(K), NEW p \in Prio
  PROVE  SameStates(K, calculate_time_slice(K, p))
<1> DEFINE list == K.task_ready_list[p]
           t    == Head(list)
           A    == [K EXCEPT !.time_slice[t] = @ - 1]
           M    == move_to_ready_list_end(K, t)
           B    == [M EXCEPT !.time_slice[t] = K.time_total[t]]
<1>1. K \in KernelState /\ list \in Seq(Task)
  BY DEF Consistent, KernelState
<1>2. SUFFICES ASSUME list # <<>> PROVE SameStates(K, calculate_time_slice(K, p))
  BY SameCompose DEF calculate_time_slice
<1>3. t \in Task /\ In(t, list)
  BY <1>1, <1>2, LinkedNonEmpty
<1>4. K.task_state[t] = "RDY"
  BY <1>3 DEF Consistent, LinkedAs
<1> HIDE DEF t
<1>5. SameStates(K, M)
  BY <1>3, <1>4, move_to_ready_list_endKeeps
<1>6. M \in KernelState /\ K.time_total[t] \in 0 .. TimeTotal
  <2>1. K.time_total[t] \in 1 .. TimeTotal
    BY <1>1, <1>3 DEF KernelState
  <2> QED
    BY <1>5, <2>1, KernelAssumption DEF SameStates, StatesKept, Consistent
<1> HIDE DEF M
<1>7. SameStates(M, B)
  <2>1. /\ B \in KernelState /\ SameQueue(M, B) /\ SameTasks(M, B)
        /\ B.block_list = M.block_list /\ SameTicks(M, B)
    BY <1>6 DEF SameHeld, KernelState, SameQueue, SameTasks, SameTicks
  <2> HIDE DEF B
  <2> QED
    BY <1>5, <2>1, WriteOther DEF SameStates, StatesKept
<1>8. K.time_slice[t] > 1 => SameStates(K, A)
  <2>1. SUFFICES ASSUME K.time_slice[t] > 1 PROVE SameStates(K, A)
    OBVIOUS
  <2>2. K.time_slice[t] - 1 \in 0 .. TimeTotal
    <3>1. K.time_slice[t] \in 0 .. TimeTotal
      BY <1>1, <1>3 DEF KernelState
    <3> QED
      BY <2>1, <3>1, KernelAssumption
  <2>3. /\ A \in KernelState /\ SameQueue(K, A) /\ SameTasks(K, A)
        /\ A.block_list = K.block_list /\ SameTicks(K, A)
    BY <1>1, <2>2 DEF SameHeld, KernelState, SameQueue, SameTasks, SameTicks
  <2> HIDE DEF A
  <2> QED
    BY <2>3, WriteOther
<1>9. calculate_time_slice(K, p) \in {K, A, B}
  BY DEF calculate_time_slice, t, M
<1>10. K.time_slice[t] > 1 \/ calculate_time_slice(K, p) \in {K, B}
  BY DEF calculate_time_slice, t, M
<1>11. SameStates(K, K) /\ SameStates(K, B)
  BY <1>5, <1>7, SameCompose
<1> QED
  BY <1>8, <1>9, <1>10, <1>11

-----------------------------------------------------------------------------
(* raw_task.c, raw_mutex.c: deletion of a task.                             *)

LEMMA push_mutexKeeps ==
  ASSUME NEW K, Consistent(K), NEW t \in Task \ {Idle}, NEW m \in Mutex
  PROVE  /\ StatesKept(K, push_mutex(K, t, m))
         /\ push_mutex(K, t, m).bpriority = K.bpriority
<1> DEFINE K1 == push_mutex(K, t, m)
<1>1. K \in KernelState
  BY DEF Consistent
<1>2. /\ K1 \in KernelState /\ SameQueue(K, K1)
      /\ K1.block_list = K.block_list /\ SameTicks(K, K1)
      /\ K1.task_state = K.task_state /\ K1.priority = K.priority
      /\ K1.block_obj = K.block_obj /\ K1.fault = K.fault /\ K1.live = K.live
      /\ K1.raw_task_active = K.raw_task_active /\ K1.block_status = K.block_status
      /\ K1.bpriority = K.bpriority /\ K1.mtxtsk = [K.mtxtsk EXCEPT ![m] = t]
  BY <1>1 DEF KernelState, push_mutex, SameQueue, SameTicks
<1> HIDE DEF K1
<1>3. \A n \in Mutex : K1.mtxtsk[n] # Idle
  BY <1>1, <1>2 DEF Consistent, IdleOK, KernelState
<1>4. Consistent(K1)
  BY <1>2, <1>3, OtherFields DEF SameTicks
<1> QED
  BY <1>2, <1>4, TicksCompose DEF StatesKept, SameTicks, K1

LEMMA raise_to_ceilingKeeps ==
  ASSUME NEW K, Consistent(K), NEW t \in Task \ {Idle}, NEW m \in Mutex
  PROVE  SameStates(K, raise_to_ceiling(K, t, m))
<1>1. Ceiling[m] \in Prio
  BY KernelAssumption DEF Prio
<1> QED
  BY <1>1, change_internal_task_priorityKeeps, SameCompose DEF raise_to_ceiling

\* The mutex goes to the first waiter, which was not ready, or to nobody.
LEMMA free_one_mutexMoves ==
  ASSUME NEW K, Consistent(K), NEW m \in Mutex, NEW F, F = free_one_mutex(K, m)
  PROVE  LET t == Head(K.block_list[m])
         IN  /\ K.block_list[m] = <<>> => /\ StatesKept(K, F)
                                          /\ SameHeld([K EXCEPT !.mtxtsk[m] = NoTask], F)
             /\ K.block_list[m] # <<>> =>
                  /\ t \in Task \ {Idle} /\ OneMoves(K, F, t)
                  /\ SameHeld(push_mutex(K, t, m), F)
                  /\ K.task_state[t] \in Pending /\ K.block_obj[t] = m
                  /\ F.block_status[t] = "OK" /\ F.task_state[t] \in Awake
                  /\ F.block_obj[t] = NoObj
                  /\ K.task_state[t] \in Suspended => F.task_state[t] = "SUSPENDED"
<1>1. K \in KernelState /\ m \in Obj
  BY KernelAssumption DEF Consistent
<1>2. CASE K.block_list[m] = <<>>
  <2> DEFINE K1 == [K EXCEPT !.mtxtsk[m] = NoTask]
  <2>1. /\ K1 \in KernelState /\ SameQueue(K, K1)
        /\ K1.block_list = K.block_list /\ SameTicks(K, K1)
        /\ K1.task_state = K.task_state /\ K1.priority = K.priority
        /\ K1.block_obj = K.block_obj /\ K1.fault = K.fault /\ K1.live = K.live
        /\ K1.raw_task_active = K.raw_task_active /\ K1.block_status = K.block_status
        /\ K1.mtxtsk = [K.mtxtsk EXCEPT ![m] = NoTask]
    BY <1>1 DEF KernelState, SameQueue, SameTicks
  <2>2. free_one_mutex(K, m) = K1
    BY <1>2 DEF free_one_mutex
  <2>a. SameHeld([K EXCEPT !.mtxtsk[m] = NoTask], K1)
    BY DEF SameHeld
  <2> HIDE DEF K1
  <2>3. \A n \in Mutex : K1.mtxtsk[n] # Idle
    BY <1>1, <2>1, KernelAssumption DEF Consistent, IdleOK, KernelState
  <2>4. Consistent(K1)
    BY <2>1, <2>3, OtherFields DEF SameTicks
  <2> QED
    BY <1>2, <2>1, <2>2, <2>4, <2>a, TicksCompose DEF StatesKept, SameTicks
<1>3. CASE K.block_list[m] # <<>>
  <2> DEFINE t == Head(K.block_list[m])
             W == wake_up(K, t, "OK")
             P == push_mutex(W, t, m)
             C == raise_to_ceiling(P, t, m)
  <2>1. t \in Task /\ In(t, K.block_list[m])
    BY <1>1, <1>3, LinkedNonEmpty DEF KernelState
  <2>2. K.task_state[t] \in Pending /\ K.task_state[t] # "RDY" /\ K.block_obj[t] = m
    BY <1>1, <2>1 DEF Consistent, LinkedAs, Pending
  <2>3. free_one_mutex(K, m) = C
    BY <1>3 DEF free_one_mutex
  <2> HIDE DEF t
  <2>4. t \in Task \ {Idle} /\ "OK" \in BlockState
    BY <2>1, <2>2, PendingNotIdle DEF BlockState
  <2>5. /\ Moves(K, W, t) /\ W.task_state[t] \in Awake /\ W.block_status[t] = "OK"
        /\ W.block_obj[t] = NoObj
        /\ K.task_state[t] \in Suspended => W.task_state[t] = "SUSPENDED"
    BY <2>2, <2>4, wake_upMoves
  <2> HIDE DEF W
  <2>6. StatesKept(W, P) /\ P.bpriority = W.bpriority
    BY <2>4, <2>5, push_mutexKeeps DEF Moves, OneMoves
  <2>7. SameHeld(push_mutex(K, t, m), P)
    BY <1>1, <2>5, <2>6 DEF Moves, OneMoves, Consistent, SameHeld, push_mutex, KernelState
  <2> HIDE DEF P
  <2>8. SameStates(P, C)
    BY <2>4, <2>6, raise_to_ceilingKeeps DEF StatesKept
  <2> HIDE DEF C
  <2>9. StatesKept(W, C) /\ SameHeld(push_mutex(K, t, m), C)
    BY <2>6, <2>7, <2>8, TicksCompose DEF SameStates, StatesKept, SameHeld
  <2>10. OneMoves(K, C, t)
    BY <2>5, <2>9, TicksCompose DEF Moves, OneMoves, StatesKept
  <2>11. /\ C.task_state[t] = W.task_state[t] /\ C.block_status[t] = W.block_status[t]
         /\ C.block_obj[t] = W.block_obj[t]
    BY <2>9 DEF StatesKept
  <2> QED
    BY <1>3, <2>2, <2>3, <2>4, <2>5, <2>9, <2>10, <2>11 DEF t
<1> QED
  BY <1>2, <1>3

\* A task that is on no list any more is deleted.
LEMMA DeleteUnlinked ==
  ASSUME NEW K, Consistent(K), NEW K1, NEW t \in Task \ {Idle},
         Links(K, K1, t, "off", NoObj, "off")
  PROVE  LET K2 == [K1 EXCEPT !.task_state[t] = "DELETED"]
         IN  Moves(K, K2, t) /\ K2.task_state[t] = "DELETED"
<1> DEFINE K2 == [K1 EXCEPT !.task_state[t] = "DELETED"]
<1>1. Links(K, K2, t, "off", NoObj, "off") /\ K2.task_state[t] = "DELETED"
  BY WriteState DEF TaskState
<1> HIDE DEF K2
<1>2. /\ ready_link(K2, t) = "off" /\ tick_link(K2, t) = "off" /\ waits_for(K2, t) = NoObj
      /\ K2.task_state[t] \notin Pending
  BY <1>1 DEF ready_link, tick_link, waits_for, Timed, Pending
<1> QED
  BY <1>1, <1>2, LinksEnd DEF K2
=============================================================================
