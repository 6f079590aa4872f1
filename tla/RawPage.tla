------------------------------ MODULE RawPage ------------------------------
(***************************************************************************)
(* The page allocator (extension/mm/raw_page.c): one descriptor per page,  *)
(* pageque[0] heads the queue of the free blocks, sorted by their size.    *)
(* The size of a block of several pages stands in its second and its last  *)
(* descriptor; the other descriptors inside a block keep what was in them. *)
(* Every call holds system_page_table.mem_lock and is one step.            *)
(***************************************************************************)
EXTENDS Integers, Sequences, FiniteSetsExt, Functions

CONSTANTS
  MaxPage,      \* maxpage: the pages init_page_table finds room for
  PageRequest   \* bound: the numbers of pages that callers ask for

ASSUME PageAssumption == MaxPage \in Nat \ {0} /\ PageRequest \subseteq Nat \ {0}

VARIABLES
  pageque, freepage,
  blocksHeld,     \* the blocks that callers hold: first page and size (no variable of the code)
  pageAssert    \* RAW_ASSERT of free_pages stopped the system

pageVars == <<pageque, freepage, blocksHeld, pageAssert>>

PageNo == 0 .. MaxPage
set_page_attr(u, c, n, p) == [use |-> u, cont |-> c, next |-> n, prev |-> p]

PAGE_NUMBERS(Q, pn) == IF Q[pn].cont THEN Q[pn + 1].next ELSE 1

insert_free_page(Q, que, ent) ==
  LET linked == [Q EXCEPT ![ent].prev = Q[que].prev, ![ent].next = que]
  IN  [linked EXCEPT ![linked[que].prev].next = ent, ![que].prev = ent]

remove_free_page(Q, ent) ==
  IF Q[ent].next = ent THEN Q
  ELSE [Q EXCEPT ![Q[ent].prev].next = Q[ent].next, ![Q[ent].next].prev = Q[ent].prev]

\* The free queue.
free_queue(Q) ==
  LET walk[n \in PageNo] ==
        IF n = 0 THEN <<0>>
        ELSE LET w == walk[n - 1]
                 pn == Q[w[Len(w)]].next
             IN  IF pn = 0 THEN w ELSE Append(w, pn)
  IN  Tail(walk[MaxPage])

\* The first block on the queue that is long enough, or its head.
search_free_page(Q, n) ==
  LET fit == SelectSeq(free_queue(Q), LAMBDA pn : PAGE_NUMBERS(Q, pn) >= n)
  IN  IF fit = <<>> THEN 0 ELSE fit[1]

\* The two descriptors of a block that hold its size.
sized(Q, pn, n, u) ==
  [q \in PageNo |-> IF n > 1 /\ q \in {pn + 1, pn + n - 1}
                    THEN set_page_attr(u, TRUE, n, 0) ELSE Q[q]]

\* Mutant: the last descriptor is not written.
add_page_to_pool_HeadOnly(Q, pn, n) ==
  LET block == [Q EXCEPT ![pn].use = FALSE, ![pn].cont = n > 1]
      tagged == IF n > 1 THEN [block EXCEPT ![pn + 1] = set_page_attr(FALSE, TRUE, n, 0)] ELSE block
  IN  insert_free_page(tagged, search_free_page(tagged, n), pn)

add_page_to_pool(Q, pn, n) ==
  LET block == sized([Q EXCEPT ![pn].use = FALSE, ![pn].cont = n > 1], pn, n, FALSE)
  IN  insert_free_page(block, search_free_page(block, n), pn)

set_page_used(Q, pn, n) ==
  [sized([Q EXCEPT ![pn].use = TRUE, ![pn].cont = n > 1], pn, n, TRUE)
     EXCEPT ![pn].next = pn, ![pn].prev = pn]

\* raw_page_init: the descriptors of pages inside the first block are as the memory
\* was; here they say FREE, as nothing reads them before they are written.
PageInit ==
  /\ pageque = add_page_to_pool([q \in PageNo |-> set_page_attr(FALSE, FALSE, 0, 0)], 1, MaxPage)
  /\ freepage = MaxPage /\ blocksHeld = {} /\ pageAssert = FALSE

\* raw_page_allocate, which returns 0 when no block is long enough.
raw_page_allocate(n) ==
  LET pn == search_free_page(pageque, n)
      more == PAGE_NUMBERS(pageque, pn) - n
      used == set_page_used(remove_free_page(pageque, pn), pn, n)
  IN  /\ ~ pageAssert /\ pn # 0
      /\ pageque' = IF more > 0 THEN add_page_to_pool(used, pn + n, more) ELSE used
      /\ freepage' = freepage - n
      /\ blocksHeld' = blocksHeld \cup {<<pn, n>>}
      /\ UNCHANGED pageAssert

\* free_pages asserts pn + free <= maxpage, which a block with the last page violates.
free_asserts(b) ==
  /\ ~ pageAssert /\ b[1] + PAGE_NUMBERS(pageque, b[1]) > MaxPage
  /\ pageAssert' = TRUE
  /\ UNCHANGED <<pageque, freepage, blocksHeld>>

\* raw_page_free: the block is merged with a free one behind it and one before it.
raw_page_free(b) ==
  LET pn == b[1]
      n == PAGE_NUMBERS(pageque, pn)
      after == ~ pageque[pn + n].use
      all == IF after THEN n + PAGE_NUMBERS(pageque, pn + n) ELSE n
      left == IF after THEN remove_free_page(pageque, pn + n) ELSE pageque
      before == pn > 1 /\ ~ left[pn - 1].use
      m == IF left[pn - 1].cont THEN left[pn - 1].next ELSE 1
  IN  /\ ~ pageAssert /\ pn + n <= MaxPage
      /\ pageque' = IF before
                    THEN add_page_to_pool([remove_free_page(left, pn - m) EXCEPT ![pn].use = FALSE],
                                          pn - m, all + m)
                    ELSE add_page_to_pool(left, pn, all)
      /\ freepage' = freepage + n
      /\ blocksHeld' = blocksHeld \ {b}
      /\ UNCHANGED pageAssert

PageNext ==
  \/ \E n \in PageRequest : raw_page_allocate(n)
  \/ \E b \in blocksHeld : raw_page_free(b) \/ free_asserts(b)

PageSpec == PageInit /\ [][PageNext]_pageVars

\* The blocks as the descriptors tell them, from page 1 on.
blocks_from[pn \in 1 .. MaxPage + 1] ==
  IF pn > MaxPage THEN <<>>
  ELSE LET n == PAGE_NUMBERS(pageque, pn)
       IN  <<<<pn, n, pageque[pn].use>>>>
             \o IF n > 0 /\ pn + n <= MaxPage + 1 THEN blocks_from[pn + n] ELSE <<>>

\* The descriptors agree with what callers were given: they cut the pages into the
\* blocks that are held and free blocks between them; no two free blocks touch; the
\* queue holds each free block once, the smallest first, and freepage counts their
\* pages, after any sequence of splits and merges (raw_page.c:135, 184, 222).
PagesOK ==
  LET all == blocks_from[1]
      size(pn) == PAGE_NUMBERS(pageque, pn)
      queue == free_queue(pageque)
      unused == {i \in DOMAIN all : ~ all[i][3]}
  IN  /\ {<<all[i][1], all[i][2]>> : i \in DOMAIN all \ unused} = blocksHeld
      /\ all[Len(all)][1] + all[Len(all)][2] = MaxPage + 1
      /\ \A i \in unused : i + 1 \notin unused
      /\ IsInjective(queue) /\ Range(queue) = {all[i][1] : i \in unused}
      /\ \A i \in 2 .. Len(queue) : size(queue[i - 1]) <= size(queue[i])
      /\ freepage = MapThenSumSet(LAMBDA i : all[i][2], unused)
=============================================================================
