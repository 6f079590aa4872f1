----------------------------- MODULE RawMalloc -----------------------------
(***************************************************************************)
(* The heap (extension/mm/raw_malloc.c) in units of sizeof(LIST): areaque  *)
(* lists all areas, those of one block of pages in the order of their      *)
(* addresses between a TOP and an END; freeque lists the free areas by     *)
(* size, those of one size in one chain.  Pages come from raw_page_allocate *)
(* (RawPage).  Every call holds mem_lock and is one step.                  *)
(***************************************************************************)
EXTENDS Integers, Sequences, SequencesExt, FiniteSetsExt

CONSTANTS
  PageSz,       \* pagesz
  Pages,        \* bound: the pages there are
  MallocSize,   \* bound: the sizes callers ask for, rounded up to units
  MallocHeld    \* bound: areas that are held at a time

ASSUME MallocAssumption ==
  PageSz \in Nat /\ PageSz > 4 /\ Pages \in Nat /\ MallocSize \subseteq Nat \ {0} /\ MallocHeld \in Nat

VARIABLES
  macb,         \* areaque with the flags USE, TOP and END, and freeque
  mallocs       \* what callers hold: area |-> the size they asked for (no variable of the code)

mallocVars == <<macb, mallocs>>

MIN_FRAGMENT == 2
NoBlock == -1

MallocInit ==
  /\ macb = [areaque |-> <<>>, use |-> {}, top |-> {}, end |-> {}, freeque |-> <<>>]
  /\ mallocs = <<>>

place_of(s, a) == CHOOSE i \in DOMAIN s : s[i] = a
next_of(M, a) == M.areaque[place_of(M.areaque, a) + 1]
previous_of(M, a) == M.areaque[place_of(M.areaque, a) - 1]
AreaSize(M, a) == next_of(M, a) - a - 1
FreeSize(M, chain) == AreaSize(M, chain[1])

\* searchFreeArea: the first chain of areas that are large enough, or the end of the
\* queue.  The two directions it searches in find the same chain.
searchFreeArea(M, size) ==
  LET fit == {i \in DOMAIN M.freeque : FreeSize(M, M.freeque[i]) >= size}
  IN  IF fit = {} THEN Len(M.freeque) + 1 ELSE Min(fit)

appendFreeArea(M, a) ==
  LET size == AreaSize(M, a)
      i == searchFreeArea(M, size)
      same == i <= Len(M.freeque) /\ FreeSize(M, M.freeque[i]) = size
  IN  [M EXCEPT !.use = @ \ {a},
                !.freeque = IF same THEN [@ EXCEPT ![i] = Append(@, a)]
                            ELSE InsertAt(@, i, <<a>>)]

\* removeFreeQue: the next of its chain takes the place of a head that leaves.
removeFreeQue(M, a) ==
  LET i == CHOOSE j \in DOMAIN M.freeque : a \in ToSet(M.freeque[j])
      chain == Remove(M.freeque[i], a)
  IN  [M EXCEPT !.freeque = IF chain = <<>> THEN RemoveAt(@, i) ELSE [@ EXCEPT ![i] = chain]]

insertAreaQue(M, a, new) ==
  [M EXCEPT !.areaque = InsertAt(@, place_of(@, a) + 1, new)]

\* An area that leaves areaque leaves its flags.
removeAreaQue(M, a) ==
  [M EXCEPT !.areaque = Remove(@, a), !.use = @ \ {a}, !.top = @ \ {a}, !.end = @ \ {a}]

toPageCount(size) == (size + PageSz - 1) \div PageSz

pages_of(M) ==
  UNION {{p \in 0 .. Pages - 1 : p * PageSz >= t /\ p * PageSz <
            (CHOOSE e \in M.end : e > t /\ \A x \in M.end : x > t => e <= x)} : t \in M.top}

\* What raw_page_allocate returns for n pages: some that are free, or nothing, as
\* others have pages too.
getblk(M, n) ==
  {NoBlock} \cup {p * PageSz : p \in {q \in 0 .. Pages - n : (q .. q + n - 1) \cap pages_of(M) = {}}}

newPage(M, size, top) ==
  LET end == top + toPageCount(size + 2) * PageSz - 1
  IN  [M EXCEPT !.areaque = <<top, end>> \o @, !.top = @ \cup {top}, !.end = @ \cup {end}]

\* allocate: what is left of the area is a free area if it is large enough for one.
allocate(M, a, size) ==
  LET q == a + 1 + size
      split == IF AreaSize(M, a) - size >= MIN_FRAGMENT + 1
               THEN appendFreeArea(insertAreaQue(M, a, q), q) ELSE M
  IN  [split EXCEPT !.use = @ \cup {a}]

rounded(size) == Max({size, MIN_FRAGMENT})

\* _mem_malloc, where getblk returns top; area is NoBlock when it fails.
mem_malloc(M, size, top) ==
  LET i == searchFreeArea(M, size)
      found == i <= Len(M.freeque)
      a == IF found THEN M.freeque[i][1] ELSE top
  IN  IF a = NoBlock THEN [mem |-> M, area |-> NoBlock]
      ELSE [mem |-> allocate(IF found THEN removeFreeQue(M, a) ELSE newPage(M, size, a), a, size),
            area |-> a]

\* Mutant: the free area behind a freed one is not merged with it.
malloc_merge_next_Not(M, a) == M

\* The start of _mem_realloc and _mem_free: a free area behind a joins it.
malloc_merge_next(M, a) ==
  LET n == next_of(M, a)
  IN  IF n \in M.end \cup M.use THEN M ELSE removeAreaQue(removeFreeQue(M, n), n)

\* _mem_free: an empty block of pages goes back.
mem_free(M, a) ==
  LET behind == malloc_merge_next([M EXCEPT !.use = @ \ {a}], a)
      p == previous_of(behind, a)
      join == a \notin M.top /\ p \notin M.use
      left == IF join THEN removeAreaQue(removeFreeQue(behind, p), a) ELSE behind
      first == IF join THEN p ELSE a
      last == next_of(left, first)
  IN  IF first \in left.top /\ last \in left.end THEN removeAreaQue(removeAreaQue(left, last), first)
      ELSE appendFreeArea(left, first)

Without(held, a) == [x \in DOMAIN held \ {a} |-> held[x]]
With(held, a, size) == [x \in DOMAIN held \cup {a} |-> IF x = a THEN size ELSE held[x]]

\* raw_malloc, raw_calloc.
raw_malloc(size) ==
  /\ Cardinality(DOMAIN mallocs) < MallocHeld
  /\ \E top \in getblk(macb, toPageCount(rounded(size) + 2)) :
       LET got == mem_malloc(macb, rounded(size), top)
       IN  /\ macb' = got.mem
           /\ mallocs' = IF got.area = NoBlock THEN mallocs ELSE With(mallocs, got.area, size)

raw_free(a) == macb' = mem_free(macb, a) /\ mallocs' = Without(mallocs, a)

\* raw_realloc of a block that is held: it is made larger or smaller where it stands if
\* what it and the free area behind it have is enough, else a new one takes its place;
\* if there is none, the block gets its old size again.
raw_realloc(a, size) ==
  LET oldsz == AreaSize(macb, a)
      merged == malloc_merge_next(macb, a)
      fits == rounded(size) <= AreaSize(merged, a)
  IN  \/ /\ fits
         /\ macb' = allocate(merged, a, rounded(size))
         /\ mallocs' = With(mallocs, a, size)
      \/ /\ ~ fits
         /\ \E top \in getblk(macb, toPageCount(rounded(size) + 2)) :
              LET got == mem_malloc(merged, rounded(size), top)
              IN  IF got.area = NoBlock
                  THEN macb' = allocate(merged, a, oldsz) /\ mallocs' = mallocs
                  ELSE /\ macb' = mem_free(got.mem, a)
                       /\ mallocs' = With(Without(mallocs, a), got.area, size)

MallocNext ==
  \/ \E size \in MallocSize : raw_malloc(size)
  \/ \E a \in DOMAIN mallocs : raw_free(a) \/ \E size \in MallocSize : raw_realloc(a, size)

MallocSpec == MallocInit /\ [][MallocNext]_mallocVars

\* What chkalloc_test (raw_malloc.c:63) checks, and what it leaves out: the areas of a
\* block of pages lie one behind the other from its TOP to its END; the areas in use are
\* those that callers hold, each as large as was asked for; no two free areas touch and no
\* empty block of pages is kept; the free queue holds each free area once, sorted by size.
MallocOK ==
  LET q == macb.areaque
      size(a) == AreaSize(macb, a)
      area == ToSet(q) \ macb.end
      unused == area \ macb.use
      free == macb.freeque
  IN  /\ \A i \in DOMAIN q :
           /\ (i = 1 \/ q[i - 1] \in macb.end) <=> q[i] \in macb.top
           /\ q[i] \notin macb.end => q[i + 1] > q[i] + MIN_FRAGMENT
           /\ q[i] \in unused => q[i + 1] \notin unused
                              /\ ~ (q[i] \in macb.top /\ q[i + 1] \in macb.end)
      /\ macb.use = DOMAIN mallocs /\ \A a \in macb.use : size(a) >= mallocs[a]
      /\ \A i \in DOMAIN free : \A a \in ToSet(free[i]) : size(a) = FreeSize(macb, free[i])
      /\ \A i \in 2 .. Len(free) : FreeSize(macb, free[i - 1]) < FreeSize(macb, free[i])
      /\ IsInjective(FlattenSeq(free)) /\ ToSet(FlattenSeq(free)) = unused
=============================================================================
