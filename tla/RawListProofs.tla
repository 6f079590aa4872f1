--------------------------- MODULE RawListProofs ---------------------------
(***************************************************************************)
(* What the list operations of the kernel (raw_list.h, and the insertion   *)
(* and removal loops of raw_pend.c and raw_tick.c) do to the elements of a *)
(* list, and how counters that wrap behave: the lemmas the proofs cite.    *)
(***************************************************************************)
EXTENDS RawList, SequenceTheorems, WellFoundedInduction, TLAPS

\* Min(S) is the smallest element of a set of natural numbers: the first bit
\* of a bitmap, the first element that passes a test.
LEMMA MinOfNats ==
  ASSUME NEW S \in SUBSET Nat, S # {}
  PROVE  Min(S) \in S /\ \A y \in S : Min(S) <= y
<1> DEFINE R == OpToRel(<, Nat)
<1>1. \A x, y \in Nat : y < x => <<y, x>> \in R
  BY Zenon DEF OpToRel
<1>2. IsWellFoundedOn(R, Nat)
  BY NatLessThanWellFounded
<1> HIDE DEF R
<1>3. PICK x \in S : \A y \in S : <<y, x>> \notin R
  BY <1>2, WFMin
<1>4. \A y \in S : x \in Nat /\ y \in Nat /\ ~ (y < x)
  BY <1>1, <1>3
<1>5. \A y \in S : x <= y
  BY <1>4
<1> QED
  BY <1>3, <1>5 DEF Min

\* In and NoDup in terms of positions.
LEMMA LinkedAt ==
  ASSUME NEW S, NEW s \in Seq(S)
  PROVE  /\ \A t : In(t, s) <=> \E i \in 1 .. Len(s) : s[i] = t
         /\ NoDup(s) <=> \A i, j \in 1 .. Len(s) : s[i] = s[j] => i = j
BY LenProperties DEF In, NoDup

\* Unlinking the i-th element.
LEMMA RemoveAtProperties ==
  ASSUME NEW S, NEW s \in Seq(S), NEW i \in 1 .. Len(s)
  PROVE  /\ RemoveAt(s, i) \in Seq(S)
         /\ Len(RemoveAt(s, i)) = Len(s) - 1
         /\ \A j \in 1 .. Len(s) - 1 : RemoveAt(s, i)[j] = IF j < i THEN s[j] ELSE s[j + 1]
<1> DEFINE a == SubSeq(s, 1, i - 1)
           b == SubSeq(s, i + 1, Len(s))
<1>1. a \in Seq(S) /\ Len(a) = i - 1 /\ \A j \in 1 .. i - 1 : a[j] = s[j]
  OBVIOUS
<1>2. b \in Seq(S) /\ Len(b) = Len(s) - i /\ \A j \in 1 .. Len(s) - i : b[j] = s[i + j]
  OBVIOUS
<1>3. RemoveAt(s, i) = a \o b
  BY DEF RemoveAt
<1> HIDE DEF a, b
<1>4. /\ a \o b \in Seq(S)
      /\ Len(a \o b) = Len(a) + Len(b)
      /\ \A j \in 1 .. Len(a) + Len(b) :
           (a \o b)[j] = IF j <= Len(a) THEN a[j] ELSE b[j - Len(a)]
  BY <1>1, <1>2, ConcatProperties
<1> QED
  BY SMTT(30), <1>1, <1>2, <1>3, <1>4

\* Linking a new element before the i-th.
LEMMA InsertAtProperties ==
  ASSUME NEW S, NEW s \in Seq(S), NEW i \in 1 .. Len(s), NEW e \in S
  PROVE  /\ InsertAt(s, i, e) \in Seq(S)
         /\ Len(InsertAt(s, i, e)) = Len(s) + 1
         /\ \A j \in 1 .. Len(s) + 1 :
              InsertAt(s, i, e)[j] = IF j < i THEN s[j] ELSE IF j = i THEN e ELSE s[j - 1]
<1> DEFINE a == SubSeq(s, 1, i - 1)
           b == SubSeq(s, i, Len(s))
           c == Append(a, e)
<1>1. a \in Seq(S) /\ Len(a) = i - 1 /\ \A j \in 1 .. i - 1 : a[j] = s[j]
  OBVIOUS
<1>2. b \in Seq(S) /\ Len(b) = Len(s) - i + 1 /\ \A j \in 1 .. Len(s) - i + 1 : b[j] = s[i + j - 1]
  OBVIOUS
<1>3. InsertAt(s, i, e) = (a \o <<e>>) \o b
  BY DEF InsertAt
<1> HIDE DEF a, b
<1>4. a \o <<e>> = c
  BY <1>1, AppendIsConcat
<1>5. /\ c \in Seq(S) /\ Len(c) = i
      /\ \A j \in 1 .. i : c[j] = IF j < i THEN s[j] ELSE e
  BY <1>1, AppendProperties
<1> HIDE DEF c
<1>6. /\ c \o b \in Seq(S)
      /\ Len(c \o b) = Len(c) + Len(b)
      /\ \A j \in 1 .. Len(c) + Len(b) :
           (c \o b)[j] = IF j <= Len(c) THEN c[j] ELSE b[j - Len(c)]
  BY <1>2, <1>5, ConcatProperties
<1> QED
  BY <1>2, <1>3, <1>4, <1>5, <1>6 DEF c

\* list_insert at the end, at the head and before the i-th element: the new
\* element is linked, once if it was not linked before, the others stay.
LEMMA AppendLinks ==
  ASSUME NEW S, NEW s \in Seq(S), NEW e \in S
  PROVE  /\ Append(s, e) \in Seq(S) /\ Append(s, e) # <<>>
         /\ \A t : In(t, Append(s, e)) <=> (In(t, s) \/ t = e)
         /\ NoDup(s) /\ ~ In(e, s) => NoDup(Append(s, e))
BY AppendProperties DEF In, NoDup

LEMMA ConsLinks ==
  ASSUME NEW S, NEW s \in Seq(S), NEW e \in S
  PROVE  /\ <<e>> \o s \in Seq(S) /\ <<e>> \o s # <<>>
         /\ \A t : In(t, <<e>> \o s) <=> (In(t, s) \/ t = e)
         /\ NoDup(s) /\ ~ In(e, s) => NoDup(<<e>> \o s)
<1> DEFINE r == <<e>> \o s
<1>1. <<e>> \in Seq(S) /\ Len(<<e>>) = 1 /\ <<e>>[1] = e
  OBVIOUS
<1>2. /\ r \in Seq(S) /\ Len(r) = Len(s) + 1
      /\ \A i \in 1 .. Len(s) + 1 : r[i] = IF i = 1 THEN e ELSE s[i - 1]
  BY <1>1, ConcatProperties
<1> HIDE DEF r
<1>3. r # <<>>
  BY <1>2
<1>4. \A i \in 1 .. Len(s) : r[i + 1] = s[i]
  BY <1>2
<1>5. \A t : In(t, r) <=> (In(t, s) \/ t = e)
  <2> TAKE t
  <2>1. In(t, r) => In(t, s) \/ t = e
    <3>1. SUFFICES ASSUME NEW j \in 1 .. Len(s) + 1, r[j] = t, t # e PROVE In(t, s)
      BY <1>2, LinkedAt
    <3>2. j - 1 \in 1 .. Len(s) /\ s[j - 1] = t
      BY <1>2, <3>1
    <3> QED
      BY <3>2, LinkedAt
  <2>2. In(t, s) => In(t, r)
    <3>1. SUFFICES ASSUME NEW j \in 1 .. Len(s), s[j] = t PROVE In(t, r)
      BY LinkedAt
    <3>2. j + 1 \in 1 .. Len(r) /\ r[j + 1] = t
      BY <1>2, <1>4, <3>1
    <3> QED
      BY <1>2, <3>2, LinkedAt
  <2>3. In(e, r)
    <3>1. 1 \in 1 .. Len(r) /\ r[1] = e
      BY <1>2
    <3> QED
      BY <1>2, <3>1, LinkedAt
  <2> QED
    BY <2>1, <2>2, <2>3
<1>6. ASSUME NoDup(s), ~ In(e, s) PROVE NoDup(r)
  <2>1. \A i, j \in 1 .. Len(s) : s[i] = s[j] => i = j
    BY <1>6, LinkedAt
  <2>2. \A i \in 1 .. Len(s) : s[i] # e
    BY <1>6, LinkedAt
  <2>3. ASSUME NEW i \in 1 .. Len(r), NEW j \in 1 .. Len(r), r[i] = r[j] PROVE i = j
    <3>1. i # 1 => i - 1 \in 1 .. Len(s) /\ r[i] = s[i - 1]
      BY <1>2
    <3>2. j # 1 => j - 1 \in 1 .. Len(s) /\ r[j] = s[j - 1]
      BY <1>2
    <3>3. r[1] = e
      BY <1>2
    <3>4. i # 1 /\ j # 1 => i - 1 = j - 1
      BY <2>1, <2>3, <3>1, <3>2
    <3>5. i = 1 <=> j = 1
      BY <2>2, <2>3, <3>1, <3>2, <3>3
    <3> QED
      BY <3>4, <3>5
  <2> QED
    BY <1>2, <2>3, LinkedAt
<1> QED
  BY <1>2, <1>3, <1>5, <1>6 DEF r

LEMMA InsertAtLinks ==
  ASSUME NEW S, NEW s \in Seq(S), NEW i \in 1 .. Len(s), NEW e \in S
  PROVE  /\ InsertAt(s, i, e) \in Seq(S) /\ InsertAt(s, i, e) # <<>>
         /\ \A t : In(t, InsertAt(s, i, e)) <=> (In(t, s) \/ t = e)
         /\ NoDup(s) /\ ~ In(e, s) => NoDup(InsertAt(s, i, e))
<1> DEFINE r == InsertAt(s, i, e)
<1>1. /\ r \in Seq(S) /\ Len(r) = Len(s) + 1
      /\ \A j \in 1 .. Len(s) + 1 :
           r[j] = IF j < i THEN s[j] ELSE IF j = i THEN e ELSE s[j - 1]
  BY InsertAtProperties
<1> HIDE DEF r
<1>2. \A j \in 1 .. Len(s) : IF j < i THEN r[j] = s[j] ELSE r[j + 1] = s[j]
  BY <1>1
<1>3. r[i] = e
  BY <1>1
<1>4. \A t : In(t, r) <=> (In(t, s) \/ t = e)
  <2> TAKE t
  <2>1. In(t, r) => In(t, s) \/ t = e
    <3>1. SUFFICES ASSUME NEW j \in 1 .. Len(s) + 1, r[j] = t, t # e PROVE In(t, s)
      BY <1>1, LinkedAt
    <3>2. \E h \in 1 .. Len(s) : s[h] = t
      <4>1. CASE j < i
        BY <1>1, <3>1, <4>1
      <4>2. CASE j > i
        <5>1. j - 1 \in 1 .. Len(s) /\ s[j - 1] = t
          BY <1>1, <3>1, <4>2
        <5> QED
          BY <5>1
      <4> QED
        BY <1>1, <3>1, <4>1, <4>2
    <3> QED
      BY <3>2, LinkedAt
  <2>2. In(t, s) => In(t, r)
    <3>1. SUFFICES ASSUME NEW j \in 1 .. Len(s), s[j] = t PROVE In(t, r)
      BY LinkedAt
    <3>2. \E h \in 1 .. Len(r) : r[h] = t
      <4>1. CASE j < i
        BY <1>1, <1>2, <3>1, <4>1
      <4>2. CASE ~ (j < i)
        <5>1. j + 1 \in 1 .. Len(r) /\ r[j + 1] = t
          BY <1>1, <1>2, <3>1, <4>2
        <5> QED
          BY <5>1
      <4> QED
        BY <4>1, <4>2
    <3> QED
      BY <1>1, <3>2, LinkedAt
  <2>3. In(e, r)
    <3>1. i \in 1 .. Len(r) /\ r[i] = e
      BY <1>1
    <3> QED
      BY <1>1, <3>1, LinkedAt
  <2> QED
    BY <2>1, <2>2, <2>3
<1>5. ASSUME NoDup(s), ~ In(e, s) PROVE NoDup(r)
  <2>1. \A g, h \in 1 .. Len(s) : s[g] = s[h] => g = h
    BY <1>5, LinkedAt
  <2>2. \A h \in 1 .. Len(s) : s[h] # e
    BY <1>5, LinkedAt
  <2> DEFINE at(g) == IF g < i THEN g ELSE g - 1
  <2>3. \A g \in 1 .. Len(r) : g # i => at(g) \in 1 .. Len(s) /\ r[g] = s[at(g)]
    BY <1>1
  <2>4. \A g, h \in 1 .. Len(r) : g # i /\ h # i /\ at(g) = at(h) => g = h
    BY <1>1
  <2> HIDE DEF at
  <2>5. ASSUME NEW g \in 1 .. Len(r), NEW h \in 1 .. Len(r), r[g] = r[h] PROVE g = h
    <3>1. g # i /\ h # i => at(g) = at(h)
      BY <2>1, <2>3, <2>5
    <3>2. g = i <=> h = i
      BY <1>3, <2>2, <2>3, <2>5
    <3> QED
      BY <2>4, <3>1, <3>2
  <2> QED
    BY <1>1, <2>5, LinkedAt
<1> QED
  BY <1>1, <1>4, <1>5 DEF r

LEMMA InsertBeforeLinks ==
  ASSUME NEW S, NEW s \in Seq(S), NEW e \in S, NEW later
  PROVE  /\ InsertBefore(s, e, later) \in Seq(S)
         /\ \A t : In(t, InsertBefore(s, e, later)) <=> (In(t, s) \/ t = e)
         /\ NoDup(s) /\ ~ In(e, s) => NoDup(InsertBefore(s, e, later))
<1> DEFINE I == {i \in 1 .. Len(s) : s[i] \in later}
           m == Min(I)
<1>1. CASE I = {}
  <2>1. InsertBefore(s, e, later) = Append(s, e)
    BY <1>1 DEF InsertBefore
  <2> QED
    BY <2>1, AppendLinks
<1>2. CASE I # {}
  <2>1. InsertBefore(s, e, later) = InsertAt(s, m, e)
    BY <1>2 DEF InsertBefore, SelectInSeq
  <2>2. m \in 1 .. Len(s)
    <3> HIDE DEF m
    <3>1. m \in I
      <4>1. I \in SUBSET Nat
        OBVIOUS
      <4> HIDE DEF I
      <4> QED
        BY <1>2, <4>1, MinOfNats DEF m
    <3> QED
      BY <3>1
  <2> HIDE DEF m
  <2> QED
    BY SMTT(30), <2>1, <2>2, InsertAtLinks
<1> QED
  BY <1>1, <1>2

\* list_delete: the element is gone if it was linked once, the others stay.
LEMMA RemoveFirstUnlinks ==
  ASSUME NEW S, NEW s \in Seq(S), NEW e
  PROVE  /\ RemoveFirst(s, e) \in Seq(S)
         /\ \A t : t # e => (In(t, RemoveFirst(s, e)) <=> In(t, s))
         /\ In(e, RemoveFirst(s, e)) => In(e, s)
         /\ NoDup(s) => /\ NoDup(RemoveFirst(s, e))
                        /\ \A t : In(t, RemoveFirst(s, e)) <=> (In(t, s) /\ t # e)
<1>1. CASE ~ In(e, s)
  BY <1>1, LinkedAt DEF RemoveFirst
<1>2. CASE In(e, s)
  <2> DEFINE I == {i \in 1 .. Len(s) : s[i] = e}
             m == Min(I)
             r == RemoveAt(s, m)
  <2>1. I # {} /\ I \in SUBSET Nat
    BY <1>2, LinkedAt
  <2>2. m \in 1 .. Len(s) /\ s[m] = e
    <3> HIDE DEF m
    <3>1. m \in I
      BY <2>1, MinOfNats DEF m
    <3> QED
      BY <3>1
  <2>3. RemoveFirst(s, e) = r
    BY <1>2, <2>1, LinkedAt DEF RemoveFirst, SelectInSeq
  <2> HIDE DEF m, I
  <2>4. /\ r \in Seq(S) /\ Len(r) = Len(s) - 1
        /\ \A j \in 1 .. Len(s) - 1 : r[j] = IF j < m THEN s[j] ELSE s[j + 1]
    BY <2>2, RemoveAtProperties
  <2> HIDE DEF r
  <2>5. \A j \in 1 .. Len(s) : j # m => IF j < m THEN r[j] = s[j] ELSE r[j - 1] = s[j]
    BY <2>2, <2>4
  <2>6. \A t : t # e => (In(t, r) <=> In(t, s))
    <3>1. SUFFICES ASSUME NEW t, t # e PROVE In(t, r) <=> In(t, s)
      OBVIOUS
    <3>2. ASSUME NEW j \in 1 .. Len(r), r[j] = t PROVE In(t, s)
      <4>1. \E h \in 1 .. Len(s) : s[h] = t
        BY <2>2, <2>4, <3>2
      <4> QED
        BY <4>1, LinkedAt
    <3>3. ASSUME NEW j \in 1 .. Len(s), s[j] = t PROVE In(t, r)
      <4>1. \E h \in 1 .. Len(r) : r[h] = t
        <5>1. CASE j < m
          BY <2>2, <2>4, <2>5, <3>1, <3>3, <5>1
        <5>2. CASE j > m
          <6>1. j - 1 \in 1 .. Len(r) /\ r[j - 1] = t
            BY <2>2, <2>4, <2>5, <3>1, <3>3, <5>2
          <6> QED
            BY <6>1
        <5> QED
          BY <2>2, <3>1, <3>3, <5>1, <5>2
      <4> QED
        BY <2>4, <4>1, LinkedAt
    <3> QED
      BY <2>4, <3>2, <3>3, LinkedAt
  <2>7. NoDup(s) => NoDup(r) /\ ~ In(e, r)
    <3>1. SUFFICES ASSUME \A i, j \in 1 .. Len(s) : s[i] = s[j] => i = j
                   PROVE  NoDup(r) /\ ~ In(e, r)
      BY LinkedAt
    <3> DEFINE at(j) == IF j < m THEN j ELSE j + 1
    <3>2. \A j \in 1 .. Len(r) : at(j) \in 1 .. Len(s) /\ at(j) # m /\ r[j] = s[at(j)]
      BY <2>2, <2>4
    <3>3. \A i, j \in 1 .. Len(r) : at(i) = at(j) => i = j
      BY <2>2, <2>4
    <3> HIDE DEF at
    <3>4. \A i, j \in 1 .. Len(r) : r[i] = r[j] => i = j
      BY <3>1, <3>2, <3>3
    <3>5. \A j \in 1 .. Len(r) : r[j] # e
      BY <2>2, <3>1, <3>2
    <3> QED
      BY <2>4, <3>4, <3>5, LinkedAt
  <2> QED
    BY <1>2, <2>3, <2>4, <2>6, <2>7
<1> QED
  BY <1>1, <1>2

\* A linked element makes the list non-empty, and the head is linked.
LEMMA LinkedNonEmpty ==
  ASSUME NEW S, NEW s \in Seq(S)
  PROVE  /\ \A t : In(t, s) => s # <<>>
         /\ s # <<>> => Head(s) \in S /\ In(Head(s), s)
BY HeadTailProperties DEF In

-----------------------------------------------------------------------------
(* Sorted lists: the block lists by priority, the tick list by the time     *)
(* that is left.                                                            *)

LEMMA SortedAt ==
  ASSUME NEW S, NEW s \in Seq(S), NEW f
  PROVE  Sorted(s, f) <=> \A i, j \in 1 .. Len(s) : i < j => f[s[i]] <= f[s[j]]
BY LenProperties DEF Sorted

\* Only the values of the elements matter.
LEMMA SortedAgree ==
  ASSUME NEW S, NEW s \in Seq(S), NEW f, NEW g,
         \A u \in S : In(u, s) => g[u] = f[u], Sorted(s, f)
  PROVE  Sorted(s, g)
<1>1. \A i \in 1 .. Len(s) : s[i] \in S /\ In(s[i], s)
  BY LinkedAt
<1>2. \A i \in 1 .. Len(s) : g[s[i]] = f[s[i]]
  BY <1>1
<1> QED
  BY <1>2, SortedAt

\* The loop stops at the first element of the set "later", the m-th.
InsertedAt(s, e, later, r, m) ==
  /\ \A i \in 1 .. Len(s) : i < m => s[i] \notin later
  /\ m <= Len(s) => s[m] \in later
  /\ Len(r) = Len(s) + 1
  /\ \A j \in 1 .. Len(s) + 1 : r[j] = IF j < m THEN s[j] ELSE IF j = m THEN e ELSE s[j - 1]

LEMMA InsertBeforeAt ==
  ASSUME NEW S, NEW s \in Seq(S), NEW e \in S, NEW later
  PROVE  \E m \in 1 .. Len(s) + 1 : InsertedAt(s, e, later, InsertBefore(s, e, later), m)
<1> DEFINE I == {i \in 1 .. Len(s) : s[i] \in later}
           m == Min(I)
<1>1. CASE I = {}
  <2>1. InsertBefore(s, e, later) = Append(s, e)
    BY <1>1 DEF InsertBefore
  <2>2. /\ Append(s, e) \in Seq(S) /\ Len(Append(s, e)) = Len(s) + 1
        /\ \A j \in 1 .. Len(s) + 1 :
             Append(s, e)[j] = IF j < Len(s) + 1 THEN s[j] ELSE e
    BY AppendProperties
  <2>3. Len(s) + 1 \in 1 .. Len(s) + 1
    OBVIOUS
  <2>4. InsertedAt(s, e, later, Append(s, e), Len(s) + 1)
    BY <1>1, <2>2 DEF InsertedAt
  <2> QED
    BY <2>1, <2>3, <2>4
<1>2. CASE I # {}
  <2>1. InsertBefore(s, e, later) = InsertAt(s, m, e)
    BY <1>2 DEF InsertBefore, SelectInSeq
  <2>2. I \in SUBSET Nat
    OBVIOUS
  <2>3. m \in I /\ \A i \in I : m <= i
    <3> HIDE DEF I
    <3> QED
      BY <1>2, <2>2, MinOfNats
  <2> HIDE DEF m
  <2>4. m \in 1 .. Len(s) /\ s[m] \in later /\ m \in 1 .. Len(s) + 1
    BY <2>3
  <2>5. \A i \in 1 .. Len(s) : i < m => s[i] \notin later
    BY <2>3, <2>4
  <2> HIDE DEF I
  <2>6. /\ Len(InsertAt(s, m, e)) = Len(s) + 1
        /\ \A j \in 1 .. Len(s) + 1 :
             InsertAt(s, m, e)[j] = IF j < m THEN s[j] ELSE IF j = m THEN e ELSE s[j - 1]
    BY <2>4, InsertAtProperties
  <2>7. InsertedAt(s, e, later, InsertAt(s, m, e), m)
    <3> DEFINE r == InsertAt(s, m, e)
    <3>1. /\ Len(r) = Len(s) + 1
          /\ \A j \in 1 .. Len(s) + 1 :
               r[j] = IF j < m THEN s[j] ELSE IF j = m THEN e ELSE s[j - 1]
      BY <2>6
    <3> HIDE DEF r
    <3>2. InsertedAt(s, e, later, r, m)
      BY <2>4, <2>5, <3>1 DEF InsertedAt
    <3> QED
      BY <3>2 DEF r
  <2> QED
    BY <2>1, <2>4, <2>7
<1> QED
  BY <1>1, <1>2

LEMMA InsertBeforeSorted ==
  ASSUME NEW S, NEW s \in Seq(S), NEW f \in [S -> Int], NEW e \in S, NEW later,
         \A u \in S : In(u, s) => (u \in later <=> f[u] > f[e]), Sorted(s, f)
  PROVE  Sorted(InsertBefore(s, e, later), f)
<1> DEFINE r == InsertBefore(s, e, later)
<1>0. PICK m \in 1 .. Len(s) + 1 : InsertedAt(s, e, later, r, m)
  BY InsertBeforeAt
<1> HIDE DEF r
<1>1. /\ r \in Seq(S) /\ Len(r) = Len(s) + 1
      /\ \A i \in 1 .. Len(s) : i < m => s[i] \notin later
      /\ m <= Len(s) => s[m] \in later
      /\ \A j \in 1 .. Len(s) + 1 :
           r[j] = IF j < m THEN s[j] ELSE IF j = m THEN e ELSE s[j - 1]
  BY <1>0, InsertBeforeLinks DEF InsertedAt, r
<1>2. \A i, j \in 1 .. Len(s) : i < j => f[s[i]] <= f[s[j]]
  BY SortedAt
<1>3. \A i \in 1 .. Len(s) : s[i] \in S /\ In(s[i], s) /\ f[s[i]] \in Int
  BY LinkedAt
<1>4. \A i \in 1 .. Len(s) : i < m => f[s[i]] <= f[e]
  <2> TAKE i \in 1 .. Len(s)
  <2> HAVE i < m
  <2>1. ~ (f[s[i]] > f[e]) /\ f[e] \in Int
    BY <1>1, <1>3
  <2> QED
    BY <1>3, <2>1
<1>5. \A i \in 1 .. Len(s) : i >= m => f[e] <= f[s[i]]
  <2> TAKE i \in 1 .. Len(s)
  <2> HAVE i >= m
  <2>1. m \in 1 .. Len(s) /\ f[s[m]] > f[e]
    BY <1>1, <1>3
  <2>2. m = i \/ f[s[m]] <= f[s[i]]
    BY <1>2, <2>1
  <2> QED
    BY <1>3, <2>1, <2>2
<1>6. ASSUME NEW i \in 1 .. Len(r), NEW j \in 1 .. Len(r), i < j
      PROVE  f[r[i]] <= f[r[j]]
  <2>1. CASE j < m
    <3>1. i \in 1 .. Len(s) /\ j \in 1 .. Len(s) /\ r[i] = s[i] /\ r[j] = s[j]
      BY SMTT(30), <1>1, <1>6, <2>1
    <3> QED
      BY <1>2, <1>6, <3>1
  <2>2. CASE j = m
    <3>1. i \in 1 .. Len(s) /\ i < m /\ r[i] = s[i] /\ r[j] = e
      BY <1>1, <1>6, <2>2
    <3> QED
      BY <1>4, <3>1
  <2>3. CASE j > m
    <3> DEFINE n == Len(s)
    <3>0. n \in Nat /\ j \in 1 .. n + 1 /\ m \in 1 .. n + 1
      BY <1>1
    <3> HIDE DEF n
    <3>a. j - 1 \in 1 .. n
      BY <2>3, <3>0
    <3>b. r[j] = IF j < m THEN s[j] ELSE IF j = m THEN e ELSE s[j - 1]
      BY <1>1
    <3>c. ~ (j < m) /\ j # m
      BY <2>3, <3>0
    <3>1. j - 1 \in 1 .. Len(s) /\ r[j] = s[j - 1]
      BY <3>a, <3>b, <3>c DEF n
    <3>2. CASE i < m
      <4>1. i \in 1 .. Len(s) /\ r[i] = s[i] /\ i < j - 1
        BY <1>1, <1>6, <2>3, <3>2
      <4> QED
        BY <1>2, <3>1, <4>1
    <3>3. CASE i = m
      <4>1. r[i] = e /\ j - 1 >= m
        BY <1>1, <2>3, <3>3
      <4> QED
        BY <1>5, <3>1, <4>1
    <3>4. CASE i > m
      <4>1. i - 1 \in 1 .. Len(s) /\ r[i] = s[i - 1] /\ i - 1 < j - 1
        BY <1>1, <1>6, <3>4
      <4> QED
        BY <1>2, <3>1, <4>1
    <3> QED
      BY <3>2, <3>3, <3>4
  <2> QED
    BY <1>1, <2>1, <2>2, <2>3
<1> QED
  BY <1>1, <1>6, SortedAt DEF r

LEMMA AppendSorted ==
  ASSUME NEW S, NEW s \in Seq(S), NEW e \in S, NEW f, Sorted(s, f),
         \A u \in S : In(u, s) => f[u] <= f[e]
  PROVE  Sorted(Append(s, e), f)
<1>1. /\ Append(s, e) \in Seq(S) /\ Len(Append(s, e)) = Len(s) + 1
      /\ \A i \in 1 .. Len(s) + 1 : Append(s, e)[i] = IF i = Len(s) + 1 THEN e ELSE s[i]
  BY AppendProperties
<1>2. \A i \in 1 .. Len(s) : f[s[i]] <= f[e]
  BY LinkedAt
<1>3. \A i, j \in 1 .. Len(s) : i < j => f[s[i]] <= f[s[j]]
  BY SortedAt
<1> DEFINE r == Append(s, e)
<1> HIDE DEF r
<1>4. ASSUME NEW i \in 1 .. Len(r), NEW j \in 1 .. Len(r), i < j
      PROVE  f[r[i]] <= f[r[j]]
  <2>1. i \in 1 .. Len(s) /\ r[i] = s[i]
    BY <1>1, <1>4 DEF r
  <2>2. CASE j = Len(s) + 1
    BY <1>1, <1>2, <2>1, <2>2 DEF r
  <2>3. CASE j # Len(s) + 1
    <3>1. j \in 1 .. Len(s) /\ r[j] = s[j]
      BY <1>1, <2>3 DEF r
    <3> QED
      BY <1>3, <1>4, <2>1, <3>1
  <2> QED
    BY <2>2, <2>3
<1> QED
  BY <1>1, <1>4, SortedAt DEF r

LEMMA RemoveFirstSorted ==
  ASSUME NEW S, NEW s \in Seq(S), NEW e, NEW f, Sorted(s, f)
  PROVE  Sorted(RemoveFirst(s, e), f)
<1>1. CASE ~ In(e, s)
  BY <1>1, LinkedAt DEF RemoveFirst
<1>2. CASE In(e, s)
  <2> DEFINE I == {i \in 1 .. Len(s) : s[i] = e}
             m == Min(I)
             r == RemoveAt(s, m)
  <2>1. I # {} /\ I \in SUBSET Nat
    BY <1>2, LinkedAt
  <2>2. m \in 1 .. Len(s)
    <3> HIDE DEF m
    <3>1. m \in I
      BY <2>1, MinOfNats DEF m
    <3> QED
      BY <3>1
  <2>3. RemoveFirst(s, e) = r
    BY <1>2, <2>1, LinkedAt DEF RemoveFirst, SelectInSeq
  <2> HIDE DEF m, I
  <2>4. /\ r \in Seq(S) /\ Len(r) = Len(s) - 1
        /\ \A j \in 1 .. Len(s) - 1 : r[j] = IF j < m THEN s[j] ELSE s[j + 1]
    BY <2>2, RemoveAtProperties
  <2> HIDE DEF r
  <2> DEFINE at(j) == IF j < m THEN j ELSE j + 1
  <2>5. \A j \in 1 .. Len(r) : at(j) \in 1 .. Len(s) /\ r[j] = s[at(j)]
    <3> TAKE j \in 1 .. Len(r)
    <3>1. j \in 1 .. Len(s) - 1 /\ j + 1 \in 1 .. Len(s) /\ j \in 1 .. Len(s)
      BY <2>4
    <3> QED
      BY <2>4, <3>1
  <2>6. \A i, j \in 1 .. Len(r) : i < j => at(i) < at(j)
    BY <2>2, <2>4
  <2> HIDE DEF at
  <2>7. \A i, j \in 1 .. Len(s) : i < j => f[s[i]] <= f[s[j]]
    BY SortedAt
  <2> QED
    BY <2>3, <2>4, <2>5, <2>6, <2>7, SortedAt
<1> QED
  BY <1>1, <1>2

-----------------------------------------------------------------------------
(* Counters modulo n: ticks, rings.                                         *)

LEMMA ModFacts ==
  ASSUME NEW n \in Nat \ {0}, NEW x \in Int
  PROVE  /\ x % n \in 0 .. n - 1
         /\ x \in 0 .. n - 1 => x % n = x
         /\ x \in n .. 2 * n - 1 => x % n = x - n
         /\ x \in -n .. -1 => x % n = x + n
OBVIOUS

\* x and y are the same number modulo n.
Cong(n, x, y) == \E q \in Int : x = y + n * q

LEMMA CongMod ==
  ASSUME NEW n \in Nat \ {0}, NEW x \in Int
  PROVE  x % n \in 0 .. n - 1 /\ Cong(n, x % n, x)
<1>1. x % n \in 0 .. n - 1 /\ x \div n \in Int /\ x = n * (x \div n) + (x % n)
  OBVIOUS
<1>2. - (x \div n) \in Int /\ x % n = x + n * (- (x \div n))
  BY <1>1
<1>. QED
  BY <1>1, <1>2 DEF Cong

LEMMA CongTrans ==
  ASSUME NEW n \in Nat, NEW x \in Int, NEW y \in Int, NEW z \in Int, Cong(n, x, y), Cong(n, y, z)
  PROVE  Cong(n, x, z)
<1>1. PICK p \in Int : x = y + n * p
  BY DEF Cong
<1>2. PICK q \in Int : y = z + n * q
  BY DEF Cong
<1>3. p + q \in Int /\ x = z + n * (p + q)
  BY <1>1, <1>2
<1>. QED
  BY <1>3 DEF Cong

LEMMA CongSym ==
  ASSUME NEW n \in Nat, NEW x \in Int, NEW y \in Int, Cong(n, x, y)
  PROVE  Cong(n, y, x)
<1>1. PICK p \in Int : x = y + n * p
  BY DEF Cong
<1>2. - p \in Int /\ y = x + n * (- p)
  BY <1>1
<1>. QED
  BY <1>2 DEF Cong

LEMMA CongShift ==
  ASSUME NEW n \in Nat, NEW x \in Int, NEW y \in Int, Cong(n, x, y),
         NEW a \in Int, NEW b \in Int, a - x = b - y \/ a + x = b + y
  PROVE  Cong(n, a, b)
<1>1. PICK p \in Int : x = y + n * p
  BY DEF Cong
<1>2. - p \in Int /\ (a = b + n * p \/ a = b + n * (- p))
  BY <1>1
<1>. QED
  BY <1>1, <1>2 DEF Cong

\* The same number modulo n, and both within n of one another, are one.
LEMMA CongNear ==
  ASSUME NEW n \in Nat \ {0}, NEW x \in Int, NEW y \in Int, Cong(n, x, y),
         x - y < n, y - x < n
  PROVE  x = y
<1>1. PICK q \in Int : x = y + n * q
  BY DEF Cong
<1>2. CASE q >= 1
  <2>1. n * q >= n
    BY <1>2
  <2>. QED
    BY <1>1, <2>1
<1>3. CASE q <= -1
  <2>1. n * q <= - n
    BY <1>3
  <2>. QED
    BY <1>1, <2>1
<1>4. CASE q = 0
  BY <1>1, <1>4
<1>. QED
  BY <1>2, <1>3, <1>4

LEMMA ModIs ==
  ASSUME NEW n \in Nat \ {0}, NEW x \in Int, NEW y \in 0 .. n - 1, Cong(n, x, y)
  PROVE  x % n = y
<1>1. x % n \in 0 .. n - 1 /\ Cong(n, x % n, x)
  BY CongMod
<1> DEFINE z == x % n
<1> HIDE DEF z
<1>2. z \in Int /\ z \in 0 .. n - 1 /\ y \in Int /\ Cong(n, z, x)
  BY <1>1 DEF z
<1>3. Cong(n, z, y)
  BY <1>2, CongTrans
<1>4. z - y < n /\ y - z < n
  BY <1>2
<1>5. z = y
  BY <1>2, <1>3, <1>4, CongNear
<1>. QED
  BY <1>5 DEF z

LEMMA CongSameMod ==
  ASSUME NEW n \in Nat \ {0}, NEW x \in Int, NEW y \in Int, Cong(n, x, y)
  PROVE  x % n = y % n
<1> DEFINE z == y % n
<1>1. z \in 0 .. n - 1 /\ Cong(n, z, y) /\ z \in Int
  BY CongMod
<1> HIDE DEF z
<1>2. Cong(n, x, z)
  <2>1. Cong(n, y, z)
    BY <1>1, CongSym
  <2>. QED
    BY <1>1, <2>1, CongTrans
<1>3. x % n = z
  BY <1>1, <1>2, ModIs
<1>. QED
  BY <1>3 DEF z
=============================================================================
