------------------------------ MODULE RawList ------------------------------
(***************************************************************************)
(* raw_list.h: the circular doubly linked LIST of the kernel.  A list is   *)
(* the sequence of its nodes, from list->next on; a node is on a list when *)
(* it is linked.  is_list_empty(list) is s = <<>>, list_insert(list, node)  *)
(* before the head of the list is Append, list_delete(node) RemoveFirst.   *)
(***************************************************************************)
EXTENDS Integers, SequencesExt

In(t, s) == \E i \in DOMAIN s : s[i] = t
NoDup(s) == \A i, j \in DOMAIN s : s[i] = s[j] => i = j

\* The elements are in the order of a value f of theirs.
Sorted(s, f) == \A i, j \in DOMAIN s : i < j => f[s[i]] <= f[s[j]]

\* The loops of add_to_priority_list and tick_list_insert: before the first
\* node of a set, or at the end.
InsertBefore(s, e, later) ==
  IF \E i \in 1 .. Len(s) : s[i] \in later
  THEN InsertAt(s, SelectInSeq(s, LAMBDA u : u \in later), e)
  ELSE Append(s, e)
=============================================================================
