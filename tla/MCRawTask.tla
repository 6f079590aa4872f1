----------------------------- MODULE MCRawTask -----------------------------
(* Three tasks, two of one priority, and no blocking objects: ready lists,  *)
(* tick list, suspension, deletion, scheduler lock, nested interrupts.      *)
EXTENDS RawTask

CONSTANTS idle, t1, t2, t3

MCTask == {idle, t1, t2, t3}
MCInitPrio == (idle :> 1) @@ (t1 :> 1) @@ (t2 :> 1) @@ (t3 :> 0)
MCInitSlice == [t \in Task |-> 2]
MCNewSlice == {<<t1, 1>>}
MCPolicy == [m \in {} |-> "none"]
MCCeiling == [m \in {} |-> 0]
MCNewPrio == {<<t1, 0>>, <<t1, 1>>}

\* For liveness: two tasks, the less urgent one without a fixed slice.
FewTasks == {idle, t1, t2}
FewInitPrio == (idle :> 1) @@ (t1 :> 1) @@ (t2 :> 0)
=============================================================================
