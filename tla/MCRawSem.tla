------------------------------ MODULE MCRawSem ------------------------------
(* Three tasks and one semaphore; one task may be suspended, aborted, deleted *)
(* and change its priority while it waits.                                    *)
EXTENDS RawSem

CONSTANTS idle, t1, t2, t3, s1

MCTask == {idle, t1, t2, t3}
MCInitPrio == (idle :> 1) @@ (t1 :> 1) @@ (t2 :> 0) @@ (t3 :> 1)
MCInitSlice == [t \in Task |-> 1]
MCPolicy == [m \in {} |-> "none"]
MCCeiling == [m \in {} |-> 0]
MCNewPrio == {<<t3, 0>>}
=============================================================================
