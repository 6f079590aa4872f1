--------------------------- MODULE MCRawTickTask ---------------------------
(* The tick task between a more urgent task and a less urgent one.           *)
EXTENDS RawTickTask

CONSTANTS idle, tick, t1, t2, s1

MCTask == {idle, tick, t1, t2}
MCInitPrio == (idle :> 2) @@ (tick :> 1) @@ (t1 :> 0) @@ (t2 :> 2)
LiveInitPrio == (idle :> 2) @@ (tick :> 1) @@ (t1 :> 2) @@ (t2 :> 2)
MCInitSlice == [t \in Task |-> 1]
MCPolicy == [m \in {} |-> "none"]
MCCeiling == [m \in {} |-> 0]
=============================================================================
