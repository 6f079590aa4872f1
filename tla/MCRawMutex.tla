----------------------------- MODULE MCRawMutex -----------------------------
(* Three tasks and two mutexes, enough for a chain of owners that wait and   *)
(* for two tasks that wait for each other.                                   *)
EXTENDS RawMutex

CONSTANTS idle, t1, t2, t3, m1, m2

MCTask == {idle, t1, t2, t3}
MCInitPrio == (idle :> 2) @@ (t1 :> 2) @@ (t2 :> 1) @@ (t3 :> 0)
MCInitSlice == [t \in Task |-> 1]
MCPolicy == (m1 :> "inherit") @@ (m2 :> "inherit")
MCCeiling == (m1 :> 0) @@ (m2 :> 0)
MCNewPrio == {<<t3, 0>>, <<t3, 2>>}

\* The second instance: a ceiling mutex next to one with inheritance.
CePolicy == (m1 :> "ceiling") @@ (m2 :> "inherit")
CeCeiling == (m1 :> 1) @@ (m2 :> 0)
CeNewPrio == {<<t2, 0>>, <<t2, 2>>, <<t3, 2>>}
=============================================================================
