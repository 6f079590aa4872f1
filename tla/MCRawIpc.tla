------------------------------ MODULE MCRawIpc ------------------------------
(* Two tasks, one of which may be deleted, and interrupts; one event, one     *)
(* ring, one queue of nodes and one of bytes, with messages of one byte, which *)
(* take two headers of room with the header, and of three.                   *)
EXTENDS RawIpc

CONSTANTS idle, t1, t2, e1, q1, z1, y1, f1, f2, a, b

MCTask == {idle, t1, t2}
MCInitPrio == (idle :> 1) @@ (t1 :> 1) @@ (t2 :> 0)
MCInitSlice == [t \in Task |-> 1]
MCPolicy == [m \in {} |-> "none"]
MCCeiling == [m \in {} |-> 0]
MCQSize == (q1 :> 2) @@ (z1 :> 3)
MCUses == {{e1}, {q1}, {z1}, {y1}}
MCBufSize == (y1 :> 8)
MCRequest ==
  { [want |-> {f1, f2}, all |-> TRUE, clear |-> TRUE],
    [want |-> {f1, f2}, all |-> FALSE, clear |-> FALSE],
    [want |-> {f1}, all |-> FALSE, clear |-> TRUE] }
MCSetFlags == {{f1}, {f2}}
MCKeepFlags == {{f1}}
MCInitFlags == {{}}

\* The kernel does not look at the messages.
MCSymmetry == Permutations(Msg)
=============================================================================
