------------------------------ MODULE MCRawExt ------------------------------
(* Small instances of all parts, of which each behaviour uses one.  The       *)
(* state machine has three states below hsm_top, two deep and three deep, and *)
(* initial transitions that skip a level.                                     *)
EXTENDS RawExt

CONSTANTS p1, p2, p3, t1, t2, u1, u2, o1, o2, c1, e1, v1, w1, w2, q1, q2, d1, d2, d3

MCStmState == {"s1", "s11", "s111", "s12", "s121", "s2", "s21", "s211"}
MCFather ==
  [s \in MCStmState |-> CASE s \in {"s1", "s2"} -> "top"
                          [] s \in {"s11", "s12"} -> "s1"
                          [] s = "s111" -> "s11" [] s = "s121" -> "s12"
                          [] s = "s21" -> "s2"   [] s = "s211" -> "s21"]
MCInitTran ==
  [s \in MCStmState |-> CASE s = "s1" -> "s11" [] s = "s12" -> "s121" [] s = "s2" -> "s211"
                          [] OTHER -> NoState]
=============================================================================
