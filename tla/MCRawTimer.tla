----------------------------- MODULE MCRawTimer -----------------------------
(* Three timers, of which one task uses two, or one timer that two tasks use. *)
EXTENDS RawTimer, TLC

CONSTANTS c1, c2, a, b, d

MCUses == (c1 :> {a, b}) @@ (c2 :> {d})
MCParams == (a :> {<<1, 0>>, <<1, 2>>}) @@ (b :> {<<2, 2>>}) @@ (d :> {<<2, 0>>})

MCShared == (c1 :> {a}) @@ (c2 :> {a})
MCSharedParams == a :> {<<1, 2>>}
=============================================================================
