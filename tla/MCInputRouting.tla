--------------------------- MODULE MCInputRouting ---------------------------
(***************************************************************************)
(* Small instances of InputRouting: two screens with one connection slot   *)
(* each, or one screen with one or two slots.                              *)
(***************************************************************************)
EXTENDS InputRouting, TLC

CONSTANTS a, b, a1, a2, b1, m1

OneEach == a1 :> a @@ b1 :> b
TwoOfA == a1 :> a @@ a2 :> a
OneOfA == a1 :> a

\* Swapping the two slots of one screen maps behaviours to behaviours and changes no
\* invariant.
SwapSlots == Permutations({a1, a2})
=============================================================================
