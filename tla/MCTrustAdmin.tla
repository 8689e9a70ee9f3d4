--------------------------- MODULE MCTrustAdmin ---------------------------
(***************************************************************************)
(* Small instances of TrustAdmin: one screen, that the config may not list *)
(* yet, two connections of it and two certificates.                        *)
(***************************************************************************)
EXTENDS TrustAdmin, TLC

CONSTANTS a, a1, a2, c1, c2, f1, f2

TwoSlotsOf == a1 :> a @@ a2 :> a
=============================================================================
