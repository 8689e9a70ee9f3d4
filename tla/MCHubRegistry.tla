--------------------------- MODULE MCHubRegistry ---------------------------
(***************************************************************************)
(* Small instances of HubRegistry: one screen with two connection slots,   *)
(* so that a connection and the one that follows it overlap, or with one.  *)
(***************************************************************************)
EXTENDS HubRegistry, TLC

CONSTANTS a, a1, a2, m1, m2

TwoSlotsOf == a1 :> a @@ a2 :> a
OneSlotOf == a1 :> a
=============================================================================
