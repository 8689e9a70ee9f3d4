--------------------------- MODULE MCKeyForwarding ---------------------------
(* Instances of KeyForwarding for TLC: one modifier, shared by the chord and *)
(* the one rule, with a key on one side or on both.                          *)
EXTENDS KeyForwarding

CONSTANTS ml, mr, x, h, mod, act

OneSided == [m \in {mod} |-> {ml}]
TwoSided == [m \in {mod} |-> {ml, mr}]
OneRule == {[mods |-> {mod}, key |-> x, action |-> act]}
=============================================================================
