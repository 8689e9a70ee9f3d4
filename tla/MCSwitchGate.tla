---------------------------- MODULE MCSwitchGate ----------------------------
(* Instances of SwitchGate for TLC. *)
EXTENDS SwitchGate

CONSTANTS left, top

\* No gate, the dwell, the double tap, both; and the dwell near a corner only.
EveryGate ==
  [delay : {0, 2}, tap : {0, 1}, corner : {FALSE}] \cup [delay : {2}, tap : {0}, corner : {TRUE}]
TapOnly == [delay : {0}, tap : {1}, corner : {FALSE}]
=============================================================================
