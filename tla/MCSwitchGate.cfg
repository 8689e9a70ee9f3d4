\* Two edges, every gate: when the cursor goes over, and that it does.
SPECIFICATION GateFairSpec
CONSTANTS
  Edges = {left, top}
  left = left
  top = top
  NoEdge = NoEdge
  Off = Off
  Policies <- EveryGate
  MaxAge = 2
  MaxSamples = 1
  MaxCmds = 2
PROPERTIES
  SwitchNeedsRest
  NoBounce
  RestIsRewarded
