\* The double tap alone: a cursor that touches the edge once goes over.
SPECIFICATION GateFairSpec
CONSTANTS
  Edges = {left, top}
  left = left
  top = top
  NoEdge = NoEdge
  Off = Off
  Policies <- TapOnly
  MaxAge = 2
  MaxSamples = 1
  MaxCmds = 2
PROPERTIES
  TwoTouches
