CONSTANTS
  Channels = {c1, c2}
  Upstreams = {u1, u2}
  Handlers = {h1, h2}
  Viewers = {v1, v2}
  MaxRev = 3
  None = None
SYMMETRY Symmetry
SPECIFICATION Spec
INVARIANTS
  TypeOK
  QuietServesCurrent
PROPERTIES
  JoinsItsSource
