SPECIFICATION Spec
CONSTANTS
  Sources = {s1}
  URLs = {u1, u2}
  Relays = {r1}
  Slugs = {a}
  Handlers = {h1}
  None = None
  Gone = Gone
  MaxRequests = 2
SYMMETRY MCSymmetry
INVARIANT
  RefreshedIsPublished
CHECK_DEADLOCK FALSE
