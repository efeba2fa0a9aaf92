SPECIFICATION Spec
CONSTANTS
  Sources = {s1}
  URLs = {u1, u2}
  Relays = {r1, r2}
  Slugs = {a, b}
  Handlers = {h1, h2}
  None = None
  Gone = Gone
  MaxRequests = 2
SYMMETRY MCSymmetry
INVARIANTS
  TypeOK
  RelayCacheCurrent
  StaleGenerationPurged
  NoLostWakeup
  NoOrphanCache
CHECK_DEADLOCK FALSE
