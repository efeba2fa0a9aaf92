SPECIFICATION Spec
CONSTANTS
  Channels = {c1}
  Revisions = {}
  NoRev = NoRev
  Profiles = {p1, p2}
  Sources <- MCKinds
  Clients = {v1}
  Admins = {a1}
  Sessions = {s1, s2}
  None = None
  MaxEpoch = 3
  MaxBudget = 2
SYMMETRY MCSymmetry
INVARIANTS
  TypeOK
  StickyIsNewestFailure
  NoLeakedSession
  RefusedHasNoSession
  JoinableRunsProfile
PROPERTY
  EvictsOnlyDeadSessions
