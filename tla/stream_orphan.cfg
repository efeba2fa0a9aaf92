SPECIFICATION Spec
CONSTANTS
  Channels = {c1}
  Revisions = {}
  NoRev = NoRev
  Profiles = {p1}
  Sources <- MCKinds
  Clients = {v1, v2}
  Admins = {a1}
  Sessions = {s1}
  None = None
  MaxEpoch = 2
  MaxBudget = 2
INVARIANT ReaderServedOrDropped
