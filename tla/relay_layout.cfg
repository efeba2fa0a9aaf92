SPECIFICATION Spec
CONSTANTS
  Channels = {c1, c2, c3}
  Threads = {t1, t2}
  SortOrders = {0}
  Titles = {a, b}
  None = None
  MaxRelays = 2
  MaxGroups = 2
  MaxMembers = 3
  MaxEntries = 2
SYMMETRY MCSymmetry
INVARIANTS
  TypeOK
  MembersInOwnGroups
  NumbersFollowLineup
