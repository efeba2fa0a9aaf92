SPECIFICATION FairSpec
CONSTANTS
  Sources = {s1}
  URLs = {u1}
  Relays = {r1}
  Slugs = {a}
  Handlers = {h1}
  None = None
  Gone = Gone
  MaxRequests = 2
PROPERTY
  QueuesDrain
CHECK_DEADLOCK FALSE
