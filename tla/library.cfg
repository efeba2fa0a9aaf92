CONSTANTS
  Channels = {c1, c2}
  Proxies = {p1}
  Servers = {s1, s2}
  Links = {l1}
  Policies = {"fixed", "failover"}
  MaxUpstreams = 2
  MaxServers = 2
  MaxCommits = 1
  None = None
SYMMETRY Symmetry
SPECIFICATION Spec
INVARIANTS
  TypeOK
  PrimaryCurrent
  NoDangling
  QuietBackupRoundTrips
