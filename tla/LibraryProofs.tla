--------------------------- MODULE LibraryProofs ---------------------------
(***************************************************************************)
(* Proofs about Library, for any number of channels, proxies, servers and  *)
(* links: LibraryInv is inductive, and the safety properties follow.       *)
(***************************************************************************)
EXTENDS Library, SequenceTheorems, TLAPS

(***************************************************************************)
(* Lists of upstreams and of servers.                                      *)
(***************************************************************************)

\* A list is a sequence without repetition and has a first element.
LEMMA ListFacts ==
  ASSUME NEW S, NEW n \in Nat, NEW s \in Lists(S, n)
  PROVE  /\ s \in Seq(S)
         /\ Len(s) \in 1..n
         /\ DOMAIN s = 1..Len(s)
         /\ 1 \in DOMAIN s
         /\ s[1] \in Range(s)
         /\ Range(s) \subseteq S
         /\ IsInjective(s)
<1>1. PICK k \in 1..n : s \in [1..k -> S] /\ IsInjective(s)
  BY DEF Lists
<1>2. s \in Seq(S) /\ Len(s) = k /\ DOMAIN s = 1..k
  BY <1>1
<1> QED
  BY <1>1, <1>2 DEF Range

\* What makes a sequence a list.
LEMMA IsAList ==
  ASSUME NEW S, NEW n \in Nat, NEW k \in 1..n, NEW s \in [1..k -> S], IsInjective(s)
  PROVE  s \in Lists(S, n)
BY DEF Lists

LEMMA SingletonList ==
  ASSUME NEW S, NEW n \in Nat \ {0}, NEW x \in S
  PROVE  <<x>> \in Lists(S, n) /\ Range(<<x>>) = {x}
<1>1. <<x>> \in [1..1 -> S] /\ IsInjective(<<x>>)
  BY DEF IsInjective
<1>2. Range(<<x>>) = {x}
  BY DEF Range
<1>3. 1 \in 1..n
  OBVIOUS
<1>4. <<x>> \in Lists(S, n)
  BY <1>1, <1>3, IsAList
<1> QED
  BY <1>2, <1>4

\* An element at the end that was not there before.
LEMMA AppendList ==
  ASSUME NEW S, NEW n \in Nat, NEW s \in Lists(S, n), Len(s) < n,
         NEW x \in S, x \notin Range(s)
  PROVE  /\ Append(s, x) \in Lists(S, n)
         /\ Range(Append(s, x)) = Range(s) \cup {x}
         /\ Append(s, x)[1] = s[1]
<1> DEFINE a == Append(s, x)
           k == Len(s)
<1>1. s \in Seq(S) /\ k \in 1..n /\ DOMAIN s = 1..k /\ IsInjective(s)
  BY ListFacts
<1>2. /\ a \in [1..k + 1 -> S]
      /\ \A i \in 1..k : a[i] = s[i]
      /\ a[k + 1] = x
  <2>1. /\ a \in Seq(S)
        /\ Len(a) = k + 1
        /\ \A i \in 1..k : a[i] = s[i]
        /\ a[k + 1] = x
    BY <1>1, AppendProperties
  <2>2. a \in [1..Len(a) -> S]
    BY <2>1, LenProperties
  <2> QED
    BY <2>1, <2>2
<1> HIDE DEF a
<1>3. IsInjective(a)
  <2> SUFFICES ASSUME NEW i \in 1..k + 1, NEW j \in 1..k + 1, a[i] = a[j]
               PROVE  i = j
    BY <1>2 DEF IsInjective
  <2>1. CASE i \in 1..k /\ j \in 1..k
    BY <2>1, <1>1, <1>2 DEF IsInjective
  <2>2. CASE i = k + 1 /\ j \in 1..k
    BY <2>2, <1>1, <1>2 DEF Range
  <2>3. CASE j = k + 1 /\ i \in 1..k
    BY <2>3, <1>1, <1>2 DEF Range
  <2>4. i \in 1..k \/ i = k + 1
    BY <1>1
  <2>5. j \in 1..k \/ j = k + 1
    BY <1>1
  <2> QED
    BY <2>1, <2>2, <2>3, <2>4, <2>5
<1>4. a \in Lists(S, n)
  BY <1>1, <1>2, <1>3, IsAList
<1>5. Range(a) = Range(s) \cup {x}
  BY <1>1, <1>2 DEF Range
<1> QED
  BY <1>1, <1>2, <1>4, <1>5 DEF a

(***************************************************************************)
(* Resolution.                                                             *)
(***************************************************************************)

\* An upstream whose proxy exists resolves to a URL.
LEMMA ResolvesToURL ==
  ASSUME NEW px \in ProxyTables, NEW u \in Upstreams,
         u.proxy # None => px[u.proxy] # None
  PROVE  StablePrimary(px, u) \in Servers \X Links
<1>1. CASE u.proxy = None
  BY <1>1, NoneAssumption DEF Upstreams, StablePrimary
<1>2. CASE u.proxy # None
  <2>1. u.proxy \in Proxies /\ u.url \in Links
    BY <1>2 DEF Upstreams
  <2>2. px[u.proxy] \in ProxyRows
    BY <1>2, <2>1 DEF ProxyTables
  <2>3. PICK s \in Lists(Servers, MaxServers) :
          px[u.proxy] \in [policy : Policies, servers : {s}, fixed : Range(s)]
    BY <2>2 DEF ProxyRows
  <2>4. s[1] \in Servers /\ Range(s) \subseteq Servers
    BY ListFacts, BoundsAssumption
  <2> QED
    BY <1>2, <2>1, <2>3, <2>4 DEF StablePrimary
<1> QED
  BY <1>1, <1>2

\* A saved channel has the type of a row, keeps its upstreams, has its fixed
\* upstream among them and the URL of its primary one.
LEMMA ChannelRowFacts ==
  ASSUME NEW px \in ProxyTables, NEW pol \in Policies, NEW ups \in UpstreamLists,
         Known(px, ups), NEW fixed
  PROVE  LET row == ChannelRow(px, pol, ups, fixed) IN
         /\ row \in ChannelRows
         /\ row.ups = ups
         /\ row.fixed \in Range(row.ups)
         /\ row.url = StablePrimary(px, PrimaryUpstream(row))
<1> DEFINE f == IF fixed \in Range(ups) THEN fixed ELSE ups[1]
           primary == IF pol = "fixed" THEN f ELSE ups[1]
           row == ChannelRow(px, pol, ups, fixed)
<1>1. ups[1] \in Range(ups) /\ Range(ups) \subseteq Upstreams
  BY ListFacts, BoundsAssumption DEF UpstreamLists
<1>2. f \in Range(ups) /\ primary \in Range(ups)
  BY <1>1
<1>3. row = [policy |-> pol, ups |-> ups, fixed |-> f, url |-> StablePrimary(px, primary)]
  BY DEF ChannelRow, PrimaryUpstream
<1>4. StablePrimary(px, primary) \in Servers \X Links
  BY <1>1, <1>2, ResolvesToURL DEF Known
<1>5. PrimaryUpstream(row) = primary
  BY <1>3 DEF PrimaryUpstream
<1> HIDE DEF f, primary
<1>6. row \in ChannelRows
  BY <1>1, <1>2, <1>3, <1>4 DEF ChannelRows
<1>7. row.ups = ups /\ row.fixed = f /\ row.url = StablePrimary(px, primary)
  BY <1>3
<1> QED
  BY <1>2, <1>5, <1>6, <1>7

\* Saving a current row again gives the same row.
LEMMA SameChannelRow ==
  ASSUME NEW px, NEW row \in ChannelRows, row.fixed \in Range(row.ups),
         row.url = StablePrimary(px, PrimaryUpstream(row))
  PROVE  ChannelRow(px, row.policy, row.ups, row.fixed) = row
<1>1. row = [policy |-> row.policy, ups |-> row.ups, fixed |-> row.fixed, url |-> row.url]
  BY DEF ChannelRows
<1>2. PrimaryUpstream([policy |-> row.policy, ups |-> row.ups, fixed |-> row.fixed])
        = PrimaryUpstream(row)
  BY DEF PrimaryUpstream
<1> QED
  BY <1>1, <1>2 DEF ChannelRow

LEMMA ConflictsSymmetric ==
  ASSUME NEW r, NEW q, Conflicts(r, q) PROVE Conflicts(q, r)
BY DEF Conflicts

(***************************************************************************)
(* Steps.                                                                  *)
(***************************************************************************)
CoreInv == TablesInv /\ PrimaryCurrent /\ NoDangling /\ UniqueInv

\* A change counted while a backup is outstanding leaves nothing to say about
\* the tables it was read from.
LEMMA CommitsBackup ==
  ASSUME BackupInv, Commits PROVE BackupInv'
<1>1. CASE ~Outstanding
  BY <1>1 DEF BackupInv, Commits, Outstanding, Backups
<1>2. CASE Outstanding
  <2>1. backup' = [backup EXCEPT !.commits = backup.commits + 1]
    BY <1>2 DEF Commits
  <2>2. CASE backup \in [pc : {"proxies"}, proxies : ProxyTables, commits : Nat]
    <3>1. /\ backup' \in [pc : {"proxies"}, proxies : ProxyTables, commits : Nat]
          /\ backup'.commits # 0
      BY <2>1, <2>2
    <3> QED
      BY <3>1 DEF BackupInv, Backups
  <2>3. CASE backup \in [pc : {"channels"}, proxies : ProxyTables, channels : ChannelTables,
                         commits : Nat]
    <3>1. /\ backup' \in [pc : {"channels"}, proxies : ProxyTables, channels : ChannelTables,
                          commits : Nat]
          /\ backup'.commits # 0
      BY <2>1, <2>3
    <3> QED
      BY <3>1 DEF BackupInv, Backups
  <2>4. CASE backup \in [pc : {"done"}, proxies : ProxyTables, channels : ChannelTables,
                         members : SUBSET Channels, commits : Nat]
    <3>1. /\ backup' \in [pc : {"done"}, proxies : ProxyTables, channels : ChannelTables,
                          members : SUBSET Channels, commits : Nat]
          /\ backup'.commits # 0
      BY <2>1, <2>4
    <3> QED
      BY <3>1 DEF BackupInv, Backups
  <2> QED
    BY <1>2, <2>2, <2>3, <2>4 DEF BackupInv, Backups, Outstanding, NoBackup
<1> QED
  BY <1>1, <1>2

LEMMA SameLibrary ==
  ASSUME LibraryInv, UNCHANGED library, deleting' \subseteq Proxies \cup Channels
  PROVE  CoreInv'
BY DEF CoreInv, LibraryInv, library, TablesInv, PrimaryCurrent, NoDangling, UniqueInv, Known

\* A row that passes validation and the unique indexes can be stored.
LEMMA SaveInv ==
  ASSUME LibraryInv, NEW c \in Channels, NEW row \in ChannelRows,
         row.fixed \in Range(row.ups),
         row.url = StablePrimary(proxies, PrimaryUpstream(row)),
         Save(c, row)
  PROVE  CoreInv'
<1> USE DEF LibraryInv, Save
<1>1. /\ \A d \in Channels : channels'[d] = IF d = c THEN row ELSE channels[d]
      /\ channels' \in [Channels -> ChannelRows \cup {None}]
      /\ UNCHANGED <<proxies, members, deleting>>
  BY DEF TablesInv, ChannelTables
<1>2. row # None
  BY NoneAssumption
<1>3. TablesInv'
  BY <1>1 DEF TablesInv, ChannelTables
<1>4. PrimaryCurrent'
  BY <1>1 DEF PrimaryCurrent
<1>5. NoDangling'
  BY <1>1, <1>2 DEF NoDangling, Insertable, Known
<1>6. UniqueInv'
  <2> SUFFICES ASSUME NEW d \in Channels, NEW e \in Channels, d # e,
                      channels'[d] # None, channels'[e] # None
               PROVE  ~Conflicts(channels'[d], channels'[e])
    BY DEF UniqueInv
  <2>1. CASE d = c
    BY <2>1, <1>1 DEF Insertable
  <2>2. CASE e = c
    BY <2>2, <1>1, ConflictsSymmetric DEF Insertable
  <2>3. CASE d # c /\ e # c
    BY <2>3, <1>1 DEF UniqueInv
  <2> QED
    BY <2>1, <2>2, <2>3
<1> QED
  BY <1>3, <1>4, <1>5, <1>6 DEF CoreInv

LEMMA CreateProxyInv ==
  ASSUME LibraryInv, NEW p \in Proxies, NEW row \in ProxyRows, CreateProxy(p, row)
  PROVE  LibraryInv'
<1> USE DEF LibraryInv, CreateProxy
<1>1. /\ \A q \in Proxies : proxies'[q] = IF q = p THEN row ELSE proxies[q]
      /\ proxies' \in ProxyTables
      /\ UNCHANGED <<channels, members, deleting>>
  BY DEF TablesInv, ProxyTables
<1>2. \A c \in Channels, u \in Upstreams :
        channels[c] # None /\ u \in Range(channels[c].ups) => u.proxy # p
  BY NoneAssumption DEF NoDangling, Known
<1>3. \A c \in Channels : channels[c] # None => Range(channels[c].ups) \subseteq Upstreams
  BY ListFacts, BoundsAssumption DEF TablesInv, ChannelTables, ChannelRows, UpstreamLists
<1>4. TablesInv'
  BY <1>1 DEF TablesInv
<1>5. PrimaryCurrent'
  <2> SUFFICES ASSUME NEW c \in Channels, channels[c] # None
               PROVE  channels[c].url = StablePrimary(proxies', PrimaryUpstream(channels[c]))
    BY <1>1 DEF PrimaryCurrent
  <2> DEFINE u == PrimaryUpstream(channels[c])
  <2>1. u \in Range(channels[c].ups)
    BY ListFacts, BoundsAssumption
    DEF PrimaryUpstream, TablesInv, ChannelTables, ChannelRows, UpstreamLists
  <2>2. u \in Upstreams /\ u.proxy # p
    BY <1>2, <1>3, <2>1
  <2>3. u.proxy # None => proxies'[u.proxy] = proxies[u.proxy]
    BY <1>1, <2>2 DEF Upstreams
  <2>4. StablePrimary(proxies', u) = StablePrimary(proxies, u)
    BY <2>3 DEF StablePrimary
  <2> QED
    BY <2>4 DEF PrimaryCurrent
<1>6. NoDangling'
  BY <1>1, NoneAssumption DEF NoDangling, Known
<1>7. UniqueInv'
  BY <1>1 DEF UniqueInv
<1> QED
  BY <1>4, <1>5, <1>6, <1>7, CommitsBackup

\* The primary upstream is one of the channel's upstreams, with a known proxy.
LEMMA PrimaryKnown ==
  ASSUME TablesInv, NoDangling, NEW c \in Channels, channels[c] # None
  PROVE  LET u == PrimaryUpstream(channels[c]) IN
         /\ u \in Range(channels[c].ups)
         /\ u \in Upstreams
         /\ u.proxy # None => u.proxy \in Proxies /\ proxies[u.proxy] # None
<1> DEFINE u == PrimaryUpstream(channels[c])
<1>1. channels[c] \in ChannelRows /\ channels[c].fixed \in Range(channels[c].ups)
  BY DEF TablesInv, ChannelTables
<1>2. /\ Range(channels[c].ups) \subseteq Upstreams
      /\ channels[c].ups[1] \in Range(channels[c].ups)
  BY <1>1, ListFacts, BoundsAssumption DEF ChannelRows, UpstreamLists
<1>3. u \in Range(channels[c].ups)
  BY <1>1, <1>2 DEF PrimaryUpstream
<1>4. u \in Upstreams
  BY <1>2, <1>3
<1>5. u.proxy # None => u.proxy \in Proxies
  BY <1>4 DEF Upstreams
<1> QED
  BY <1>3, <1>4, <1>5 DEF NoDangling, Known

\* refreshProxyDependentsTx rewrites exactly the URLs that the change touches.
LEMMA UpdateProxyInv ==
  ASSUME LibraryInv, NEW p \in Proxies, NEW row \in ProxyRows, UpdateProxy(p, row)
  PROVE  LibraryInv'
<1> USE DEF LibraryInv
<1>1. /\ \A q \in Proxies : proxies'[q] = IF q = p THEN row ELSE proxies[q]
      /\ proxies' \in ProxyTables
      /\ channels' = Refreshed(proxies', p)
      /\ UNCHANGED <<members, deleting>>
      /\ Commits
  BY DEF UpdateProxy, TablesInv, ProxyTables
<1>2. ASSUME NEW c \in Channels
      PROVE  channels'[c] = IF channels[c] = None \/ PrimaryUpstream(channels[c]).proxy # p
                            THEN channels[c]
                            ELSE [channels[c] EXCEPT !.url =
                                    StablePrimary(proxies', PrimaryUpstream(channels[c]))]
  BY <1>1 DEF Refreshed
<1>3. \A q \in Proxies : proxies[q] # None => proxies'[q] # None
  BY <1>1, NoneAssumption
<1>4. ASSUME NEW c \in Channels, channels[c] # None
      PROVE  /\ channels'[c] \in ChannelRows
             /\ channels'[c].policy = channels[c].policy
             /\ channels'[c].ups = channels[c].ups
             /\ channels'[c].fixed = channels[c].fixed
             /\ channels'[c].url = StablePrimary(proxies', PrimaryUpstream(channels[c]))
  <2> DEFINE u == PrimaryUpstream(channels[c])
  <2>1. channels[c] \in ChannelRows
    BY <1>4 DEF TablesInv, ChannelTables
  <2>2. u \in Upstreams /\ (u.proxy # None => u.proxy \in Proxies /\ proxies[u.proxy] # None)
    BY <1>4, PrimaryKnown
  <2>3. StablePrimary(proxies', u) \in Servers \X Links
    BY <1>1, <1>3, <2>2, ResolvesToURL
  <2>4. CASE u.proxy = p
    <3>1. channels'[c] = [channels[c] EXCEPT !.url = StablePrimary(proxies', u)]
      BY <1>2, <1>4, <2>4
    <3> QED
      BY <2>1, <2>3, <3>1 DEF ChannelRows
  <2>5. CASE u.proxy # p
    <3>1. channels'[c] = channels[c]
      BY <1>2, <2>5
    <3>2. StablePrimary(proxies', u) = StablePrimary(proxies, u)
      BY <1>1, <2>2, <2>5 DEF StablePrimary
    <3> QED
      BY <1>4, <2>1, <3>1, <3>2 DEF PrimaryCurrent
  <2> QED
    BY <2>4, <2>5
<1>5. ASSUME NEW c \in Channels, channels[c] = None PROVE channels'[c] = None
  BY <1>2, <1>5
<1>6. channels' \in [Channels -> ChannelRows \cup {None}]
  <2>1. \A c \in Channels : channels'[c] \in ChannelRows \cup {None}
    BY <1>4, <1>5
  <2> QED
    BY <1>1, <2>1 DEF Refreshed
<1>7. TablesInv'
  BY <1>1, <1>4, <1>5, <1>6 DEF TablesInv, ChannelTables
<1>8. PrimaryCurrent'
  BY <1>4, <1>5 DEF PrimaryCurrent, PrimaryUpstream
<1>9. NoDangling'
  <2>1. ASSUME NEW c \in Channels, channels'[c] # None PROVE Known(proxies', channels'[c].ups)
    <3>1. channels'[c].ups = channels[c].ups /\ Known(proxies, channels[c].ups)
      BY <2>1, <1>4, <1>5 DEF NoDangling
    <3>2. Range(channels[c].ups) \subseteq Upstreams
      BY <2>1, <1>5, ListFacts, BoundsAssumption
      DEF TablesInv, ChannelTables, ChannelRows, UpstreamLists
    <3>3. \A u \in Upstreams : u.proxy # None => u.proxy \in Proxies
      BY DEF Upstreams
    <3> QED
      BY <3>1, <3>2, <3>3, <1>3 DEF Known
  <2>2. \A c \in members' : channels'[c] # None
    BY <1>1, <1>4, NoneAssumption DEF NoDangling, TablesInv
  <2> QED
    BY <2>1, <2>2 DEF NoDangling
<1>10. UniqueInv'
  <2> SUFFICES ASSUME NEW c \in Channels, NEW d \in Channels, c # d,
                      channels'[c] # None, channels'[d] # None
               PROVE  ~Conflicts(channels'[c], channels'[d])
    BY DEF UniqueInv
  <2>1. channels'[c].url # channels'[d].url
    BY <1>1 DEF UpdateProxy
  <2>2. channels[c] # None /\ channels[d] # None
    BY <1>5
  <2>3. channels'[c].ups = channels[c].ups /\ channels'[d].ups = channels[d].ups
    BY <2>2, <1>4
  <2> QED
    BY <2>1, <2>2, <2>3 DEF UniqueInv, Conflicts
<1> QED
  BY <1>1, <1>7, <1>8, <1>9, <1>10, CommitsBackup

\* The foreign key keeps a proxy that some channel uses.
LEMMA DeleteProxyInv ==
  ASSUME LibraryInv, NEW p \in Proxies, DeleteProxy(p)
  PROVE  LibraryInv'
<1> USE DEF LibraryInv, DeleteProxy
<1>1. /\ \A q \in Proxies : proxies'[q] = IF q = p THEN None ELSE proxies[q]
      /\ proxies' \in ProxyTables
      /\ UNCHANGED <<channels, members>>
      /\ deleting' \subseteq Proxies \cup Channels
  BY DEF TablesInv, ProxyTables
<1>2. \A c \in Channels : channels[c] # None => \A u \in Range(channels[c].ups) : u.proxy # p
  BY DEF Users
<1>3. TablesInv'
  BY <1>1 DEF TablesInv
<1>4. PrimaryCurrent'
  <2> SUFFICES ASSUME NEW c \in Channels, channels[c] # None
               PROVE  channels[c].url = StablePrimary(proxies', PrimaryUpstream(channels[c]))
    BY <1>1 DEF PrimaryCurrent
  <2> DEFINE u == PrimaryUpstream(channels[c])
  <2>1. u.proxy # None => u.proxy \in Proxies /\ u.proxy # p
    BY <1>2, PrimaryKnown
  <2>2. StablePrimary(proxies', u) = StablePrimary(proxies, u)
    BY <1>1, <2>1 DEF StablePrimary
  <2> QED
    BY <2>2 DEF PrimaryCurrent
<1>5. NoDangling'
  <2>1. ASSUME NEW c \in Channels, channels[c] # None PROVE Known(proxies', channels[c].ups)
    <3>1. Range(channels[c].ups) \subseteq Upstreams
      BY <2>1, ListFacts, BoundsAssumption
      DEF TablesInv, ChannelTables, ChannelRows, UpstreamLists
    <3>2. \A u \in Upstreams : u.proxy # None => u.proxy \in Proxies
      BY DEF Upstreams
    <3> QED
      BY <1>1, <1>2, <2>1, <3>1, <3>2 DEF NoDangling, Known
  <2> QED
    BY <1>1, <2>1 DEF NoDangling
<1>6. UniqueInv'
  BY <1>1 DEF UniqueInv
<1> QED
  BY <1>3, <1>4, <1>5, <1>6, CommitsBackup

\* The other foreign key keeps a channel that is in a lineup.
LEMMA DeleteChannelInv ==
  ASSUME LibraryInv, NEW c \in Channels, DeleteChannel(c)
  PROVE  LibraryInv'
<1> USE DEF LibraryInv, DeleteChannel
<1>1. /\ \A d \in Channels : channels'[d] = IF d = c THEN None ELSE channels[d]
      /\ channels' \in [Channels -> ChannelRows \cup {None}]
      /\ UNCHANGED <<proxies, members>>
      /\ deleting' \subseteq Proxies \cup Channels
  BY DEF TablesInv, ChannelTables
<1>2. TablesInv'
  BY <1>1 DEF TablesInv, ChannelTables
<1>3. PrimaryCurrent' /\ UniqueInv'
  BY <1>1 DEF PrimaryCurrent, UniqueInv
<1>4. NoDangling'
  BY <1>1 DEF NoDangling, TablesInv
<1> QED
  BY <1>2, <1>3, <1>4, CommitsBackup

LEMMA SaveChannelInv ==
  ASSUME LibraryInv, NEW c \in Channels, NEW pol \in Policies, NEW ups \in UpstreamLists, NEW fixed,
         CreateChannel(c, pol, ups, fixed) \/ UpdateChannel(c, pol, ups, fixed)
  PROVE  LibraryInv'
<1>1. Commits /\ Known(proxies, ups) /\ Save(c, ChannelRow(proxies, pol, ups, fixed))
  BY DEF CreateChannel, UpdateChannel
<1>2. proxies \in ProxyTables
  BY DEF LibraryInv, TablesInv
<1>3. CoreInv'
  BY <1>1, <1>2, ChannelRowFacts, SaveInv
<1> QED
  BY <1>1, <1>3, CommitsBackup DEF LibraryInv, CoreInv

\* An imported row becomes a channel or the last upstream of one, which keeps
\* its primary upstream.
LEMMA ImportChannelInv ==
  ASSUME LibraryInv, NEW c \in Channels, NEW u \in Upstreams, ImportChannel(c, u)
  PROVE  LibraryInv'
<1> USE DEF LibraryInv
<1>1. Commits /\ Known(proxies, <<u>>) /\ ~Owned(u)
  BY DEF ImportChannel
<1>2. MaxUpstreams \in Nat \ {0}
  BY BoundsAssumption
<1>3. CASE channels[c] = None
  <2>1. <<u>> \in UpstreamLists
    BY <1>2, SingletonList DEF UpstreamLists
  <2>2. proxies \in ProxyTables /\ "fixed" \in Policies
    BY BoundsAssumption DEF TablesInv
  <2>3. Save(c, ChannelRow(proxies, "fixed", <<u>>, None))
    BY <1>3 DEF ImportChannel
  <2>4. CoreInv'
    BY <1>1, <2>1, <2>2, <2>3, ChannelRowFacts, SaveInv
  <2> QED
    BY <1>1, <2>4, CommitsBackup DEF CoreInv
<1>4. CASE channels[c] # None
  <2> DEFINE old == channels[c]
             new == Append(old.ups, u)
  <2>1. /\ AppendUpstream(c, u)
        /\ old \in ChannelRows
        /\ old.fixed \in Range(old.ups)
        /\ old.ups \in Lists(Upstreams, MaxUpstreams)
        /\ Len(old.ups) < MaxUpstreams
        /\ u \notin Range(old.ups)
    BY <1>1, <1>4
    DEF ImportChannel, AppendUpstream, TablesInv, ChannelTables, ChannelRows, UpstreamLists, Owned
  <2>2. /\ new \in UpstreamLists
        /\ Range(new) = Range(old.ups) \cup {u}
        /\ new[1] = old.ups[1]
    BY <1>2, <2>1, AppendList DEF UpstreamLists
  <2>3. /\ channels' = [channels EXCEPT ![c] = [old EXCEPT !.ups = new]]
        /\ UNCHANGED <<proxies, members, deleting>>
    BY <2>1 DEF AppendUpstream
  <2> HIDE DEF new
  <2>4. /\ channels'[c] \in ChannelRows
        /\ channels'[c].policy = old.policy
        /\ channels'[c].ups = new
        /\ channels'[c].fixed = old.fixed
        /\ channels'[c].url = old.url
    BY <2>1, <2>2, <2>3 DEF ChannelRows, TablesInv, ChannelTables
  <2>5. \A d \in Channels : d # c => channels'[d] = channels[d]
    BY <2>3 DEF TablesInv, ChannelTables
  <2>6. channels' \in [Channels -> ChannelRows \cup {None}]
    BY <2>3, <2>4, <2>5 DEF TablesInv, ChannelTables
  <2>7. TablesInv'
    BY <2>1, <2>2, <2>3, <2>4, <2>5, <2>6 DEF TablesInv, ChannelTables
  <2>8. PrimaryCurrent'
    BY <1>4, <2>2, <2>3, <2>4, <2>5 DEF PrimaryCurrent, PrimaryUpstream
  <2>9. NoDangling'
    <3>1. Known(proxies, new)
      <4>1. u.proxy # None => proxies[u.proxy] # None
        BY <1>1, SingletonList, <1>2 DEF Known
      <4> QED
        BY <1>4, <2>2, <4>1 DEF NoDangling, Known
    <3>2. channels'[c] # None
      BY <2>4, NoneAssumption
    <3> QED
      BY <2>3, <2>4, <2>5, <3>1, <3>2 DEF NoDangling, TablesInv
  <2>10. UniqueInv'
    <3>1. ASSUME NEW d \in Channels, d # c, channels[d] # None
          PROVE  ~Conflicts(channels'[c], channels[d])
      <4>1. old.url # channels[d].url /\ u \notin Range(channels[d].ups)
        BY <1>1, <1>4, <3>1 DEF UniqueInv, Conflicts, Owned
      <4>2. \A w \in Range(old.ups) \cap Range(channels[d].ups) : w.proxy # None
        BY <1>4, <3>1 DEF UniqueInv, Conflicts
      <4> QED
        BY <2>2, <2>4, <4>1, <4>2 DEF Conflicts
    <3> SUFFICES ASSUME NEW d \in Channels, NEW e \in Channels, d # e,
                        channels'[d] # None, channels'[e] # None
                 PROVE  ~Conflicts(channels'[d], channels'[e])
      BY DEF UniqueInv
    <3>2. CASE d = c
      BY <3>1, <3>2, <2>5
    <3>3. CASE e = c
      BY <3>1, <3>3, <2>5, ConflictsSymmetric
    <3>4. CASE d # c /\ e # c
      BY <3>4, <2>5 DEF UniqueInv
    <3> QED
      BY <3>2, <3>3, <3>4
  <2> QED
    BY <1>1, <2>7, <2>8, <2>9, <2>10, CommitsBackup
<1> QED
  BY <1>3, <1>4

LEMMA MembershipInv ==
  ASSUME LibraryInv, NEW c \in Channels, AddMembership(c) \/ DeleteMembership(c)
  PROVE  LibraryInv'
<1>1. /\ UNCHANGED <<proxies, channels, deleting>>
      /\ members' \subseteq Channels
      /\ \A d \in members' : channels[d] # None
      /\ Commits
  BY DEF AddMembership, DeleteMembership, LibraryInv, TablesInv, NoDangling
<1>2. TablesInv' /\ PrimaryCurrent' /\ UniqueInv'
  BY <1>1 DEF LibraryInv, TablesInv, PrimaryCurrent, UniqueInv
<1>3. NoDangling'
  BY <1>1 DEF LibraryInv, NoDangling
<1> QED
  BY <1>1, <1>2, <1>3, CommitsBackup DEF LibraryInv

\* Each step of an export reads what the tables hold.
LEMMA ExportInv ==
  ASSUME LibraryInv, ExportProxies \/ ExportChannels \/ ExportRelays \/ DiscardBackup
  PROVE  LibraryInv'
<1> USE DEF LibraryInv, BackupInv, Backups, Outstanding, NoBackup
<1>1. UNCHANGED <<library, deleting>>
  BY DEF ExportProxies, ExportChannels, ExportRelays, DiscardBackup
<1>2. CoreInv'
  BY <1>1, SameLibrary DEF TablesInv
<1>3. UNCHANGED <<proxies, channels, members>>
  BY <1>1 DEF library
<1>4. CASE ExportProxies
  BY <1>2, <1>3, <1>4 DEF ExportProxies, CoreInv, TablesInv
<1>5. CASE ExportChannels
  <2>1. backup \in [pc : {"proxies"}, proxies : ProxyTables, commits : Nat]
    BY <1>5 DEF ExportChannels
  <2> QED
    BY <1>2, <1>3, <1>5, <2>1 DEF ExportChannels, CoreInv, TablesInv
<1>6. CASE ExportRelays
  <2>1. backup \in [pc : {"channels"}, proxies : ProxyTables, channels : ChannelTables,
                    commits : Nat]
    BY <1>6 DEF ExportRelays
  <2> QED
    BY <1>2, <1>3, <1>6, <2>1 DEF ExportRelays, CoreInv, TablesInv
<1>7. CASE DiscardBackup
  BY <1>2, <1>7 DEF DiscardBackup, CoreInv
<1> QED
  BY <1>4, <1>5, <1>6, <1>7

\* What RestoreLibrary validates is what the invariant asks of the tables.
LEMMA RestoreInv ==
  ASSUME LibraryInv, RestoreLibrary
  PROVE  LibraryInv'
<1> DEFINE b == backup
<1>1. b \in [pc : {"done"}, proxies : ProxyTables, channels : ChannelTables,
             members : SUBSET Channels, commits : Nat]
  BY DEF LibraryInv, BackupInv, Backups, RestoreLibrary, NoBackup
<1>2. /\ proxies' = b.proxies
      /\ channels' = RestoredChannels(b)
      /\ members' = b.members
      /\ backup' = NoBackup
      /\ UNCHANGED deleting
      /\ Restorable(b)
  BY DEF RestoreLibrary
<1>3. ASSUME NEW c \in Channels, b.channels[c] # None
      PROVE  /\ channels'[c] = RestoredRow(b, c)
             /\ channels'[c] \in ChannelRows
             /\ channels'[c].fixed \in Range(channels'[c].ups)
             /\ channels'[c].url = StablePrimary(b.proxies, PrimaryUpstream(channels'[c]))
             /\ Insertable(b.proxies, channels', c, channels'[c])
  <2>1. channels'[c] = RestoredRow(b, c)
    BY <1>2, <1>3 DEF RestoredChannels
  <2>2. b.channels[c] \in ChannelRows
    BY <1>1, <1>3 DEF ChannelTables
  <2>3. Known(b.proxies, b.channels[c].ups) /\ b.proxies \in ProxyTables
    BY <1>1, <1>2, <1>3 DEF Restorable, ChannelsRestorable
  <2>4. b.channels[c].policy \in Policies /\ b.channels[c].ups \in UpstreamLists
    BY <2>2 DEF ChannelRows
  <2>5. Insertable(b.proxies, channels', c, channels'[c])
    BY <1>2, <1>3, <2>1 DEF Restorable, ChannelsRestorable
  <2> HIDE DEF b
  <2> QED
    BY <2>1, <2>3, <2>4, <2>5, ChannelRowFacts DEF RestoredRow
<1>4. ASSUME NEW c \in Channels, b.channels[c] = None PROVE channels'[c] = None
  BY <1>2, <1>4 DEF RestoredChannels
<1>5. channels' \in [Channels -> ChannelRows \cup {None}]
  <2>1. \A c \in Channels : channels'[c] \in ChannelRows \cup {None}
    BY <1>3, <1>4
  <2> QED
    BY <1>2, <2>1 DEF RestoredChannels
<1>6. TablesInv'
  BY <1>1, <1>2, <1>3, <1>4, <1>5 DEF LibraryInv, TablesInv, ChannelTables
<1>7. PrimaryCurrent'
  BY <1>2, <1>3, <1>4 DEF PrimaryCurrent
<1>8. NoDangling'
  <2>1. \A c \in Channels : channels'[c] # None => Known(proxies', channels'[c].ups)
    BY <1>2, <1>3, <1>4 DEF Insertable
  <2>2. \A c \in members' : channels'[c] # None
    BY <1>1, <1>2, <1>3, NoneAssumption DEF Restorable, RelaysRestorable
  <2> QED
    BY <2>1, <2>2 DEF NoDangling
<1>9. UniqueInv'
  BY <1>3, <1>4 DEF UniqueInv, Insertable
<1>10. BackupInv'
  BY <1>2 DEF BackupInv, Backups, Outstanding, NoBackup
<1> QED
  BY <1>6, <1>7, <1>8, <1>9, <1>10 DEF LibraryInv

(***************************************************************************)
(* Theorems.                                                               *)
(***************************************************************************)

\* LibraryInv is inductive: no sequence of edits, imports, deletions, backups
\* and restores leaves it.
THEOREM LibraryInvariance == Spec => []LibraryInv
<1>1. Init => LibraryInv
  BY DEF Init, LibraryInv, TablesInv, ProxyTables, ChannelTables, PrimaryCurrent, NoDangling,
     UniqueInv, BackupInv, Backups, Outstanding, NoBackup
<1>2. LibraryInv /\ [Next]_vars => LibraryInv'
  <2> SUFFICES ASSUME LibraryInv, [Next]_vars PROVE LibraryInv'
    OBVIOUS
  <2>1. ASSUME UNCHANGED <<library, backup>>, deleting' \subseteq Proxies \cup Channels
        PROVE  LibraryInv'
    <3>1. BackupInv'
      BY <2>1 DEF LibraryInv, BackupInv, library, Outstanding
    <3> QED
      BY <2>1, <3>1, SameLibrary DEF LibraryInv, CoreInv
  <2>2. CASE UNCHANGED vars
    BY <2>1, <2>2 DEF vars, LibraryInv, TablesInv
  <2>3. ASSUME NEW p \in Proxies,
               DeleteProxyChecks(p) \/ DeleteProxyRefused(p)
        PROVE  LibraryInv'
    BY <2>1, <2>3 DEF DeleteProxyChecks, DeleteProxyRefused, LibraryInv, TablesInv
  <2>4. ASSUME NEW c \in Channels, DeleteChannelChecks(c) \/ DeleteChannelRefused(c)
        PROVE  LibraryInv'
    BY <2>1, <2>4 DEF DeleteChannelChecks, DeleteChannelRefused, LibraryInv, TablesInv
  <2> QED
    BY <2>2, <2>3, <2>4, CreateProxyInv, UpdateProxyInv, DeleteProxyInv, SaveChannelInv,
       DeleteChannelInv, ImportChannelInv, MembershipInv, ExportInv, RestoreInv DEF Next
<1> QED
  BY <1>1, <1>2, PTL DEF Spec

\* Rows keep their types, and a channel's fixed upstream is one of its own.
THEOREM LibraryTypes == Spec => []TypeOK
<1>1. LibraryInv => TypeOK
  BY DEF LibraryInv, TablesInv, ProxyTables, ChannelTables, ChannelRows, TypeOK
<1> QED
  BY <1>1, LibraryInvariance, PTL

\* upstream_url is never stale.
THEOREM PrimaryStaysCurrent == Spec => []PrimaryCurrent
<1>1. LibraryInv => PrimaryCurrent
  BY DEF LibraryInv
<1> QED
  BY <1>1, LibraryInvariance, PTL

\* The checks before the deletes need not be atomic with them.
THEOREM NothingDangles == Spec => []NoDangling
<1>1. LibraryInv => NoDangling
  BY DEF LibraryInv
<1> QED
  BY <1>1, LibraryInvariance, PTL

\* A backup taken in quiet passes every check of RestoreLibrary and gives back
\* the same rows, fixed upstreams and cached URLs included.
THEOREM BackupRoundTrip == Spec => []QuietBackupRoundTrips
<1>1. LibraryInv => QuietBackupRoundTrips
  <2> SUFFICES ASSUME LibraryInv, backup.pc = "done", backup.commits = 0,
                      \A c \in Channels : channels[c] # None =>
                        DistinctResolved(proxies, channels[c].ups)
               PROVE  /\ Restorable(backup)
                      /\ backup.proxies = proxies
                      /\ RestoredChannels(backup) = channels
                      /\ backup.members = members
    BY DEF QuietBackupRoundTrips, library
  <2> DEFINE b == backup
  <2>1. b.proxies = proxies /\ b.channels = channels /\ b.members = members
    BY DEF LibraryInv, BackupInv, Outstanding
  <2>2. ASSUME NEW c \in Channels, channels[c] # None
        PROVE  RestoredRow(b, c) = channels[c]
    <3>1. channels[c] \in ChannelRows /\ channels[c].fixed \in Range(channels[c].ups)
      BY <2>2 DEF LibraryInv, TablesInv, ChannelTables
    <3>2. channels[c].url = StablePrimary(proxies, PrimaryUpstream(channels[c]))
      BY <2>2 DEF LibraryInv, PrimaryCurrent
    <3>3. RestoredRow(b, c)
            = ChannelRow(proxies, channels[c].policy, channels[c].ups, channels[c].fixed)
      BY <2>1 DEF RestoredRow
    <3> HIDE DEF b
    <3> QED
      BY <3>1, <3>2, <3>3, SameChannelRow
  <2>3. channels \in [Channels -> ChannelRows \cup {None}]
    BY DEF LibraryInv, TablesInv, ChannelTables
  <2>4. RestoredChannels(b) = channels
    BY <2>1, <2>2, <2>3 DEF RestoredChannels
  <2>5. ChannelsRestorable(b)
    <3> HIDE DEF b
    <3>1. \A c \in Channels : channels[c] # None => Known(proxies, channels[c].ups)
      BY DEF LibraryInv, NoDangling
    <3>2. ASSUME NEW c \in Channels, channels[c] # None
          PROVE  Insertable(proxies, channels, c, channels[c])
      BY <3>1, <3>2 DEF Insertable, LibraryInv, UniqueInv
    <3> QED
      BY <2>1, <2>2, <2>4, <3>1, <3>2 DEF ChannelsRestorable
  <2>6. RelaysRestorable(b)
    BY <2>1 DEF RelaysRestorable, LibraryInv, NoDangling
  <2> QED
    BY <2>1, <2>4, <2>5, <2>6 DEF Restorable
<1> QED
  BY <1>1, LibraryInvariance, PTL

=============================================================================
