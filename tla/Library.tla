------------------------------ MODULE Library ------------------------------
(***************************************************************************)
(* The library in the store: proxies, channels with their upstreams, the   *)
(* channels of a relay, and the backup of all of it (internal/core/store:  *)
(* proxies.go, upstreams.go, store.go, import.go, backup.go).  The         *)
(* database has one connection, so a statement or a transaction is one     *)
(* step; requests that check first and write in a later statement, and     *)
(* ExportLibrary, which reads table by table, are several.                 *)
(*                                                                         *)
(* An http URL is a pair <<server, link>>.  A direct upstream stores one; a *)
(* proxied upstream stores the link only, and the proxy's servers complete *)
(* it.  Ids stand for names, and an upstream for its row id: both are      *)
(* unique where the code compares them.  Refused requests change nothing.  *)
(***************************************************************************)
EXTENDS Naturals, Sequences, FiniteSets, Functions

CONSTANTS
  Channels, Proxies, Servers, Links,   \* what the rows are made of
  Policies,       \* upstream policies: "fixed", "random", "failover"
  MaxUpstreams,   \* bound on the upstreams of a channel
  MaxServers,     \* bound on the servers of a proxy
  MaxCommits,     \* bound on the changes made while a backup is outstanding
  None

ASSUME BoundsAssumption ==
  /\ "fixed" \in Policies
  /\ {MaxUpstreams, MaxServers} \subseteq Nat \ {0}
  /\ MaxCommits \in Nat

VARIABLES
  proxies,    \* rows of proxies with their servers, or None
  channels,   \* rows of channels with their upstreams, or None
  members,    \* channels in the relay's lineup
  deleting,   \* ids whose delete request has passed its check
  backup      \* the export in progress or finished

library == <<proxies, channels, members>>
vars == <<library, deleting, backup>>

Upstreams ==
  [proxy : {None}, url : Servers \X Links] \cup [proxy : Proxies, url : Links]

\* Sequences without repetition, of at least one element.
Lists(S, n) == UNION {{s \in [1..k -> S] : IsInjective(s)} : k \in 1..n}

UpstreamLists == Lists(Upstreams, MaxUpstreams)

\* The fixed server is one of the servers (resolveProxySpec).
ProxyRows ==
  UNION {[policy : Policies, servers : {s}, fixed : Range(s)] : s \in Lists(Servers, MaxServers)}

ChannelRows ==
  [policy : Policies, ups : UpstreamLists, fixed : Upstreams, url : Servers \X Links]

\* None is neither an id nor a row.
ASSUME NoneAssumption == None \notin Proxies /\ None \notin ProxyRows /\ None \notin ChannelRows

(***************************************************************************)
(* Resolving an upstream (upstream/resolve.go) with the proxies px.        *)
(***************************************************************************)
StablePrimary(px, u) ==
  IF u.proxy = None THEN u.url
  ELSE LET p == px[u.proxy] IN
       <<IF p.policy = "fixed" THEN p.fixed ELSE p.servers[1], u.url>>

ResolvedForDedupe(px, u) ==
  IF u.proxy # None /\ px[u.proxy].policy = "failover"
  THEN {<<s, u.url>> : s \in Range(px[u.proxy].servers)}
  ELSE {StablePrimary(px, u)}

\* The upstream a channel is known by: the fixed one, else the first.
PrimaryUpstream(row) == IF row.policy = "fixed" THEN row.fixed ELSE row.ups[1]

\* No two upstreams resolve to the same URL.
DistinctResolved(px, ups) ==
  \A i, j \in DOMAIN ups :
    i # j => ResolvedForDedupe(px, ups[i]) \cap ResolvedForDedupe(px, ups[j]) = {}

(***************************************************************************)
(* Saving a channel: resolveChannelSpec, then the unique indexes.          *)
(***************************************************************************)
Known(px, ups) == \A u \in Range(ups) : u.proxy # None => px[u.proxy] # None

\* Mutant: an unknown fixed upstream is replaced for the primary URL only.
ChannelRowKeepsFixed(px, pol, ups, fixed) ==
  LET row == [policy |-> pol, ups |-> ups,
              fixed |-> IF fixed \in Range(ups) THEN fixed ELSE ups[1]]
  IN [policy |-> pol, ups |-> ups, fixed |-> fixed,
      url |-> StablePrimary(px, PrimaryUpstream(row))]

\* A fixed upstream left out of the request (None), or not among the upstreams,
\* becomes the first one.
ChannelRow(px, pol, ups, fixed) ==
  LET row == [policy |-> pol, ups |-> ups,
              fixed |-> IF fixed \in Range(ups) THEN fixed ELSE ups[1]]
  IN [policy |-> pol, ups |-> ups, fixed |-> row.fixed,
      url |-> StablePrimary(px, PrimaryUpstream(row))]

\* upstream_url is unique, and so is the URL of a direct upstream.
Conflicts(row, other) ==
  \/ row.url = other.url
  \/ \E u \in Range(row.ups) \cap Range(other.ups) : u.proxy = None

Insertable(px, chs, c, row) ==
  /\ Known(px, row.ups)
  /\ DistinctResolved(px, row.ups)
  /\ \A d \in Channels \ {c} : chs[d] # None => ~Conflicts(row, chs[d])

(***************************************************************************)
(* Backups.                                                                *)
(***************************************************************************)
NoBackup == [pc |-> "none"]

\* Changes made while a backup is outstanding are counted, to bound them.
Outstanding == backup.pc # "none"

Commits ==
  /\ Outstanding => backup.commits < MaxCommits
  /\ backup' = IF Outstanding THEN [backup EXCEPT !.commits = @ + 1] ELSE backup

\* Mutant: the fixed upstream is not restored.
RestoredRowForgetsFixed(b, c) ==
  LET in == b.channels[c] IN ChannelRow(b.proxies, in.policy, in.ups, None)

\* What RestoreLibrary makes of a backup: every row is validated again, in a
\* library that holds only the backup's rows.
RestoredRow(b, c) ==
  LET in == b.channels[c] IN ChannelRow(b.proxies, in.policy, in.ups, in.fixed)

RestoredChannels(b) ==
  [c \in Channels |-> IF b.channels[c] = None THEN None ELSE RestoredRow(b, c)]

\* A channel with an unknown proxy, with two upstreams of one URL, or against a
\* unique index is refused ...
ChannelsRestorable(b) ==
  /\ \A c \in Channels : b.channels[c] # None => Known(b.proxies, b.channels[c].ups)
  /\ \A c \in Channels :
       b.channels[c] # None => Insertable(b.proxies, RestoredChannels(b), c, RestoredRow(b, c))

\* ... and so is a relay whose channel is not in the backup.
RelaysRestorable(b) == \A c \in b.members : b.channels[c] # None

Restorable(b) == ChannelsRestorable(b) /\ RelaysRestorable(b)

(***************************************************************************)
(* Requests.                                                               *)
(***************************************************************************)
Init ==
  /\ proxies = [p \in Proxies |-> None]
  /\ channels = [c \in Channels |-> None]
  /\ members = {}
  /\ deleting = {}
  /\ backup = NoBackup

CreateProxy(p, row) ==
  /\ proxies[p] = None
  /\ proxies' = [proxies EXCEPT ![p] = row]
  /\ Commits
  /\ UNCHANGED <<channels, members, deleting>>

\* Mutant: only channels whose first upstream goes through p are renamed.
RefreshedByFirst(px, p) ==
  [c \in Channels |->
     IF channels[c] = None \/ channels[c].ups[1].proxy # p THEN channels[c]
     ELSE [channels[c] EXCEPT !.url = StablePrimary(px, PrimaryUpstream(channels[c]))]]

\* refreshProxyDependentsTx: channels whose primary goes through p are renamed.
Refreshed(px, p) ==
  [c \in Channels |->
     IF channels[c] = None \/ PrimaryUpstream(channels[c]).proxy # p THEN channels[c]
     ELSE [channels[c] EXCEPT !.url = StablePrimary(px, PrimaryUpstream(channels[c]))]]

\* The proxy changes for all its channels at once, unless two channels would
\* then have one upstream_url.
UpdateProxy(p, row) ==
  LET px == [proxies EXCEPT ![p] = row]
      chs == Refreshed(px, p)
  IN /\ proxies[p] # None
     /\ Commits
     /\ \A c, d \in Channels : c # d /\ chs[c] # None /\ chs[d] # None => chs[c].url # chs[d].url
     /\ proxies' = px
     /\ channels' = chs
     /\ UNCHANGED <<members, deleting>>

Users(p) == {c \in Channels : channels[c] # None /\ \E u \in Range(channels[c].ups) : u.proxy = p}

\* DeleteProxy counts the channels that use the proxy, then deletes it; it does
\* not take channelMu.
DeleteProxyChecks(p) ==
  /\ proxies[p] # None /\ Users(p) = {} /\ p \notin deleting
  /\ deleting' = deleting \cup {p}
  /\ UNCHANGED <<library, backup>>

\* Mutant: no foreign key restricts the statement.
DeleteProxyUnrestricted(p) ==
  /\ p \in deleting /\ proxies[p] # None
  /\ deleting' = deleting \ {p}
  /\ proxies' = [proxies EXCEPT ![p] = None]
  /\ Commits
  /\ UNCHANGED <<channels, members>>

\* The statement's foreign key restricts it to proxies without users.
DeleteProxy(p) ==
  /\ p \in deleting /\ Users(p) = {} /\ proxies[p] # None
  /\ deleting' = deleting \ {p}
  /\ proxies' = [proxies EXCEPT ![p] = None]
  /\ Commits
  /\ UNCHANGED <<channels, members>>

DeleteProxyRefused(p) ==
  /\ p \in deleting /\ (Users(p) # {} \/ proxies[p] = None)
  /\ deleting' = deleting \ {p}
  /\ UNCHANGED <<library, backup>>

Save(c, row) ==
  /\ Insertable(proxies, channels, c, row)
  /\ channels' = [channels EXCEPT ![c] = row]
  /\ UNCHANGED <<proxies, members, deleting>>

CreateChannel(c, pol, ups, fixed) ==
  /\ channels[c] = None /\ Commits /\ Known(proxies, ups)
  /\ Save(c, ChannelRow(proxies, pol, ups, fixed))

\* Fields left out of the request keep their value: any row may result.
UpdateChannel(c, pol, ups, fixed) ==
  /\ channels[c] # None /\ Commits /\ Known(proxies, ups)
  /\ Save(c, ChannelRow(proxies, pol, ups, fixed))

\* DeleteChannel looks for relays that use the channel, then deletes it, which
\* the foreign key of relay_memberships restricts.
DeleteChannelChecks(c) ==
  /\ channels[c] # None /\ c \notin members /\ c \notin deleting
  /\ deleting' = deleting \cup {c}
  /\ UNCHANGED <<library, backup>>

DeleteChannel(c) ==
  /\ c \in deleting /\ channels[c] # None /\ c \notin members
  /\ deleting' = deleting \ {c}
  /\ channels' = [channels EXCEPT ![c] = None]
  /\ Commits
  /\ UNCHANGED <<proxies, members>>

DeleteChannelRefused(c) ==
  /\ c \in deleting /\ (c \in members \/ channels[c] = None)
  /\ deleting' = deleting \ {c}
  /\ UNCHANGED <<library, backup>>

\* findChannelByUpstreamURLTx for a direct URL: its own, or of an upstream.
OwnsURL(c, url) ==
  channels[c].url = url \/ \E v \in Range(channels[c].ups) : v.proxy = None /\ v.url = url

\* findImportChannel: some channel has this upstream, or what it resolves to.
Owned(u) ==
  \E c \in Channels : channels[c] # None /\
    (u \in Range(channels[c].ups) \/ \E url \in ResolvedForDedupe(proxies, u) : OwnsURL(c, url))

\* An upstream that resolves like one the channel has is not appended.
AppendUpstream(c, u) ==
  /\ Len(channels[c].ups) < MaxUpstreams
  /\ \A v \in Range(channels[c].ups) :
       ResolvedForDedupe(proxies, v) \cap ResolvedForDedupe(proxies, u) = {}
  /\ channels' = [channels EXCEPT ![c].ups = Append(@, u)]
  /\ UNCHANGED <<proxies, members, deleting>>

\* One row of ImportChannels for the channel named c: a new channel, or one more
\* upstream at the end of an existing one.  A URL already owned is skipped.
ImportChannel(c, u) ==
  /\ Commits
  /\ Known(proxies, <<u>>) /\ ~Owned(u)
  /\ IF channels[c] = None THEN Save(c, ChannelRow(proxies, "fixed", <<u>>, None))
     ELSE AppendUpstream(c, u)

AddMembership(c) ==
  /\ channels[c] # None /\ c \notin members
  /\ members' = members \cup {c}
  /\ Commits
  /\ UNCHANGED <<proxies, channels, deleting>>

DeleteMembership(c) ==
  /\ c \in members
  /\ members' = members \ {c}
  /\ Commits
  /\ UNCHANGED <<proxies, channels, deleting>>

(***************************************************************************)
(* ExportLibrary: ListProxies, ListChannels and GetRelayDetail in turn,    *)
(* each taken as one step.                                                 *)
(***************************************************************************)
ExportProxies ==
  /\ backup.pc = "none"
  /\ backup' = [pc |-> "proxies", proxies |-> proxies, commits |-> 0]
  /\ UNCHANGED <<library, deleting>>

ExportChannels ==
  /\ backup.pc = "proxies"
  /\ backup' = [pc |-> "channels", proxies |-> backup.proxies, channels |-> channels,
                commits |-> backup.commits]
  /\ UNCHANGED <<library, deleting>>

ExportRelays ==
  /\ backup.pc = "channels"
  /\ backup' = [pc |-> "done", proxies |-> backup.proxies, channels |-> backup.channels,
                members |-> members, commits |-> backup.commits]
  /\ UNCHANGED <<library, deleting>>

\* RestoreLibrary replaces the library in one transaction, or refuses.
RestoreLibrary ==
  /\ backup.pc = "done" /\ Restorable(backup)
  /\ proxies' = backup.proxies
  /\ channels' = RestoredChannels(backup)
  /\ members' = backup.members
  /\ backup' = NoBackup
  /\ UNCHANGED deleting

DiscardBackup ==
  /\ backup.pc = "done"
  /\ backup' = NoBackup
  /\ UNCHANGED <<library, deleting>>

Next ==
  \/ \E p \in Proxies :
       \/ \E row \in ProxyRows : CreateProxy(p, row) \/ UpdateProxy(p, row)
       \/ DeleteProxyChecks(p) \/ DeleteProxy(p) \/ DeleteProxyRefused(p)
  \/ \E c \in Channels :
       \/ \E pol \in Policies, ups \in UpstreamLists : \E fixed \in Range(ups) \cup {None} :
            CreateChannel(c, pol, ups, fixed) \/ UpdateChannel(c, pol, ups, fixed)
       \/ DeleteChannelChecks(c) \/ DeleteChannel(c) \/ DeleteChannelRefused(c)
       \/ \E u \in Upstreams : ImportChannel(c, u)
       \/ AddMembership(c) \/ DeleteMembership(c)
  \/ ExportProxies \/ ExportChannels \/ ExportRelays
  \/ RestoreLibrary \/ DiscardBackup

Spec == Init /\ [][Next]_vars

(***************************************************************************)
(* Properties.                                                             *)
(***************************************************************************)
\* The tables hold rows of their types, and a channel's fixed upstream is one
\* of its upstreams.
TypeOK ==
  /\ \A p \in Proxies : proxies[p] = None \/ proxies[p] \in ProxyRows
  /\ \A c \in Channels : channels[c] # None =>
       /\ channels[c].policy \in Policies
       /\ channels[c].ups \in UpstreamLists
       /\ channels[c].fixed \in Range(channels[c].ups)
       /\ channels[c].url \in Servers \X Links
  /\ members \subseteq Channels
  /\ deleting \subseteq Proxies \cup Channels

\* channels.upstream_url is what the primary upstream resolves to now, after
\* any sequence of channel and proxy edits, imports and restores.
PrimaryCurrent ==
  \A c \in Channels : channels[c] # None =>
    channels[c].url = StablePrimary(proxies, PrimaryUpstream(channels[c]))

\* No upstream names a missing proxy and no relay a missing channel, although
\* both deletes check before the statement that deletes.
NoDangling ==
  /\ \A c \in Channels : channels[c] # None => Known(proxies, channels[c].ups)
  /\ \A c \in members : channels[c] # None

\* A backup exported while nothing changed restores the library it was taken
\* from, if every channel of it could be saved as it is.
QuietBackupRoundTrips ==
  backup.pc = "done" /\ backup.commits = 0
    /\ (\A c \in Channels : channels[c] # None => DistinctResolved(proxies, channels[c].ups))
  => /\ Restorable(backup)
     /\ <<backup.proxies, RestoredChannels(backup), backup.members>> = library

\* Every finished export can be restored.
EveryBackupRestores == backup.pc = "done" => Restorable(backup)

-----------------------------------------------------------------------------
(***************************************************************************)
(* The inductive invariant behind the safety properties.                   *)
(***************************************************************************)
\* Tables, and the tables of a backup, of the right shape.
ProxyTables == [Proxies -> ProxyRows \cup {None}]

ChannelTables ==
  {t \in [Channels -> ChannelRows \cup {None}] :
     \A c \in Channels : t[c] # None => t[c].fixed \in Range(t[c].ups)}

TablesInv ==
  /\ proxies \in ProxyTables
  /\ channels \in ChannelTables
  /\ members \subseteq Channels
  /\ deleting \subseteq Proxies \cup Channels

\* A backup holds what its steps have read; without changes since, that is what
\* the tables still hold.
Backups ==
  {NoBackup}
  \cup [pc : {"proxies"}, proxies : ProxyTables, commits : Nat]
  \cup [pc : {"channels"}, proxies : ProxyTables, channels : ChannelTables, commits : Nat]
  \cup [pc : {"done"}, proxies : ProxyTables, channels : ChannelTables,
        members : SUBSET Channels, commits : Nat]

BackupInv ==
  /\ backup \in Backups
  /\ Outstanding /\ backup.commits = 0 =>
       /\ backup.proxies = proxies
       /\ backup.pc \in {"channels", "done"} => backup.channels = channels
       /\ backup.pc = "done" => backup.members = members

\* The unique indexes: no two channels share a URL or a direct upstream.
UniqueInv ==
  \A c, d \in Channels :
    c # d /\ channels[c] # None /\ channels[d] # None => ~Conflicts(channels[c], channels[d])

LibraryInv == TablesInv /\ PrimaryCurrent /\ NoDangling /\ UniqueInv /\ BackupInv

=============================================================================
