---------------------------- MODULE RelayLayout ----------------------------
(***************************************************************************)
(* The lineups of the relays in the store: groups, memberships and their   *)
(* channel numbers (internal/core/store/relays.go, import.go), under       *)
(* concurrent requests.  The database has one connection, so a statement   *)
(* or a transaction is one step; requests that read first and write in a   *)
(* later statement are several steps: CreateRelayGroup, DeleteRelayGroup   *)
(* and ReplaceRelayLayout.  Names, slugs and timestamps are left out, and  *)
(* so are requests that change nothing because their input is refused.     *)
(***************************************************************************)
EXTENDS Integers, FiniteSets, Functions

CONSTANTS
  Channels,     \* channel ids
  Threads,      \* requests that may be in progress at once
  SortOrders,   \* the sort_order values a membership request may ask for
  Titles,       \* group titles of an imported playlist
  None,         \* no sort_order in the request
  MaxRelays, MaxGroups, MaxMembers,   \* bounds: ids handed out by AUTOINCREMENT
  MaxEntries    \* bound: entries of an imported playlist

ASSUME LayoutAssumption ==
  /\ SortOrders \subseteq Int
  /\ None \notin Int
  /\ {MaxRelays, MaxGroups, MaxMembers, MaxEntries} \subseteq Nat

VARIABLES
  channels,     \* ids of the rows of channels
  relays,       \* ids of the rows of relays
  groups,       \* relay_groups: id -> [relay, ord]
  members,      \* relay_memberships: id -> [relay, group, channel, number, ord]
  nextRelay, nextGroup, nextMember,   \* sqlite_sequence: ids are never reused
  req,          \* what the request of each thread has read so far
  raced         \* history: relays whose last layout was made from a stale lineup

seqVars == <<nextRelay, nextGroup, nextMember>>
vars == <<channels, relays, groups, members, seqVars, req, raced>>

Idle == [pc |-> "idle"]

Init ==
  /\ channels = {}
  /\ relays = {}
  /\ groups = <<>>
  /\ members = <<>>
  /\ nextRelay = 1 /\ nextGroup = 1 /\ nextMember = 1
  /\ req = [t \in Threads |-> Idle]
  /\ raced = {}

-----------------------------------------------------------------------------
\* INSERT: the rows of new, in addition to those of table.
Insert(table, new) ==
  [i \in DOMAIN table \cup DOMAIN new |-> IF i \in DOMAIN table THEN table[i] ELSE new[i]]

\* DELETE: the rows ids are gone.
Remove(table, ids) == Restrict(table, DOMAIN table \ ids)

GroupRow(r, o) == [relay |-> r, ord |-> o]
MemberRow(r, g, c, n, o) == [relay |-> r, group |-> g, channel |-> c, number |-> n, ord |-> o]

GroupsOf(r) == {g \in DOMAIN groups : groups[g].relay = r}
MembersOf(r) == {m \in DOMAIN members : members[m].relay = r}

\* ORDER BY g.sort_order ASC, m.sort_order ASC, m.id ASC
Before(ms, gs, m, n) ==
  LET a == gs[ms[m].group].ord
      b == gs[ms[n].group].ord IN
  \/ a < b
  \/ a = b /\ ms[m].ord < ms[n].ord
  \/ a = b /\ ms[m].ord = ms[n].ord /\ m < n

\* The place of membership m in its relay's lineup, from 1.
Place(ms, gs, m) ==
  1 + Cardinality({n \in DOMAIN ms : ms[n].relay = ms[m].relay /\ Before(ms, gs, n, m)})

\* renumberRelayMemberships
Renumber(ms, gs, r) ==
  [m \in DOMAIN ms |->
     IF ms[m].relay = r
       THEN MemberRow(r, ms[m].group, ms[m].channel, Place(ms, gs, m), ms[m].ord)
       ELSE ms[m]]

\* The next sort_order after those of the rows ids of table: MAX(sort_order) + 1, or 0.
NextOrd(table, ids) ==
  IF ids = {} THEN 0 ELSE 1 + CHOOSE o \in {table[i].ord : i \in ids} : \A i \in ids : table[i].ord <= o

\* UNIQUE(relay_id, channel_id), for a row other than m.
ChannelFree(r, c, m) == \A n \in MembersOf(r) \ {m} : members[n].channel # c

\* validateMembershipInputQ
ValidInput(r, g, c) == g \in GroupsOf(r) /\ c \in channels

-----------------------------------------------------------------------------
(***************************************************************************)
(* Requests of one statement or one transaction                            *)
(***************************************************************************)
CreateChannel(c) ==
  /\ c \notin channels
  /\ channels' = channels \cup {c}
  /\ UNCHANGED <<relays, groups, members, seqVars, req, raced>>

\* Mutant: the look-up is not made and there is no foreign key.
DeleteChannelInUse(c) ==
  /\ c \in channels
  /\ channels' = channels \ {c}
  /\ UNCHANGED <<relays, groups, members, seqVars, req, raced>>

\* Refused while a relay uses the channel: by the look-up, or by the foreign key
\* when the membership came after the look-up.
DeleteChannel(c) ==
  /\ c \in channels
  /\ \A m \in DOMAIN members : members[m].channel # c
  /\ channels' = channels \ {c}
  /\ UNCHANGED <<relays, groups, members, seqVars, req, raced>>

CreateRelay ==
  /\ nextRelay <= MaxRelays /\ nextGroup <= MaxGroups
  /\ relays' = relays \cup {nextRelay}
  /\ groups' = Insert(groups, [g \in {nextGroup} |-> GroupRow(nextRelay, 0)])
  /\ nextRelay' = nextRelay + 1
  /\ nextGroup' = nextGroup + 1
  /\ UNCHANGED <<channels, members, nextMember, req, raced>>

\* ON DELETE CASCADE takes groups and memberships along.
DeleteRelay(r) ==
  /\ r \in relays
  /\ relays' = relays \ {r}
  /\ groups' = Remove(groups, GroupsOf(r))
  /\ members' = Remove(members, MembersOf(r))
  /\ raced' = raced \ {r}
  /\ UNCHANGED <<channels, seqVars, req>>

AddMembership(r, g, c, order) ==
  LET ord == IF order = None
               THEN NextOrd(members, {m \in DOMAIN members : members[m].group = g})
               ELSE order IN
  /\ nextMember <= MaxMembers
  /\ ValidInput(r, g, c)
  /\ ChannelFree(r, c, nextMember)
  /\ members' = Renumber(Insert(members, [m \in {nextMember} |-> MemberRow(r, g, c, 0, ord)]), groups, r)
  /\ nextMember' = nextMember + 1
  /\ raced' = raced \ {r}
  /\ UNCHANGED <<channels, relays, groups, nextRelay, nextGroup, req>>

\* Mutant: the lineup is not renumbered.
DeleteMembershipOnly(m) ==
  /\ m \in DOMAIN members
  /\ members' = Remove(members, {m})
  /\ raced' = raced \ {members[m].relay}
  /\ UNCHANGED <<channels, relays, groups, seqVars, req>>

DeleteMembership(m) ==
  /\ m \in DOMAIN members
  /\ members' = Renumber(Remove(members, {m}), groups, members[m].relay)
  /\ raced' = raced \ {members[m].relay}
  /\ UNCHANGED <<channels, relays, groups, seqVars, req>>

UpdateMembership(m, g, c, order) ==
  LET old == members[m]
      ord == IF order = None THEN old.ord ELSE order IN
  /\ m \in DOMAIN members
  /\ ValidInput(old.relay, g, c)
  /\ ChannelFree(old.relay, c, m)
  /\ members' = Renumber([members EXCEPT ![m] = MemberRow(old.relay, g, c, old.number, ord)],
                          groups, old.relay)
  /\ raced' = raced \ {old.relay}
  /\ UNCHANGED <<channels, relays, groups, seqVars, req>>

(***************************************************************************)
(* ImportRelay: a new relay with a group per title, in the order in which  *)
(* the titles appear, and a membership per entry; an empty group if there  *)
(* are no entries.  Unknown channels are created.                          *)
(***************************************************************************)
TitlesOf(entries) == {entries[i].title : i \in DOMAIN entries}

FirstOf(entries, title) ==
  CHOOSE i \in DOMAIN entries : entries[i].title = title /\ \A j \in 1..(i-1) : entries[j].title # title

\* ensureGroup: how many groups were created before the one of this title.
GroupOrd(entries, title) ==
  Cardinality({u \in TitlesOf(entries) \ {title} : FirstOf(entries, u) < FirstOf(entries, title)})

ImportRelay(entries) ==
  LET n == Cardinality(TitlesOf(entries))
      created == IF n = 0 THEN 1 ELSE n
      newGroups == [g \in nextGroup..(nextGroup + created - 1) |->
                      GroupRow(nextRelay, g - nextGroup)]
      Entry(m) == entries[m - nextMember + 1]
      newMembers == [m \in nextMember..(nextMember + Cardinality(DOMAIN entries) - 1) |->
        MemberRow(nextRelay, nextGroup + GroupOrd(entries, Entry(m).title), Entry(m).channel, 0,
                  Cardinality({k \in nextMember..(m-1) : Entry(k).title = Entry(m).title}))] IN
  /\ nextRelay <= MaxRelays
  /\ nextGroup + created - 1 <= MaxGroups
  /\ nextMember + Cardinality(DOMAIN entries) - 1 <= MaxMembers
  /\ \A i, j \in DOMAIN entries : i # j => entries[i].channel # entries[j].channel
  /\ relays' = relays \cup {nextRelay}
  /\ groups' = Insert(groups, newGroups)
  /\ members' = Renumber(Insert(members, newMembers), groups', nextRelay)
  /\ channels' = channels \cup {entries[i].channel : i \in DOMAIN entries}
  /\ nextRelay' = nextRelay + 1
  /\ nextGroup' = nextGroup + created
  /\ nextMember' = nextMember + Cardinality(DOMAIN entries)
  /\ UNCHANGED <<req, raced>>

-----------------------------------------------------------------------------
(***************************************************************************)
(* Requests that read in one statement and write in a later one            *)
(***************************************************************************)
Fails(t) ==
  /\ req' = [req EXCEPT ![t] = Idle]
  /\ UNCHANGED <<channels, relays, groups, members, seqVars, raced>>

\* CreateRelayGroup: the relay is looked up and MAX(sort_order) read ...
CreateGroupReads(t, r) ==
  /\ req[t] = Idle
  /\ r \in relays
  /\ req' = [req EXCEPT ![t] = [pc |-> "create", relay |-> r, ord |-> NextOrd(groups, GroupsOf(r))]]
  /\ UNCHANGED <<channels, relays, groups, members, seqVars, raced>>

\* ... and the row inserted; the foreign key refuses it when the relay is gone.
CreateRelayGroup(t) ==
  /\ req[t].pc = "create"
  /\ req[t].relay \in relays
  /\ nextGroup <= MaxGroups
  /\ groups' = Insert(groups, [g \in {nextGroup} |-> GroupRow(req[t].relay, req[t].ord)])
  /\ nextGroup' = nextGroup + 1
  /\ req' = [req EXCEPT ![t] = Idle]
  /\ UNCHANGED <<channels, relays, members, nextRelay, nextMember, raced>>

CreateGroupFails(t) ==
  /\ req[t].pc = "create"
  /\ req[t].relay \notin relays
  /\ Fails(t)

\* DeleteRelayGroup: the group's memberships are counted ...
DeleteGroupCounts(t, r, g) ==
  /\ req[t] = Idle
  /\ \A m \in MembersOf(r) : members[m].group # g
  /\ req' = [req EXCEPT ![t] = [pc |-> "delete", relay |-> r, group |-> g]]
  /\ UNCHANGED <<channels, relays, groups, members, seqVars, raced>>

\* ... and the row deleted, with any membership that came in between.
DeleteRelayGroup(t) ==
  LET r == req[t].relay
      g == req[t].group
      lost == {m \in DOMAIN members : members[m].group = g} IN
  /\ req[t].pc = "delete"
  /\ g \in GroupsOf(r)
  /\ groups' = Remove(groups, {g})
  /\ members' = Remove(members, lost)
  /\ raced' = IF lost = {} THEN raced ELSE raced \cup {r}
  /\ req' = [req EXCEPT ![t] = Idle]
  /\ UNCHANGED <<channels, relays, seqVars>>

DeleteGroupFails(t) ==
  /\ req[t].pc = "delete"
  /\ req[t].group \notin GroupsOf(req[t].relay)
  /\ Fails(t)

\* ReplaceRelayLayout: the relay's groups are listed, then its memberships ...
LayoutReadsGroups(t, r) ==
  /\ req[t] = Idle
  /\ r \in relays
  /\ req' = [req EXCEPT ![t] = [pc |-> "groups", relay |-> r, groups |-> GroupsOf(r)]]
  /\ UNCHANGED <<channels, relays, groups, members, seqVars, raced>>

LayoutReadsMembers(t) ==
  /\ req[t].pc = "groups"
  /\ req' = [req EXCEPT ![t] = [pc |-> "layout", relay |-> @.relay, groups |-> @.groups,
                                members |-> MembersOf(@.relay)]]
  /\ UNCHANGED <<channels, relays, groups, members, seqVars, raced>>

(***************************************************************************)
(* A layout that passes validation places each listed group and each       *)
(* listed membership once: gpos is the position of a group, group the      *)
(* group of a membership, no its position in the whole layout (channelNo). *)
(***************************************************************************)
Positions(ids, first) == Bijection(ids, first..(first + Cardinality(ids) - 1))

Layouts(gs, ms) ==
  {l \in [gpos : Positions(gs, 0), group : [ms -> gs], no : Positions(ms, 1)] :
     \A m, n \in ms : l.gpos[l.group[m]] < l.gpos[l.group[n]] => l.no[m] < l.no[n]}

\* The position of membership m within its group of layout l.
PosInGroup(l, m) == Cardinality({n \in DOMAIN l.group : l.group[n] = l.group[m] /\ l.no[n] < l.no[m]})

\* Mutant: foreign keys are not enforced.
LayoutIntoDeletedGroup(t, l) ==
  LET r == req[t].relay
      kept == req[t].members \cap MembersOf(r) IN
  /\ req[t].pc = "layout"
  /\ l \in Layouts(req[t].groups, req[t].members)
  /\ groups' = [g \in DOMAIN groups |->
       IF g \in req[t].groups \cap GroupsOf(r) THEN GroupRow(r, l.gpos[g]) ELSE groups[g]]
  /\ members' = [m \in DOMAIN members |->
       IF m \in kept
         THEN MemberRow(r, l.group[m], members[m].channel, l.no[m], PosInGroup(l, m))
         ELSE members[m]]
  /\ raced' = IF req[t].members = MembersOf(r) THEN raced \ {r} ELSE raced \cup {r}
  /\ req' = [req EXCEPT ![t] = Idle]
  /\ UNCHANGED <<channels, relays, seqVars>>

\* ... and the layout written, to the rows that are still there.  The foreign key
\* rolls it back when a group it fills has been deleted.
ReplaceRelayLayout(t, l) ==
  LET r == req[t].relay
      kept == req[t].members \cap MembersOf(r) IN
  /\ req[t].pc = "layout"
  /\ l \in Layouts(req[t].groups, req[t].members)
  /\ \A m \in kept : l.group[m] \in DOMAIN groups
  /\ groups' = [g \in DOMAIN groups |->
       IF g \in req[t].groups \cap GroupsOf(r) THEN GroupRow(r, l.gpos[g]) ELSE groups[g]]
  /\ members' = [m \in DOMAIN members |->
       IF m \in kept
         THEN MemberRow(r, l.group[m], members[m].channel, l.no[m], PosInGroup(l, m))
         ELSE members[m]]
  /\ raced' = IF req[t].members = MembersOf(r) THEN raced \ {r} ELSE raced \cup {r}
  /\ req' = [req EXCEPT ![t] = Idle]
  /\ UNCHANGED <<channels, relays, seqVars>>

\* The layout is refused (it is not one of Layouts) or rolled back.
LayoutFails(t) ==
  /\ req[t].pc = "layout"
  /\ Fails(t)

-----------------------------------------------------------------------------
Entries == UNION {[1..n -> [channel : Channels, title : Titles]] : n \in 0..MaxEntries}

Next ==
  \/ \E c \in Channels : CreateChannel(c) \/ DeleteChannel(c)
  \/ CreateRelay
  \/ \E r \in relays : DeleteRelay(r)
  \/ \E r \in relays, c \in channels, o \in SortOrders \cup {None} :
       \E g \in GroupsOf(r) : AddMembership(r, g, c, o)
  \/ \E m \in DOMAIN members, g \in DOMAIN groups, c \in channels, o \in SortOrders \cup {None} :
       UpdateMembership(m, g, c, o)
  \/ \E m \in DOMAIN members : DeleteMembership(m)
  \/ \E entries \in Entries : ImportRelay(entries)
  \/ \E t \in Threads, r \in relays : CreateGroupReads(t, r) \/ LayoutReadsGroups(t, r)
  \/ \E t \in Threads, r \in relays : \E g \in GroupsOf(r) : DeleteGroupCounts(t, r, g)
  \/ \E t \in Threads :
       \/ CreateRelayGroup(t) \/ CreateGroupFails(t)
       \/ DeleteRelayGroup(t) \/ DeleteGroupFails(t)
       \/ LayoutReadsMembers(t) \/ LayoutFails(t)
       \/ req[t].pc = "layout" /\ \E l \in Layouts(req[t].groups, req[t].members) : ReplaceRelayLayout(t, l)

Spec == Init /\ [][Next]_vars

-----------------------------------------------------------------------------
(***************************************************************************)
(* Properties                                                              *)
(***************************************************************************)
Ids(next) == 1..(next - 1)

Requests ==
  {Idle}
  \cup [pc : {"create"}, relay : Ids(nextRelay), ord : Int]
  \cup [pc : {"delete"}, relay : Ids(nextRelay), group : Ids(nextGroup)]
  \cup [pc : {"groups"}, relay : Ids(nextRelay), groups : SUBSET Ids(nextGroup)]
  \cup [pc : {"layout"}, relay : Ids(nextRelay), groups : SUBSET Ids(nextGroup),
        members : SUBSET Ids(nextMember)]

TypeOK ==
  /\ {nextRelay, nextGroup, nextMember} \subseteq Nat \ {0}
  /\ channels \subseteq Channels
  /\ relays \cup raced \subseteq Ids(nextRelay)
  /\ DOMAIN groups \subseteq Ids(nextGroup)
  /\ groups \in [DOMAIN groups -> [relay : relays, ord : Int]]
  /\ DOMAIN members \subseteq Ids(nextMember)
  /\ members \in [DOMAIN members -> [relay : relays, group : Ids(nextGroup), channel : channels,
                                     number : Nat, ord : Int]]
  /\ req \in [Threads -> Requests]

\* A membership is always in a group of its own relay: not even a layout made
\* from groups that were listed before the transaction, and since deleted or
\* refilled, puts a channel of one relay into nowhere or into another relay.
MembersInOwnGroups == \A m \in DOMAIN members : members[m].group \in GroupsOf(members[m].relay)

\* "Channel numbers follow lineup order": the memberships of a relay are numbered
\* 1..n in the order of its playlist.  The exception is a relay whose memberships
\* changed between the reads and the transaction of ReplaceRelayLayout, or came
\* into a group while DeleteRelayGroup was deleting it; there the next
\* membership request, or the next layout, puts the numbers right.
NumbersFollowLineup ==
  \A m \in DOMAIN members :
    members[m].relay \notin raced => members[m].number = Place(members, groups, m)

(***************************************************************************)
(* The inductive invariant behind MembersInOwnGroups: ids are never reused *)
(* (AUTOINCREMENT), so that a group a layout has listed is still a group   *)
(* of its relay, or gone.                                                  *)
(***************************************************************************)
LayoutInv ==
  /\ {nextGroup, nextMember} \subseteq Nat \ {0}
  /\ DOMAIN groups \subseteq Ids(nextGroup)
  /\ DOMAIN members \subseteq Ids(nextMember)
  /\ req = [t \in Threads |-> req[t]]
  /\ \A t \in Threads :
       req[t].pc \in {"groups", "layout"} =>
         \A g \in req[t].groups :
           /\ g \in Ids(nextGroup)
           /\ g \in DOMAIN groups => groups[g].relay = req[t].relay
  /\ MembersInOwnGroups

=============================================================================
