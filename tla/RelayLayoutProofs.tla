------------------------- MODULE RelayLayoutProofs -------------------------
(***************************************************************************)
(* Proofs about RelayLayout, for any number of relays, groups, memberships *)
(* and concurrent requests.                                                *)
(***************************************************************************)
EXTENDS RelayLayout, FiniteSetTheorems, TLAPS

\* Renumbering a relay changes no row's relay or group, and no set of rows.
LEMMA RenumberKeeps ==
  ASSUME NEW ms, NEW gs, NEW r
  PROVE  /\ DOMAIN Renumber(ms, gs, r) = DOMAIN ms
         /\ \A m \in DOMAIN ms : /\ Renumber(ms, gs, r)[m].relay = ms[m].relay
                                 /\ Renumber(ms, gs, r)[m].group = ms[m].group
BY DEF Renumber, MemberRow

\* The group of an imported entry is one of those the import creates.
LEMMA ImportGroup ==
  ASSUME NEW entries, IsFiniteSet(TitlesOf(entries)), NEW title \in TitlesOf(entries)
  PROVE  /\ Cardinality(TitlesOf(entries)) \in Nat \ {0}
         /\ GroupOrd(entries, title) \in 0..(Cardinality(TitlesOf(entries)) - 1)
<1> DEFINE T == TitlesOf(entries)
           S == {u \in T \ {title} : FirstOf(entries, u) < FirstOf(entries, title)}
<1>1. IsFiniteSet(T \ {title}) /\ Cardinality(T \ {title}) = Cardinality(T) - 1
  BY FS_RemoveElement
<1>2. Cardinality(T) \in Nat /\ Cardinality(T \ {title}) \in Nat
  BY <1>1, FS_CardinalityType
<1>3. IsFiniteSet(S) /\ Cardinality(S) <= Cardinality(T \ {title})
  BY <1>1, FS_Subset, S \subseteq T \ {title}
<1>4. Cardinality(S) \in Nat
  BY <1>3, FS_CardinalityType
<1>5. GroupOrd(entries, title) = Cardinality(S)
  BY DEF GroupOrd
<1> QED BY <1>1, <1>2, <1>3, <1>4, <1>5

\* The titles of a playlist of finitely many entries are finitely many.
LEMMA TitlesFinite ==
  ASSUME NEW entries \in Entries
  PROVE  /\ IsFiniteSet(TitlesOf(entries))
         /\ IsFiniteSet(DOMAIN entries)
         /\ \E n \in Nat : DOMAIN entries = 1..n /\ Cardinality(DOMAIN entries) = n
<1>1. PICK n \in 0..MaxEntries : entries \in [1..n -> [channel : Channels, title : Titles]]
  BY DEF Entries
<1>2. n \in Nat /\ DOMAIN entries = 1..n
  BY <1>1, LayoutAssumption
<1>3. IsFiniteSet(1..n) /\ Cardinality(1..n) = n
  BY <1>2, FS_Interval
<1>4. TitlesOf(entries) = {entries[i].title : i \in 1..n}
  BY <1>2 DEF TitlesOf
<1>5. IsFiniteSet({entries[i].title : i \in 1..n})
  <2> DEFINE f == [i \in 1..n |-> entries[i].title]
             T == {entries[i].title : i \in 1..n}
  <2>1. f \in Surjection(1..n, T)
    BY DEF Surjection
  <2> QED BY <2>1, <1>3, FS_Surjection
<1> QED BY <1>2, <1>3, <1>4, <1>5

-----------------------------------------------------------------------------
USE DEF Ids, Insert, Remove, Restrict, GroupRow, MemberRow, GroupsOf, MembersOf, Idle

\* After a renumbering, memberships are in their own groups if they were before it.
LEMMA RenumberedInOwnGroups ==
  ASSUME NEW ms, NEW r,
         members' = Renumber(ms, groups', r),
         \A m \in DOMAIN ms : ms[m].group \in GroupsOf(ms[m].relay)'
  PROVE  DOMAIN members' = DOMAIN ms /\ MembersInOwnGroups'
<1> DEFINE new == Renumber(ms, groups', r)
<1>1. /\ DOMAIN new = DOMAIN ms
      /\ \A m \in DOMAIN ms : new[m].relay = ms[m].relay /\ new[m].group = ms[m].group
  BY RenumberKeeps
<1> HIDE DEF new
<1>2. members' = new
  BY DEF new
<1> QED BY <1>1, <1>2 DEF MembersInOwnGroups

LEMMA InitLayoutInv == Init => LayoutInv
BY DEF Init, LayoutInv, MembersInOwnGroups

\* Requests that touch neither groups nor memberships.
LEMMA ReadsLayoutInv ==
  ASSUME LayoutInv, NEW t \in Threads
  PROVE  /\ \A r : CreateGroupReads(t, r) => LayoutInv'
         /\ \A r : LayoutReadsGroups(t, r) => LayoutInv'
         /\ \A r, g : DeleteGroupCounts(t, r, g) => LayoutInv'
         /\ LayoutReadsMembers(t) => LayoutInv'
         /\ Fails(t) => LayoutInv'
<1>1. ASSUME NEW r, CreateGroupReads(t, r) PROVE LayoutInv'
  BY <1>1, LayoutInv DEF CreateGroupReads, LayoutInv, MembersInOwnGroups, seqVars
<1>2. ASSUME NEW r, LayoutReadsGroups(t, r) PROVE LayoutInv'
  BY <1>2, LayoutInv DEF LayoutReadsGroups, LayoutInv, MembersInOwnGroups, seqVars
<1>3. ASSUME NEW r, NEW g, DeleteGroupCounts(t, r, g) PROVE LayoutInv'
  BY <1>3, LayoutInv DEF DeleteGroupCounts, LayoutInv, MembersInOwnGroups, seqVars
<1>4. ASSUME LayoutReadsMembers(t) PROVE LayoutInv'
  BY <1>4, LayoutInv DEF LayoutReadsMembers, LayoutInv, MembersInOwnGroups, seqVars
<1>5. ASSUME Fails(t) PROVE LayoutInv'
  BY <1>5, LayoutInv DEF Fails, LayoutInv, MembersInOwnGroups, seqVars
<1> QED BY <1>1, <1>2, <1>3, <1>4, <1>5

\* Requests that add rows: the new ids are above all that are in use or listed.
LEMMA CreateLayoutInv ==
  ASSUME LayoutInv
  PROVE  /\ \A c : CreateChannel(c) \/ DeleteChannel(c) => LayoutInv'
         /\ CreateRelay => LayoutInv'
         /\ \A t \in Threads : CreateRelayGroup(t) => LayoutInv'
         /\ \A r, g, c, o : AddMembership(r, g, c, o) => LayoutInv'
<1>1. ASSUME NEW c, CreateChannel(c) \/ DeleteChannel(c) PROVE LayoutInv'
  BY <1>1, LayoutInv DEF CreateChannel, DeleteChannel, LayoutInv, MembersInOwnGroups, seqVars
<1>2. ASSUME CreateRelay PROVE LayoutInv'
  BY <1>2, LayoutInv DEF CreateRelay, LayoutInv, MembersInOwnGroups
<1>3. ASSUME NEW t \in Threads, CreateRelayGroup(t) PROVE LayoutInv'
  BY <1>3, LayoutInv DEF CreateRelayGroup, LayoutInv, MembersInOwnGroups
<1>4. ASSUME NEW r, NEW g, NEW c, NEW o, AddMembership(r, g, c, o) PROVE LayoutInv'
  <2> DEFINE ord == IF o = None THEN NextOrd(members, {m \in DOMAIN members : members[m].group = g}) ELSE o
             ms == Insert(members, [m \in {nextMember} |-> MemberRow(r, g, c, 0, ord)])
  <2>1. members' = Renumber(ms, groups, r) /\ g \in GroupsOf(r)
    BY <1>4 DEF AddMembership, ValidInput
  <2>2. DOMAIN ms = DOMAIN members \cup {nextMember}
    OBVIOUS
  <2>3. \A m \in DOMAIN ms : ms[m].group \in GroupsOf(ms[m].relay)
    BY <2>1, LayoutInv DEF LayoutInv, MembersInOwnGroups
  <2>4. /\ groups' = groups /\ nextGroup' = nextGroup /\ req' = req
        /\ nextMember' = nextMember + 1
    BY <1>4 DEF AddMembership
  <2> HIDE DEF ms
  <2>5. DOMAIN members' = DOMAIN members \cup {nextMember} /\ MembersInOwnGroups'
    BY <2>1, <2>2, <2>3, <2>4, RenumberedInOwnGroups
  <2> QED BY <2>4, <2>5, LayoutInv DEF LayoutInv
<1> QED BY <1>1, <1>2, <1>3, <1>4

\* Requests that delete rows, with what cascades.
LEMMA DeleteLayoutInv ==
  ASSUME LayoutInv
  PROVE  /\ \A r : DeleteRelay(r) => LayoutInv'
         /\ \A t \in Threads : DeleteRelayGroup(t) => LayoutInv'
         /\ \A m : DeleteMembership(m) => LayoutInv'
<1>1. ASSUME NEW r, DeleteRelay(r) PROVE LayoutInv'
  BY <1>1, LayoutInv DEF DeleteRelay, LayoutInv, MembersInOwnGroups, seqVars
<1>2. ASSUME NEW t \in Threads, DeleteRelayGroup(t) PROVE LayoutInv'
  BY <1>2, LayoutInv DEF DeleteRelayGroup, LayoutInv, MembersInOwnGroups, seqVars
<1>3. ASSUME NEW m, DeleteMembership(m) PROVE LayoutInv'
  <2> DEFINE ms == Remove(members, {m})
  <2>1. members' = Renumber(ms, groups, members[m].relay)
    BY <1>3 DEF DeleteMembership
  <2>2. /\ DOMAIN ms \subseteq DOMAIN members
        /\ \A n \in DOMAIN ms : ms[n].group \in GroupsOf(ms[n].relay)
    BY LayoutInv DEF LayoutInv, MembersInOwnGroups
  <2>3. groups' = groups /\ nextGroup' = nextGroup /\ nextMember' = nextMember /\ req' = req
    BY <1>3 DEF DeleteMembership, seqVars
  <2> HIDE DEF ms
  <2>4. DOMAIN members' \subseteq DOMAIN members /\ MembersInOwnGroups'
    BY <2>1, <2>2, <2>3, RenumberedInOwnGroups
  <2> QED BY <2>3, <2>4, LayoutInv DEF LayoutInv
<1> QED BY <1>1, <1>2, <1>3

\* Requests that move memberships.  The foreign key and the listed groups keep a
\* layout within its relay.
LEMMA MoveLayoutInv ==
  ASSUME LayoutInv
  PROVE  /\ \A m, g, c, o : UpdateMembership(m, g, c, o) => LayoutInv'
         /\ \A t \in Threads : \A l : ReplaceRelayLayout(t, l) => LayoutInv'
<1>1. ASSUME NEW m, NEW g, NEW c, NEW o, UpdateMembership(m, g, c, o) PROVE LayoutInv'
  <2> DEFINE r == members[m].relay
             ord == IF o = None THEN members[m].ord ELSE o
             ms == [members EXCEPT ![m] = MemberRow(r, g, c, members[m].number, ord)]
  <2>1. members' = Renumber(ms, groups, r) /\ g \in GroupsOf(r)
    BY <1>1 DEF UpdateMembership, ValidInput
  <2>2. /\ DOMAIN ms = DOMAIN members
        /\ \A n \in DOMAIN ms : ms[n].group \in GroupsOf(ms[n].relay)
    BY <2>1, LayoutInv DEF LayoutInv, MembersInOwnGroups
  <2>3. groups' = groups /\ nextGroup' = nextGroup /\ nextMember' = nextMember /\ req' = req
    BY <1>1 DEF UpdateMembership, seqVars
  <2> HIDE DEF ms
  <2>4. DOMAIN members' = DOMAIN members /\ MembersInOwnGroups'
    BY <2>1, <2>2, <2>3, RenumberedInOwnGroups
  <2> QED BY <2>3, <2>4, LayoutInv DEF LayoutInv
<1>2. ASSUME NEW t \in Threads, NEW l, ReplaceRelayLayout(t, l) PROVE LayoutInv'
  <2> DEFINE r == req[t].relay
             kept == req[t].members \cap MembersOf(r)
  <2>1. /\ l.group \in [req[t].members -> req[t].groups]
        /\ \A m \in kept : l.group[m] \in DOMAIN groups
    BY <1>2 DEF ReplaceRelayLayout, Layouts
  <2>2. \A m \in kept : l.group[m] \in GroupsOf(r)
    BY <2>1, <1>2, LayoutInv DEF LayoutInv, ReplaceRelayLayout
  <2>3. /\ DOMAIN groups' = DOMAIN groups
        /\ \A g \in DOMAIN groups : groups'[g].relay = groups[g].relay
        /\ DOMAIN members' = DOMAIN members
        /\ \A m \in DOMAIN members : members'[m].relay = members[m].relay
    BY <1>2 DEF ReplaceRelayLayout
  <2>4. \A m \in DOMAIN members : members'[m].group = IF m \in kept THEN l.group[m] ELSE members[m].group
    BY <1>2 DEF ReplaceRelayLayout
  <2>5. MembersInOwnGroups'
    BY <2>2, <2>3, <2>4, LayoutInv DEF LayoutInv, MembersInOwnGroups
  <2> QED BY <1>2, <2>3, <2>5, LayoutInv DEF ReplaceRelayLayout, LayoutInv, seqVars
<1> QED BY <1>1, <1>2

LEMMA ImportLayoutInv ==
  ASSUME LayoutInv, NEW entries \in Entries, ImportRelay(entries)
  PROVE  LayoutInv'
<1> DEFINE n == Cardinality(TitlesOf(entries))
           created == IF n = 0 THEN 1 ELSE n
           newGroups == [g \in nextGroup..(nextGroup + created - 1) |->
                           GroupRow(nextRelay, g - nextGroup)]
           Entry(m) == entries[m - nextMember + 1]
           Ord(m) == Cardinality({k \in nextMember..(m-1) : Entry(k).title = Entry(m).title})
           newMembers == [m \in nextMember..(nextMember + Cardinality(DOMAIN entries) - 1) |->
             MemberRow(nextRelay, nextGroup + GroupOrd(entries, Entry(m).title), Entry(m).channel, 0, Ord(m))]
           ms == Insert(members, newMembers)
<1>1. /\ groups' = Insert(groups, newGroups)
      /\ members' = Renumber(ms, groups', nextRelay)
      /\ nextGroup' = nextGroup + created
      /\ nextMember' = nextMember + Cardinality(DOMAIN entries)
      /\ req' = req
  BY DEF ImportRelay
<1>2. PICK k \in Nat : DOMAIN entries = 1..k /\ Cardinality(DOMAIN entries) = k
  BY TitlesFinite
<1>3. n \in Nat /\ created \in Nat \ {0}
  BY TitlesFinite, FS_CardinalityType
<1>4. nextGroup \in Nat \ {0} /\ nextMember \in Nat \ {0}
  BY LayoutInv DEF LayoutInv
<1>5. \A m \in DOMAIN newMembers : newMembers[m].group \in DOMAIN newGroups
  <2> TAKE m \in DOMAIN newMembers
  <2>1. m - nextMember + 1 \in DOMAIN entries
    BY <1>2, <1>4
  <2>2. Entry(m).title \in TitlesOf(entries)
    BY <2>1 DEF TitlesOf
  <2>3. n # 0 /\ GroupOrd(entries, Entry(m).title) \in 0..(n - 1)
    BY <2>2, TitlesFinite, ImportGroup
  <2>4. newMembers[m].group = nextGroup + GroupOrd(entries, Entry(m).title)
    OBVIOUS
  <2> QED BY <2>3, <2>4, <1>3, <1>4
<1>6. /\ DOMAIN groups' = DOMAIN groups \cup DOMAIN newGroups
      /\ \A g \in DOMAIN groups : groups'[g].relay = groups[g].relay
      /\ \A g \in DOMAIN newGroups : g \notin DOMAIN groups /\ groups'[g].relay = nextRelay
  BY <1>1, <1>3, <1>4, LayoutInv DEF LayoutInv
<1>7. /\ DOMAIN ms = DOMAIN members \cup DOMAIN newMembers
      /\ \A m \in DOMAIN ms : ms[m].group \in DOMAIN groups' /\ groups'[ms[m].group].relay = ms[m].relay
  <2>1. \A m \in DOMAIN newMembers : newMembers[m].relay = nextRelay
    OBVIOUS
  <2>2. \A m \in DOMAIN members : members[m].group \in DOMAIN groups /\ groups[members[m].group].relay = members[m].relay
    BY LayoutInv DEF LayoutInv, MembersInOwnGroups
  <2> HIDE DEF newMembers, newGroups
  <2> QED BY <2>1, <2>2, <1>5, <1>6
<1>8. /\ DOMAIN members' = DOMAIN ms
      /\ MembersInOwnGroups'
  <2> HIDE DEF ms
  <2> QED BY <1>1, <1>7, RenumberedInOwnGroups
<1>9. /\ DOMAIN newGroups = nextGroup..(nextGroup + created - 1)
      /\ DOMAIN newMembers = nextMember..(nextMember + Cardinality(DOMAIN entries) - 1)
  OBVIOUS
<1>10. /\ {nextGroup', nextMember'} \subseteq Nat \ {0}
       /\ DOMAIN groups' \subseteq Ids(nextGroup')
       /\ DOMAIN members' \subseteq Ids(nextMember')
  <2>1. nextGroup' = nextGroup + created /\ nextMember' = nextMember + Cardinality(DOMAIN entries)
    BY <1>1
  <2>2. DOMAIN groups \subseteq Ids(nextGroup) /\ DOMAIN members \subseteq Ids(nextMember)
    BY LayoutInv DEF LayoutInv
  <2>3. DOMAIN groups' = DOMAIN groups \cup nextGroup..(nextGroup + created - 1)
    BY <1>6, <1>9
  <2>4. DOMAIN members' = DOMAIN members \cup nextMember..(nextMember + Cardinality(DOMAIN entries) - 1)
    BY <1>7, <1>8, <1>9
  <2> HIDE DEF created
  <2> QED BY <1>2, <1>3, <1>4, <2>1, <2>2, <2>3, <2>4
<1>11. \A t \in Threads : req'[t].pc \in {"groups", "layout"} =>
         \A g \in req'[t].groups :
           g \in Ids(nextGroup') /\ (g \in DOMAIN groups' => groups'[g].relay = req'[t].relay)
  <2> HIDE DEF newGroups, created
  <2> QED BY <1>1, <1>3, <1>4, <1>6, <1>9, LayoutInv DEF LayoutInv
<1> QED BY <1>1, <1>8, <1>10, <1>11, LayoutInv DEF LayoutInv

\* Every step keeps the invariant.
LEMMA NextLayoutInv == LayoutInv /\ [Next]_vars => LayoutInv'
<1> SUFFICES ASSUME LayoutInv, [Next]_vars PROVE LayoutInv'
  OBVIOUS
<1>1. CASE UNCHANGED vars
  BY <1>1, LayoutInv DEF vars, seqVars, LayoutInv, MembersInOwnGroups
<1>2. CASE Next
  BY <1>2, LayoutInv, ReadsLayoutInv, CreateLayoutInv, DeleteLayoutInv, MoveLayoutInv, ImportLayoutInv
     DEF Next, CreateGroupFails, DeleteGroupFails, LayoutFails
<1> QED BY <1>1, <1>2

\* A membership is always in a group of its own relay, however layouts, group
\* deletions, imports and membership requests interleave.
THEOREM MembersStayInRelay == Spec => []MembersInOwnGroups
<1>1. LayoutInv => MembersInOwnGroups
  BY DEF LayoutInv
<1> QED BY <1>1, InitLayoutInv, NextLayoutInv, PTL DEF Spec


-----------------------------------------------------------------------------
(***************************************************************************)
(* Sets of ids are finite, and finite sets of integers have a maximum.     *)
(***************************************************************************)
LEMMA IdsFinite ==
  ASSUME NEW n \in Nat \ {0}, NEW S \in SUBSET Ids(n)
  PROVE  IsFiniteSet(S) /\ Cardinality(S) \in Nat
<1>1. PICK b \in Int : b = n - 1
  OBVIOUS
<1>2. IsFiniteSet(1 .. b)
  BY FS_Interval
<1>3. S \in SUBSET (1 .. b)
  BY <1>1
<1> QED BY <1>2, <1>3, FS_Subset, FS_CardinalityType

LEMMA LeastNat ==
  ASSUME NEW T \in SUBSET Nat, T # {}
  PROVE  \E x \in T : \A y \in T : x <= y
<1> DEFINE R == OpToRel(<, Nat)
<1>1. IsWellFoundedOn(R, Nat)
  BY NatLessThanWellFounded
<1>2. \A x, y \in Nat : y < x => <<y, x>> \in R
  BY DEF OpToRel
<1>3. PICK x \in T : \A y \in T : ~(<<y, x>> \in R)
  <2> HIDE DEF R
  <2> QED BY <1>1, WFMin
<1>4. ASSUME NEW y \in T PROVE x <= y
  <2>1. x \in Nat /\ y \in Nat /\ ~(y < x)
    BY <1>2, <1>3 DEF R
  <2> QED BY <2>1
<1> QED BY <1>4

\* The greatest element is the one with the fewest greater ones.
LEMMA GreatestInt ==
  ASSUME NEW S \in SUBSET Int, S # {}, IsFiniteSet(S)
  PROVE  \E x \in S : \A y \in S : y <= x
<1> DEFINE Above(x) == {y \in S : y > x}
           T == {Cardinality(Above(x)) : x \in S}
<1>1. ASSUME NEW x \in S PROVE IsFiniteSet(Above(x)) /\ Cardinality(Above(x)) \in Nat
  BY FS_Subset, FS_CardinalityType, Above(x) \in SUBSET S
<1>2. T \in SUBSET Nat /\ T # {}
  BY <1>1
<1>3. PICK k \in T : \A j \in T : k <= j
  <2> HIDE DEF T
  <2> QED BY <1>2, LeastNat
<1>4. PICK x \in S : k = Cardinality(Above(x))
  OBVIOUS
<1>5. ASSUME NEW y \in S, ~(y <= x) PROVE FALSE
  <2>1. Above(y) \in SUBSET Above(x) /\ y \in Above(x) /\ y \notin Above(y)
    <3>1. x \in Int /\ y \in Int /\ y > x
      BY <1>5
    <3>2. \A z \in S : z > y => z > x
      BY <3>1
    <3>3. y \in Above(x)
      BY <3>1
    <3>4. y \notin Above(y)
      BY <3>1
    <3>5. \A z \in Above(y) : z \in Above(x)
      BY <3>2, Zenon
    <3> QED BY <3>3, <3>4, <3>5, Zenon
  <2>2. Cardinality(Above(y)) \in T
    OBVIOUS
  <2> HIDE DEF Above, T
  <2>3. Cardinality(Above(y)) <= Cardinality(Above(x)) /\ Cardinality(Above(y)) # Cardinality(Above(x))
    BY <1>1, <2>1, FS_Subset
  <2>4. Cardinality(Above(x)) <= Cardinality(Above(y))
    BY <1>3, <1>4, <2>2
  <2> QED BY <1>1, <2>3, <2>4
<1> QED BY <1>5

LEMMA NextOrdInt ==
  ASSUME NEW table, NEW ids, IsFiniteSet(ids), \A i \in ids : table[i].ord \in Int
  PROVE  NextOrd(table, ids) \in Int
<1> DEFINE S == {table[i].ord : i \in ids}
           f == [i \in ids |-> table[i].ord]
<1>1. CASE ids = {}
  BY <1>1 DEF NextOrd
<1>2. CASE ids # {}
  <2>1. f \in Surjection(ids, S)
    BY DEF Surjection
  <2>2. IsFiniteSet(S)
    <3> HIDE DEF f, S
    <3> QED BY <2>1, FS_Surjection
  <2>3. S \in SUBSET Int /\ S # {}
    BY <1>2
  <2>4. \E x \in S : \A y \in S : y <= x
    <3> HIDE DEF S
    <3> QED BY <2>2, <2>3, GreatestInt
  <2>5. \E o \in S : \A i \in ids : table[i].ord <= o
    BY <2>4
  <2>6. (CHOOSE o \in S : \A i \in ids : table[i].ord <= o) \in Int
    BY <2>3, <2>5
  <2> QED BY <1>2, <2>6 DEF NextOrd
<1> QED BY <1>1, <1>2

-----------------------------------------------------------------------------
(***************************************************************************)
(* Places in a lineup.                                                     *)
(***************************************************************************)
LEMMA PlaceNat ==
  ASSUME NEW ms, NEW gs, NEW m, IsFiniteSet(DOMAIN ms)
  PROVE  Place(ms, gs, m) \in Nat \ {0}
<1> DEFINE S == {n \in DOMAIN ms : ms[n].relay = ms[m].relay /\ Before(ms, gs, n, m)}
<1>1. S \in SUBSET DOMAIN ms
  OBVIOUS
<1>2. Cardinality(S) \in Nat
  <2> HIDE DEF S
  <2> QED BY <1>1, FS_Subset, FS_CardinalityType
<1> QED BY <1>2 DEF Place

\* The rows of relay q, and the order of their groups, are the same.
SameLineup(ms, gs, ms2, gs2, q) ==
  /\ \A n \in DOMAIN ms : ms[n].relay = q =>
       /\ n \in DOMAIN ms2
       /\ ms2[n].relay = q /\ ms2[n].group = ms[n].group /\ ms2[n].ord = ms[n].ord
       /\ gs2[ms[n].group].ord = gs[ms[n].group].ord
  /\ \A n \in DOMAIN ms2 : ms2[n].relay = q => n \in DOMAIN ms /\ ms[n].relay = q

LEMMA SamePlace ==
  ASSUME NEW ms, NEW gs, NEW ms2, NEW gs2, NEW m \in DOMAIN ms,
         SameLineup(ms, gs, ms2, gs2, ms[m].relay)
  PROVE  Place(ms2, gs2, m) = Place(ms, gs, m)
<1> DEFINE q == ms[m].relay
           A == {n \in DOMAIN ms : ms[n].relay = ms[m].relay /\ Before(ms, gs, n, m)}
           B == {n \in DOMAIN ms2 : ms2[n].relay = ms2[m].relay /\ Before(ms2, gs2, n, m)}
<1>1. m \in DOMAIN ms2 /\ ms2[m].relay = q
  BY DEF SameLineup
<1>2. ASSUME NEW n \in DOMAIN ms, ms[n].relay = q
      PROVE  Before(ms2, gs2, n, m) <=> Before(ms, gs, n, m)
  <2>1. /\ ms2[n].group = ms[n].group /\ ms2[n].ord = ms[n].ord
        /\ ms2[m].group = ms[m].group /\ ms2[m].ord = ms[m].ord
        /\ gs2[ms[n].group].ord = gs[ms[n].group].ord
        /\ gs2[ms[m].group].ord = gs[ms[m].group].ord
    BY <1>2 DEF SameLineup
  <2> QED BY <2>1, Zenon DEF Before
<1>3. A = B
  <2>1. ASSUME NEW n \in A PROVE n \in B
    BY <1>1, <1>2, <2>1 DEF SameLineup
  <2>2. ASSUME NEW n \in B PROVE n \in A
    BY <1>1, <1>2, <2>2 DEF SameLineup
  <2> QED BY <2>1, <2>2
<1>4. Place(ms, gs, m) = 1 + Cardinality(A) /\ Place(ms2, gs2, m) = 1 + Cardinality(B)
  BY DEF Place
<1> HIDE DEF A, B
<1> QED BY <1>3, <1>4

\* Renumbering changes no place, and gives the memberships of the relay theirs.
LEMMA RenumberNumbers ==
  ASSUME NEW ms, NEW gs, NEW r, NEW m \in DOMAIN ms
  PROVE  /\ Place(Renumber(ms, gs, r), gs, m) = Place(ms, gs, m)
         /\ Renumber(ms, gs, r)[m].number = IF ms[m].relay = r THEN Place(ms, gs, m) ELSE ms[m].number
<1>1. SameLineup(ms, gs, Renumber(ms, gs, r), gs, ms[m].relay)
  <2>1. /\ DOMAIN Renumber(ms, gs, r) = DOMAIN ms
        /\ \A n \in DOMAIN ms : /\ Renumber(ms, gs, r)[n].relay = ms[n].relay
                                /\ Renumber(ms, gs, r)[n].group = ms[n].group
                                /\ Renumber(ms, gs, r)[n].ord = ms[n].ord
    BY DEF Renumber
  <2> QED BY <2>1 DEF SameLineup
<1>2. Place(Renumber(ms, gs, r), gs, m) = Place(ms, gs, m)
  BY <1>1, SamePlace
<1> QED BY <1>2 DEF Renumber


-----------------------------------------------------------------------------
(***************************************************************************)
(* The rows a layout writes are in the order of its numbers.               *)
(***************************************************************************)
LEMMA LayoutFields ==
  ASSUME NEW gs, NEW ms, IsFiniteSet(gs), IsFiniteSet(ms), NEW l \in Layouts(gs, ms)
  PROVE  /\ l.group \in [ms -> gs] /\ DOMAIN l.group = ms
         /\ \A g \in gs : l.gpos[g] \in Nat
         /\ \A g, h \in gs : l.gpos[g] = l.gpos[h] => g = h
         /\ l.no \in [ms -> 1 .. Cardinality(ms)]
         /\ \A m \in ms : l.no[m] \in Nat \ {0}
         /\ \A m, n \in ms : l.no[m] = l.no[n] => m = n
         /\ \A k \in 1 .. Cardinality(ms) : \E m \in ms : l.no[m] = k
         /\ \A m, n \in ms : l.gpos[l.group[m]] < l.gpos[l.group[n]] => l.no[m] < l.no[n]
<1>1. /\ l.gpos \in Bijection(gs, 0 .. (0 + Cardinality(gs) - 1))
      /\ l.no \in Bijection(ms, 1 .. (1 + Cardinality(ms) - 1))
      /\ l.group \in [ms -> gs]
      /\ \A m, n \in ms : l.gpos[l.group[m]] < l.gpos[l.group[n]] => l.no[m] < l.no[n]
  BY DEF Layouts, Positions
<1>2. Cardinality(gs) \in Nat /\ Cardinality(ms) \in Nat
  BY FS_CardinalityType
<1>3. 1 .. (1 + Cardinality(ms) - 1) = 1 .. Cardinality(ms)
  BY <1>2
<1>4. /\ l.gpos \in [gs -> 0 .. (0 + Cardinality(gs) - 1)]
      /\ \A g, h \in gs : l.gpos[g] = l.gpos[h] => g = h
  BY <1>1 DEF Bijection, Injection, IsInjective
<1>5. /\ l.no \in [ms -> 1 .. Cardinality(ms)]
      /\ \A m, n \in ms : l.no[m] = l.no[n] => m = n
      /\ \A k \in 1 .. Cardinality(ms) : \E m \in ms : l.no[m] = k
  BY <1>1, <1>3 DEF Bijection, Injection, Surjection, IsInjective
<1>6. \A g \in gs : l.gpos[g] \in Nat
  BY <1>2, <1>4
<1>7. \A m \in ms : l.no[m] \in Nat \ {0}
  BY <1>2, <1>5
<1> QED BY <1>1, <1>4, <1>5, <1>6, <1>7

\* Within a group the positions are in the order of the numbers.
LEMMA PosInGroupOrder ==
  ASSUME NEW gs, NEW ms, IsFiniteSet(gs), IsFiniteSet(ms), NEW l \in Layouts(gs, ms),
         NEW m \in ms, NEW n \in ms
  PROVE  /\ PosInGroup(l, m) \in Nat
         /\ l.group[n] = l.group[m] /\ l.no[n] < l.no[m] => PosInGroup(l, n) < PosInGroup(l, m)
<1> DEFINE P(k) == {j \in ms : l.group[j] = l.group[k] /\ l.no[j] < l.no[k]}
<1>1. DOMAIN l.group = ms /\ \A k \in ms : l.no[k] \in Int
  BY LayoutFields
<1>2. ASSUME NEW k \in ms PROVE IsFiniteSet(P(k)) /\ Cardinality(P(k)) \in Nat /\ PosInGroup(l, k) = Cardinality(P(k))
  <2>1. P(k) \in SUBSET ms /\ PosInGroup(l, k) = Cardinality(P(k))
    BY <1>1 DEF PosInGroup
  <2> HIDE DEF P
  <2> QED BY <2>1, FS_Subset, FS_CardinalityType
<1>3. ASSUME l.group[n] = l.group[m], l.no[n] < l.no[m] PROVE Cardinality(P(n)) < Cardinality(P(m))
  <2>1. PICK a \in Int, b \in Int : a = l.no[n] /\ b = l.no[m] /\ a < b
    BY <1>1, <1>3
  <2>2. \A j \in ms : l.no[j] < l.no[n] => l.no[j] < l.no[m]
    BY <1>1, <2>1
  <2>3. P(n) \in SUBSET P(m) /\ n \in P(m)
    BY <1>3, <2>2
  <2>4. n \notin P(n)
    BY <2>1
  <2> HIDE DEF P
  <2>5. Cardinality(P(n)) <= Cardinality(P(m)) /\ Cardinality(P(n)) # Cardinality(P(m))
    BY <1>2, <2>3, <2>4, FS_Subset
  <2> QED BY <1>2, <2>5
<1> HIDE DEF P
<1> QED BY <1>2, <1>3

\* Groups first, then positions, then ids: the order of the numbers.
LEMMA LayoutOrder ==
  ASSUME NEW gs, NEW ms \in SUBSET Int, IsFiniteSet(gs), IsFiniteSet(ms), NEW l \in Layouts(gs, ms),
         NEW m \in ms, NEW n \in ms
  PROVE  LET a == l.gpos[l.group[n]]
             b == l.gpos[l.group[m]]
             p == PosInGroup(l, n)
             q == PosInGroup(l, m)
         IN  (a < b \/ (a = b /\ p < q) \/ (a = b /\ p = q /\ n < m)) <=> l.no[n] < l.no[m]
<1> DEFINE a == l.gpos[l.group[n]]
           b == l.gpos[l.group[m]]
           p == PosInGroup(l, n)
           q == PosInGroup(l, m)
           x == l.no[n]
           y == l.no[m]
<1>1. /\ a \in Int /\ b \in Int /\ x \in Int /\ y \in Int /\ n \in Int /\ m \in Int
      /\ a < b => x < y
      /\ b < a => y < x
      /\ x = y => n = m
      /\ a = b => l.group[n] = l.group[m]
  BY LayoutFields
<1>2. /\ p \in Int /\ q \in Int
      /\ a = b /\ x < y => p < q
      /\ a = b /\ y < x => q < p
  BY <1>1, PosInGroupOrder
<1>3. n = m => p = q /\ x = y
  OBVIOUS
<1> HIDE DEF a, b, p, q, x, y
<1>4. (a < b \/ (a = b /\ p < q) \/ (a = b /\ p = q /\ n < m)) <=> x < y
  BY <1>1, <1>2, <1>3
<1> QED BY <1>4 DEF a, b, p, q, x, y

\* There are l.no[m] - 1 memberships before m.
LEMMA LayoutPlace ==
  ASSUME NEW gs, NEW ms, IsFiniteSet(gs), IsFiniteSet(ms), NEW l \in Layouts(gs, ms), NEW m \in ms
  PROVE  Cardinality({n \in ms : l.no[n] < l.no[m]}) = l.no[m] - 1
<1> DEFINE S == {n \in ms : l.no[n] < l.no[m]}
<1>1. PICK k \in Nat : k = l.no[m] - 1 /\ k + 1 <= Cardinality(ms) /\ Cardinality(ms) \in Nat
  BY LayoutFields, FS_CardinalityType
<1> DEFINE f == [n \in S |-> l.no[n]]
<1>2. ASSUME NEW n \in ms PROVE l.no[n] < l.no[m] <=> l.no[n] \in 1 .. k
  <2>1. PICK x \in Nat \ {0} : x = l.no[n]
    BY LayoutFields
  <2>2. PICK y \in Nat : y = l.no[m] /\ y = k + 1
    BY <1>1, LayoutFields
  <2>3. x < y <=> x \in 1 .. k
    BY <2>2
  <2> QED BY <2>1, <2>2, <2>3
<1>3. f \in [S -> 1 .. k] /\ IsInjective(f)
  BY <1>2, LayoutFields DEF IsInjective
<1>4. ASSUME NEW j \in 1 .. k PROVE \E n \in S : f[n] = j
  <2>1. j \in 1 .. Cardinality(ms)
    BY <1>1
  <2>2. PICK n \in ms : l.no[n] = j
    BY <2>1, LayoutFields
  <2> QED BY <1>2, <2>2
<1>5. f \in Bijection(S, 1 .. k)
  <2> HIDE DEF f, S
  <2> QED BY <1>3, <1>4 DEF Bijection, Injection, Surjection
<1>6. IsFiniteSet(S) /\ S \in SUBSET ms
  <2>1. S \in SUBSET ms
    OBVIOUS
  <2> HIDE DEF S
  <2> QED BY <2>1, FS_Subset
<1>7. Cardinality(1 .. k) = Cardinality(S)
  <2> HIDE DEF S, f
  <2>1. ExistsBijection(S, 1 .. k)
    BY <1>5 DEF ExistsBijection
  <2> QED BY <1>6, <2>1, FS_Bijection
<1>8. Cardinality(1 .. k) = k
  <2>1. CASE k = 0
    BY <2>1, FS_Interval
  <2>2. CASE k # 0
    BY <2>2, FS_Interval
  <2> QED BY <2>1, <2>2
<1> HIDE DEF S
<1>9. Cardinality(S) = l.no[m] - 1
  BY <1>1, <1>7, <1>8
<1> QED BY <1>9 DEF S


-----------------------------------------------------------------------------
(***************************************************************************)
(* Types.                                                                  *)
(***************************************************************************)
GroupRows(rs) == [relay : rs, ord : Int]
MemberRows(rs, n, cs) == [relay : rs, group : Ids(n), channel : cs, number : Nat, ord : Int]
IsTable(f, R) == f \in [DOMAIN f -> R]

LEMMA InsertTable ==
  ASSUME NEW t, NEW new, NEW R, IsTable(t, R), IsTable(new, R)
  PROVE  IsTable(Insert(t, new), R) /\ DOMAIN Insert(t, new) = DOMAIN t \cup DOMAIN new
BY DEF IsTable

LEMMA RemoveTable ==
  ASSUME NEW t, NEW ids, NEW R, IsTable(t, R)
  PROVE  IsTable(Remove(t, ids), R) /\ DOMAIN Remove(t, ids) = DOMAIN t \ ids
         /\ \A i \in DOMAIN t \ ids : Remove(t, ids)[i] = t[i]
BY DEF IsTable

LEMMA WeakenTable ==
  ASSUME NEW t, NEW R, NEW R2, IsTable(t, R), \A i \in DOMAIN t : t[i] \in R2
  PROVE  IsTable(t, R2)
BY DEF IsTable

LEMMA MemberRowType ==
  ASSUME NEW rs, NEW n, NEW cs, NEW r \in rs, NEW g \in Ids(n), NEW c \in cs, NEW k \in Nat, NEW o \in Int
  PROVE  MemberRow(r, g, c, k, o) \in MemberRows(rs, n, cs)
BY DEF MemberRows

LEMMA RenumberTable ==
  ASSUME NEW ms, NEW gs, NEW r, NEW rs, NEW n, NEW cs, IsTable(ms, MemberRows(rs, n, cs)),
         IsFiniteSet(DOMAIN ms)
  PROVE  IsTable(Renumber(ms, gs, r), MemberRows(rs, n, cs)) /\ DOMAIN Renumber(ms, gs, r) = DOMAIN ms
<1>1. DOMAIN Renumber(ms, gs, r) = DOMAIN ms
  BY DEF Renumber
<1>2. ASSUME NEW m \in DOMAIN ms PROVE Renumber(ms, gs, r)[m] \in MemberRows(rs, n, cs)
  <2>1. ms[m] \in MemberRows(rs, n, cs)
    BY DEF IsTable
  <2>2. CASE ms[m].relay = r
    <3>1. Renumber(ms, gs, r)[m] = MemberRow(r, ms[m].group, ms[m].channel, Place(ms, gs, m), ms[m].ord)
      BY <2>2 DEF Renumber
    <3>2. Place(ms, gs, m) \in Nat
      BY PlaceNat
    <3>3. r \in rs /\ ms[m].group \in Ids(n) /\ ms[m].channel \in cs /\ ms[m].ord \in Int
      BY <2>1, <2>2 DEF MemberRows
    <3> HIDE DEF MemberRow, Ids
    <3> QED BY <3>1, <3>2, <3>3, MemberRowType
  <2>3. CASE ms[m].relay # r
    BY <2>1, <2>3 DEF Renumber
  <2> QED BY <2>2, <2>3
<1> QED BY <1>1, <1>2 DEF IsTable, Renumber

\* TypeOK in the terms of the lemmas above.
LEMMA TypeParts ==
  TypeOK <=>
    /\ nextRelay \in Nat \ {0} /\ nextGroup \in Nat \ {0} /\ nextMember \in Nat \ {0}
    /\ channels \subseteq Channels
    /\ relays \subseteq Ids(nextRelay) /\ raced \subseteq Ids(nextRelay)
    /\ DOMAIN groups \subseteq Ids(nextGroup) /\ IsTable(groups, GroupRows(relays))
    /\ DOMAIN members \subseteq Ids(nextMember) /\ IsTable(members, MemberRows(relays, nextGroup, channels))
    /\ req \in [Threads -> Requests]
BY DEF TypeOK, IsTable, GroupRows, MemberRows

LEMMA TypePartsPrime ==
  TypeOK' <=>
    /\ nextRelay' \in Nat \ {0} /\ nextGroup' \in Nat \ {0} /\ nextMember' \in Nat \ {0}
    /\ channels' \subseteq Channels
    /\ relays' \subseteq Ids(nextRelay') /\ raced' \subseteq Ids(nextRelay')
    /\ DOMAIN groups' \subseteq Ids(nextGroup') /\ IsTable(groups', GroupRows(relays'))
    /\ DOMAIN members' \subseteq Ids(nextMember')
    /\ IsTable(members', MemberRows(relays', nextGroup', channels'))
    /\ req' \in [Threads -> Requests']
BY DEF TypeOK, IsTable, GroupRows, MemberRows

LEMMA RequestsGrow ==
  ASSUME nextRelay \in Nat, nextGroup \in Nat, nextMember \in Nat,
         nextRelay' \in Nat, nextGroup' \in Nat, nextMember' \in Nat,
         nextRelay <= nextRelay', nextGroup <= nextGroup', nextMember <= nextMember'
  PROVE  Requests \subseteq Requests'
<1>1. /\ Ids(nextRelay) \subseteq Ids(nextRelay') /\ Ids(nextGroup) \subseteq Ids(nextGroup')
      /\ Ids(nextMember) \subseteq Ids(nextMember')
  <2>1. \A a, b \in Nat : a <= b => Ids(a) \subseteq Ids(b)
    OBVIOUS
  <2> HIDE DEF Ids
  <2> QED BY <2>1
<1> HIDE DEF Ids
<1> QED BY <1>1 DEF Requests


LEMMA InitTypes == Init => TypeOK
<1> SUFFICES ASSUME Init PROVE TypeOK
  OBVIOUS
<1>1. /\ nextRelay = 1 /\ nextGroup = 1 /\ nextMember = 1 /\ channels = {} /\ relays = {} /\ raced = {}
      /\ groups = <<>> /\ members = <<>> /\ req = [t \in Threads |-> Idle]
  BY DEF Init
<1>2. Idle \in Requests
  BY DEF Requests
<1>3. DOMAIN groups = {} /\ DOMAIN members = {}
  BY <1>1
<1>4. IsTable(groups, GroupRows(relays)) /\ IsTable(members, MemberRows(relays, nextGroup, channels))
  BY <1>1, <1>3 DEF IsTable
<1> HIDE DEF Idle
<1> QED BY <1>1, <1>2, <1>3, <1>4, TypeParts

\* A request that only reads.
LEMMA ReadTypes ==
  ASSUME TypeOK, NEW t \in Threads, NEW x \in Requests, req' = [req EXCEPT ![t] = x],
         UNCHANGED <<channels, relays, groups, members, seqVars, raced>>
  PROVE  TypeOK'
<1>1. Requests' = Requests
  BY DEF Requests, seqVars
<1>2. req' \in [Threads -> Requests']
  BY <1>1, TypeParts
<1>3. UNCHANGED <<channels, relays, groups, members, nextRelay, nextGroup, nextMember, raced>>
  BY DEF seqVars
<1> HIDE DEF Ids
<1> QED BY <1>2, <1>3, TypeParts, TypePartsPrime

LEMMA ReadsTypes ==
  ASSUME TypeOK, NEW t \in Threads
  PROVE  /\ \A r : CreateGroupReads(t, r) => TypeOK'
         /\ \A r : LayoutReadsGroups(t, r) => TypeOK'
         /\ \A r \in relays : \A g \in GroupsOf(r) : DeleteGroupCounts(t, r, g) => TypeOK'
         /\ LayoutReadsMembers(t) => TypeOK'
         /\ Fails(t) => TypeOK'
<1>0. /\ nextRelay \in Nat \ {0} /\ nextGroup \in Nat \ {0} /\ nextMember \in Nat \ {0}
      /\ relays \subseteq Ids(nextRelay)
      /\ DOMAIN groups \subseteq Ids(nextGroup) /\ IsTable(groups, GroupRows(relays))
      /\ DOMAIN members \subseteq Ids(nextMember)
      /\ req \in [Threads -> Requests]
  BY TypeParts
<1>1. ASSUME NEW r, CreateGroupReads(t, r) PROVE TypeOK'
  <2>1. r \in Ids(nextRelay)
    BY <1>0, <1>1 DEF CreateGroupReads
  <2>2. GroupsOf(r) \in SUBSET Ids(nextGroup) /\ \A g \in GroupsOf(r) : groups[g].ord \in Int
    BY <1>0 DEF IsTable, GroupRows
  <2>3. NextOrd(groups, GroupsOf(r)) \in Int
    <3> HIDE DEF GroupsOf, Ids
    <3> QED BY <1>0, <2>2, IdsFinite, NextOrdInt
  <2>4. [pc |-> "create", relay |-> r, ord |-> NextOrd(groups, GroupsOf(r))] \in Requests
    <3> HIDE DEF Ids, GroupsOf
    <3> QED BY <2>1, <2>3 DEF Requests
  <2> HIDE DEF Ids, GroupsOf
  <2> QED BY <1>1, <2>4, ReadTypes DEF CreateGroupReads
<1>2. ASSUME NEW r, LayoutReadsGroups(t, r) PROVE TypeOK'
  <2>1. r \in Ids(nextRelay) /\ GroupsOf(r) \in SUBSET Ids(nextGroup)
    BY <1>0, <1>2 DEF LayoutReadsGroups
  <2>2. [pc |-> "groups", relay |-> r, groups |-> GroupsOf(r)] \in Requests
    <3> HIDE DEF Ids, GroupsOf
    <3> QED BY <2>1 DEF Requests
  <2> HIDE DEF Ids, GroupsOf
  <2> QED BY <1>2, <2>2, ReadTypes DEF LayoutReadsGroups
<1>3. ASSUME NEW r \in relays, NEW g \in GroupsOf(r), DeleteGroupCounts(t, r, g) PROVE TypeOK'
  <2>1. r \in Ids(nextRelay) /\ g \in Ids(nextGroup)
    BY <1>0, <1>3
  <2>2. [pc |-> "delete", relay |-> r, group |-> g] \in Requests
    <3> HIDE DEF Ids
    <3> QED BY <2>1 DEF Requests
  <2> HIDE DEF Ids
  <2> QED BY <1>3, <2>2, ReadTypes DEF DeleteGroupCounts
<1>4. ASSUME LayoutReadsMembers(t) PROVE TypeOK'
  <2>1. req[t] \in Requests /\ req[t].pc = "groups"
    BY <1>0, <1>4 DEF LayoutReadsMembers
  <2>2. req[t].relay \in Ids(nextRelay) /\ req[t].groups \in SUBSET Ids(nextGroup)
    <3> HIDE DEF Ids
    <3> QED BY <2>1 DEF Requests
  <2>3. MembersOf(req[t].relay) \in SUBSET Ids(nextMember)
    BY <1>0
  <2> DEFINE x == [pc |-> "layout", relay |-> req[t].relay, groups |-> req[t].groups,
                   members |-> MembersOf(req[t].relay)]
  <2>4. x \in Requests
    <3> HIDE DEF Ids, MembersOf
    <3> QED BY <2>2, <2>3 DEF Requests
  <2>5. req' = [req EXCEPT ![t] = x] /\ UNCHANGED <<channels, relays, groups, members, seqVars, raced>>
    BY <1>4 DEF LayoutReadsMembers
  <2> HIDE DEF x
  <2> QED BY <2>4, <2>5, ReadTypes
<1>5. ASSUME Fails(t) PROVE TypeOK'
  <2>1. Idle \in Requests
    BY DEF Requests
  <2> HIDE DEF Idle
  <2> QED BY <1>5, <2>1, ReadTypes DEF Fails
<1> QED BY <1>1, <1>2, <1>3, <1>4, <1>5


LEMMA RowsGrow ==
  ASSUME NEW rs, NEW rs2, rs \subseteq rs2, NEW n \in Nat, NEW n2 \in Nat, n <= n2,
         NEW cs, NEW cs2, cs \subseteq cs2
  PROVE  /\ GroupRows(rs) \subseteq GroupRows(rs2)
         /\ MemberRows(rs, n, cs) \subseteq MemberRows(rs2, n2, cs2)
         /\ \A f : IsTable(f, GroupRows(rs)) => IsTable(f, GroupRows(rs2))
         /\ \A f : IsTable(f, MemberRows(rs, n, cs)) => IsTable(f, MemberRows(rs2, n2, cs2))
<1>1. Ids(n) \subseteq Ids(n2)
  OBVIOUS
<1> HIDE DEF Ids
<1>2. GroupRows(rs) \subseteq GroupRows(rs2)
  BY DEF GroupRows
<1>3. MemberRows(rs, n, cs) \subseteq MemberRows(rs2, n2, cs2)
  BY <1>1 DEF MemberRows
<1> QED BY <1>2, <1>3 DEF IsTable

LEMMA IdsGrow ==
  ASSUME NEW n \in Nat \ {0}
  PROVE  Ids(n) \subseteq Ids(n + 1) /\ n \in Ids(n + 1) /\ n + 1 \in Nat \ {0}
OBVIOUS

LEMMA ChannelTypes ==
  ASSUME TypeOK, NEW c \in Channels
  PROVE  CreateChannel(c) \/ DeleteChannel(c) => TypeOK'
<1>0. nextGroup \in Nat /\ IsTable(members, MemberRows(relays, nextGroup, channels)) /\ channels \subseteq Channels
  BY TypeParts
<1>1. ASSUME CreateChannel(c) PROVE TypeOK'
  <2>1. channels' = channels \cup {c} /\ UNCHANGED <<relays, groups, members, seqVars, req, raced>>
    BY <1>1 DEF CreateChannel
  <2>2. IsTable(members, MemberRows(relays, nextGroup, channels'))
    BY <1>0, <2>1, RowsGrow
  <2>3. Requests' = Requests
    BY <2>1 DEF Requests, seqVars
  <2>4. channels' \subseteq Channels
    BY <1>0, <2>1
  <2> HIDE DEF Ids
  <2> QED BY <2>1, <2>2, <2>3, <2>4, TypeParts, TypePartsPrime DEF seqVars
<1>2. ASSUME DeleteChannel(c) PROVE TypeOK'
  <2>1. /\ channels' = channels \ {c} /\ UNCHANGED <<relays, groups, members, seqVars, req, raced>>
        /\ \A m \in DOMAIN members : members[m].channel # c
    BY <1>2 DEF DeleteChannel
  <2>2. \A m \in DOMAIN members : members[m] \in MemberRows(relays, nextGroup, channels')
    <3> HIDE DEF Ids
    <3> QED BY <1>0, <2>1 DEF IsTable, MemberRows
  <2>3. IsTable(members, MemberRows(relays, nextGroup, channels'))
    BY <1>0, <2>2, WeakenTable
  <2>4. Requests' = Requests
    BY <2>1 DEF Requests, seqVars
  <2> HIDE DEF Ids
  <2> QED BY <1>0, <2>1, <2>3, <2>4, TypeParts, TypePartsPrime DEF seqVars
<1> QED BY <1>1, <1>2

LEMMA CreateTypes ==
  ASSUME TypeOK
  PROVE  /\ CreateRelay => TypeOK'
         /\ \A t \in Threads : CreateRelayGroup(t) => TypeOK'
<1>0. /\ nextRelay \in Nat \ {0} /\ nextGroup \in Nat \ {0} /\ nextMember \in Nat \ {0}
      /\ relays \subseteq Ids(nextRelay) /\ raced \subseteq Ids(nextRelay)
      /\ DOMAIN groups \subseteq Ids(nextGroup) /\ IsTable(groups, GroupRows(relays))
      /\ DOMAIN members \subseteq Ids(nextMember) /\ IsTable(members, MemberRows(relays, nextGroup, channels))
      /\ req \in [Threads -> Requests]
  BY TypeParts
<1>1. ASSUME CreateRelay PROVE TypeOK'
  <2> DEFINE new == [g \in {nextGroup} |-> GroupRow(nextRelay, 0)]
  <2>1. /\ relays' = relays \cup {nextRelay} /\ groups' = Insert(groups, new)
        /\ nextRelay' = nextRelay + 1 /\ nextGroup' = nextGroup + 1
        /\ UNCHANGED <<channels, members, nextMember, req, raced>>
    BY <1>1 DEF CreateRelay
  <2>2. IsTable(new, GroupRows(relays')) /\ DOMAIN new = {nextGroup}
    BY <2>1 DEF IsTable, GroupRows
  <2> HIDE DEF new, Insert, Ids
  <2>3. IsTable(groups, GroupRows(relays')) /\ IsTable(members, MemberRows(relays', nextGroup', channels'))
    <3>1. relays \subseteq relays' /\ channels \subseteq channels' /\ members' = members
          /\ nextGroup \in Nat /\ nextGroup' \in Nat /\ nextGroup <= nextGroup'
      BY <1>0, <2>1
    <3> QED BY <1>0, <3>1, RowsGrow
  <2>4. IsTable(groups', GroupRows(relays')) /\ DOMAIN groups' = DOMAIN groups \cup {nextGroup}
    BY <2>1, <2>2, <2>3, InsertTable
  <2>5. req' \in [Threads -> Requests']
    BY <1>0, <2>1, IdsGrow, RequestsGrow
  <2> QED BY <1>0, <2>1, <2>3, <2>4, <2>5, IdsGrow, TypeParts, TypePartsPrime
<1>2. ASSUME NEW t \in Threads, CreateRelayGroup(t) PROVE TypeOK'
  <2> DEFINE new == [g \in {nextGroup} |-> GroupRow(req[t].relay, req[t].ord)]
  <2>1. /\ groups' = Insert(groups, new) /\ nextGroup' = nextGroup + 1
        /\ req' = [req EXCEPT ![t] = Idle] /\ req[t].pc = "create" /\ req[t].relay \in relays
        /\ UNCHANGED <<channels, relays, members, nextRelay, nextMember, raced>>
    BY <1>2 DEF CreateRelayGroup
  <2>2. req[t].ord \in Int
    <3>1. req[t] \in Requests
      BY <1>0
    <3> HIDE DEF Ids
    <3> QED BY <2>1, <3>1 DEF Requests
  <2>3. IsTable(new, GroupRows(relays)) /\ DOMAIN new = {nextGroup}
    BY <2>1, <2>2 DEF IsTable, GroupRows
  <2> HIDE DEF new, Insert, Ids
  <2>4. IsTable(members, MemberRows(relays, nextGroup', channels))
    BY <1>0, <2>1, RowsGrow, IdsGrow
  <2>5. IsTable(groups', GroupRows(relays)) /\ DOMAIN groups' = DOMAIN groups \cup {nextGroup}
    BY <1>0, <2>1, <2>3, InsertTable
  <2>6. Requests \subseteq Requests' /\ Idle \in Requests
    BY <1>0, <2>1, IdsGrow, RequestsGrow DEF Requests
  <2>7. req' \in [Threads -> Requests']
    <3> HIDE DEF Idle
    <3> QED BY <1>0, <2>1, <2>6
  <2> QED BY <1>0, <2>1, <2>4, <2>5, <2>7, IdsGrow, TypeParts, TypePartsPrime
<1> QED BY <1>1, <1>2


LEMMA DeleteTypes ==
  ASSUME TypeOK, LayoutInv
  PROVE  /\ \A r \in relays : DeleteRelay(r) => TypeOK'
         /\ \A t \in Threads : DeleteRelayGroup(t) => TypeOK'
<1>0. /\ nextRelay \in Nat \ {0} /\ nextGroup \in Nat \ {0} /\ nextMember \in Nat \ {0}
      /\ relays \subseteq Ids(nextRelay) /\ raced \subseteq Ids(nextRelay)
      /\ DOMAIN groups \subseteq Ids(nextGroup) /\ IsTable(groups, GroupRows(relays))
      /\ DOMAIN members \subseteq Ids(nextMember) /\ IsTable(members, MemberRows(relays, nextGroup, channels))
      /\ req \in [Threads -> Requests]
  BY TypeParts
<1>1. ASSUME NEW r \in relays, DeleteRelay(r) PROVE TypeOK'
  <2>1. /\ relays' = relays \ {r} /\ groups' = Remove(groups, GroupsOf(r))
        /\ members' = Remove(members, MembersOf(r)) /\ raced' = raced \ {r}
        /\ UNCHANGED <<channels, nextRelay, nextGroup, nextMember, req>>
    BY <1>1 DEF DeleteRelay, seqVars
  <2>2. /\ IsTable(groups', GroupRows(relays)) /\ DOMAIN groups' = DOMAIN groups \ GroupsOf(r)
        /\ \A g \in DOMAIN groups' : groups'[g] = groups[g]
        /\ IsTable(members', MemberRows(relays, nextGroup, channels))
        /\ DOMAIN members' = DOMAIN members \ MembersOf(r)
        /\ \A m \in DOMAIN members' : members'[m] = members[m]
    <3> HIDE DEF Remove, GroupsOf, MembersOf, Ids
    <3>1. /\ IsTable(groups', GroupRows(relays)) /\ DOMAIN groups' = DOMAIN groups \ GroupsOf(r)
          /\ \A g \in DOMAIN groups \ GroupsOf(r) : groups'[g] = groups[g]
      BY <1>0, <2>1, RemoveTable
    <3>2. /\ IsTable(members', MemberRows(relays, nextGroup, channels))
          /\ DOMAIN members' = DOMAIN members \ MembersOf(r)
          /\ \A m \in DOMAIN members \ MembersOf(r) : members'[m] = members[m]
      BY <1>0, <2>1, RemoveTable
    <3> QED BY <3>1, <3>2
  <2>3. \A g \in DOMAIN groups' : groups'[g] \in GroupRows(relays')
    BY <1>0, <2>1, <2>2 DEF IsTable, GroupRows
  <2>4. \A m \in DOMAIN members' : members'[m] \in MemberRows(relays', nextGroup', channels')
    <3>1. \A m \in DOMAIN members' : members'[m] \in MemberRows(relays, nextGroup, channels) /\ members'[m].relay # r
      BY <2>2 DEF IsTable
    <3> HIDE DEF Ids
    <3> QED BY <2>1, <3>1 DEF MemberRows
  <2> HIDE DEF Remove, GroupsOf, MembersOf, Ids
  <2>5. IsTable(groups', GroupRows(relays')) /\ IsTable(members', MemberRows(relays', nextGroup', channels'))
    BY <2>2, <2>3, <2>4, WeakenTable
  <2>6. Requests' = Requests
    BY <2>1 DEF Requests
  <2> QED BY <1>0, <2>1, <2>2, <2>5, <2>6, TypeParts, TypePartsPrime
<1>2. ASSUME NEW t \in Threads, DeleteRelayGroup(t) PROVE TypeOK'
  <2> DEFINE r == req[t].relay
             lost == {m \in DOMAIN members : members[m].group = req[t].group}
  <2>1. /\ req[t].pc = "delete" /\ groups' = Remove(groups, {req[t].group})
        /\ members' = Remove(members, lost) /\ raced' \subseteq raced \cup {r}
        /\ req' = [req EXCEPT ![t] = Idle]
        /\ UNCHANGED <<channels, relays, nextRelay, nextGroup, nextMember>>
    BY <1>2 DEF DeleteRelayGroup, seqVars
  <2>2. r \in Ids(nextRelay)
    <3>1. req[t] \in Requests
      BY <1>0
    <3> HIDE DEF Ids
    <3> QED BY <2>1, <3>1 DEF Requests
  <2> HIDE DEF Remove, Ids, lost, r
  <2>3. /\ IsTable(groups', GroupRows(relays)) /\ DOMAIN groups' \subseteq DOMAIN groups
        /\ IsTable(members', MemberRows(relays, nextGroup, channels)) /\ DOMAIN members' \subseteq DOMAIN members
    <3> DEFINE G == GroupRows(relays)
               M == MemberRows(relays, nextGroup, channels)
    <3>1. IsTable(groups, G) /\ IsTable(members, M)
      BY <1>0
    <3> HIDE DEF G, M
    <3>2. IsTable(groups', G) /\ DOMAIN groups' \subseteq DOMAIN groups
      BY <2>1, <3>1, RemoveTable
    <3>3. IsTable(members', M) /\ DOMAIN members' \subseteq DOMAIN members
      BY <2>1, <3>1, RemoveTable
    <3> USE DEF G, M
    <3> QED BY <3>2, <3>3
  <2>4. Requests' = Requests /\ Idle \in Requests
    BY <2>1 DEF Requests
  <2>5. req' \in [Threads -> Requests']
    <3> HIDE DEF Idle
    <3> QED BY <1>0, <2>1, <2>4
  <2> QED BY <1>0, <2>1, <2>2, <2>3, <2>5, TypeParts, TypePartsPrime
<1> QED BY <1>1, <1>2

\* A request on one membership writes a well-typed table and renumbers it.
LEMMA WriteMembers ==
  ASSUME TypeOK, NEW r, NEW ms, IsTable(ms, MemberRows(relays, nextGroup, channels)),
         nextMember' \in Nat \ {0}, nextMember <= nextMember', DOMAIN ms \subseteq Ids(nextMember'),
         members' = Renumber(ms, groups, r), raced' \subseteq raced,
         UNCHANGED <<channels, relays, groups, nextRelay, nextGroup, req>>
  PROVE  TypeOK'
<1>0. /\ nextRelay \in Nat \ {0} /\ nextGroup \in Nat \ {0} /\ nextMember \in Nat \ {0}
      /\ req \in [Threads -> Requests] /\ raced \subseteq Ids(nextRelay)
  BY TypeParts
<1> HIDE DEF Ids
<1>1. IsFiniteSet(DOMAIN ms)
  BY IdsFinite
<1>2. IsTable(members', MemberRows(relays, nextGroup, channels)) /\ DOMAIN members' = DOMAIN ms
  BY <1>1, RenumberTable
<1>3. req' \in [Threads -> Requests']
  BY <1>0, RequestsGrow
<1> QED BY <1>0, <1>2, <1>3, TypeParts, TypePartsPrime

LEMMA MembershipTypes ==
  ASSUME TypeOK, LayoutInv
  PROVE  /\ \A r \in relays : \A g, c : \A o \in SortOrders \cup {None} : AddMembership(r, g, c, o) => TypeOK'
         /\ \A m : DeleteMembership(m) => TypeOK'
         /\ \A m, g, c : \A o \in SortOrders \cup {None} : UpdateMembership(m, g, c, o) => TypeOK'
<1>0. /\ nextRelay \in Nat \ {0} /\ nextGroup \in Nat \ {0} /\ nextMember \in Nat \ {0}
      /\ DOMAIN groups \subseteq Ids(nextGroup)
      /\ DOMAIN members \subseteq Ids(nextMember) /\ IsTable(members, MemberRows(relays, nextGroup, channels))
  BY TypeParts
<1>1. ASSUME NEW r \in relays, NEW g, NEW c, NEW o \in SortOrders \cup {None}, AddMembership(r, g, c, o)
      PROVE  TypeOK'
  <2> DEFINE S == {m \in DOMAIN members : members[m].group = g}
             ord == IF o = None THEN NextOrd(members, S) ELSE o
             row == MemberRow(r, g, c, 0, ord)
             new == [m \in {nextMember} |-> row]
             ms == Insert(members, new)
  <2>1. /\ g \in DOMAIN groups /\ c \in channels /\ members' = Renumber(ms, groups, r)
        /\ nextMember' = nextMember + 1 /\ raced' \subseteq raced
        /\ UNCHANGED <<channels, relays, groups, nextRelay, nextGroup, req>>
    BY <1>1 DEF AddMembership, ValidInput
  <2>2. S \in SUBSET Ids(nextMember) /\ \A m \in S : members[m].ord \in Int
    BY <1>0 DEF IsTable, MemberRows
  <2>3. NextOrd(members, S) \in Int
    <3> HIDE DEF S, Ids
    <3> QED BY <1>0, <2>2, IdsFinite, NextOrdInt
  <2>4. ord \in Int
    <3> HIDE DEF S
    <3> QED BY <1>1, <2>3, LayoutAssumption
  <2>5. row \in MemberRows(relays, nextGroup, channels)
    <3>1. g \in Ids(nextGroup)
      BY <1>0, <2>1
    <3> HIDE DEF ord, MemberRow, Ids
    <3> QED BY <1>1, <2>1, <2>4, <3>1, MemberRowType
  <2>6. IsTable(new, MemberRows(relays, nextGroup, channels)) /\ DOMAIN new = {nextMember}
    <3> HIDE DEF row, Ids
    <3> QED BY <2>5 DEF IsTable
  <2>7. IsTable(ms, MemberRows(relays, nextGroup, channels)) /\ DOMAIN ms = DOMAIN members \cup {nextMember}
    <3> HIDE DEF new, Insert, Ids
    <3> QED BY <1>0, <2>6, InsertTable
  <2>8. nextMember' \in Nat \ {0} /\ nextMember <= nextMember' /\ DOMAIN ms \subseteq Ids(nextMember')
    <3> HIDE DEF ms
    <3> QED BY <1>0, <2>1, <2>7
  <2> HIDE DEF ms, Ids
  <2> QED BY <2>1, <2>7, <2>8, WriteMembers
<1>2. ASSUME NEW m, DeleteMembership(m) PROVE TypeOK'
  <2> DEFINE ms == Remove(members, {m})
  <2>1. /\ members' = Renumber(ms, groups, members[m].relay) /\ nextMember' = nextMember
        /\ raced' \subseteq raced /\ UNCHANGED <<channels, relays, groups, nextRelay, nextGroup, req>>
    BY <1>2 DEF DeleteMembership, seqVars
  <2> HIDE DEF Remove, Ids
  <2>2. IsTable(ms, MemberRows(relays, nextGroup, channels)) /\ DOMAIN ms \subseteq Ids(nextMember)
    BY <1>0, RemoveTable
  <2> HIDE DEF ms
  <2> QED BY <1>0, <2>1, <2>2, WriteMembers
<1>3. ASSUME NEW m, NEW g, NEW c, NEW o \in SortOrders \cup {None}, UpdateMembership(m, g, c, o)
      PROVE  TypeOK'
  <2> DEFINE r == members[m].relay
             ord == IF o = None THEN members[m].ord ELSE o
             row == MemberRow(r, g, c, members[m].number, ord)
             ms == [members EXCEPT ![m] = row]
  <2>1. /\ m \in DOMAIN members /\ g \in DOMAIN groups /\ c \in channels
        /\ members' = Renumber(ms, groups, r) /\ nextMember' = nextMember
        /\ raced' \subseteq raced /\ UNCHANGED <<channels, relays, groups, nextRelay, nextGroup, req>>
    BY <1>3 DEF UpdateMembership, ValidInput, seqVars
  <2>2. members[m] \in MemberRows(relays, nextGroup, channels)
    BY <1>0, <2>1 DEF IsTable
  <2>3. r \in relays /\ members[m].number \in Nat /\ members[m].ord \in Int
    <3> HIDE DEF Ids
    <3> QED BY <2>2 DEF MemberRows
  <2>4. ord \in Int /\ g \in Ids(nextGroup)
    BY <1>0, <1>3, <2>1, <2>3, LayoutAssumption
  <2>5. row \in MemberRows(relays, nextGroup, channels)
    <3> HIDE DEF ord, MemberRow, Ids, r
    <3> QED BY <2>1, <2>3, <2>4, MemberRowType
  <2>6. IsTable(ms, MemberRows(relays, nextGroup, channels)) /\ DOMAIN ms = DOMAIN members
    <3> HIDE DEF row, Ids
    <3> QED BY <1>0, <2>5 DEF IsTable
  <2> HIDE DEF ms, Ids
  <2> QED BY <1>0, <2>1, <2>6, WriteMembers
<1> QED BY <1>1, <1>2, <1>3


\* What a request that writes a layout has read.
LEMMA LayoutRequest ==
  ASSUME TypeOK, NEW t \in Threads, req[t].pc = "layout"
  PROVE  /\ req[t].relay \in Ids(nextRelay)
         /\ req[t].groups \in SUBSET Ids(nextGroup) /\ req[t].members \in SUBSET Ids(nextMember)
         /\ IsFiniteSet(req[t].groups) /\ IsFiniteSet(req[t].members)
<1>1. req[t] \in Requests /\ nextGroup \in Nat \ {0} /\ nextMember \in Nat \ {0}
  BY TypeParts
<1> HIDE DEF Ids
<1>2. /\ req[t].relay \in Ids(nextRelay)
      /\ req[t].groups \in SUBSET Ids(nextGroup) /\ req[t].members \in SUBSET Ids(nextMember)
  BY <1>1 DEF Requests
<1> QED BY <1>1, <1>2, IdsFinite

LEMMA LayoutTypes ==
  ASSUME TypeOK, NEW t \in Threads, NEW l, ReplaceRelayLayout(t, l)
  PROVE  TypeOK'
<1> DEFINE r == req[t].relay
           gs == req[t].groups
           ms == req[t].members
           kept == ms \cap MembersOf(r)
<1>0. /\ nextRelay \in Nat \ {0} /\ nextGroup \in Nat \ {0} /\ nextMember \in Nat \ {0}
      /\ raced \subseteq Ids(nextRelay)
      /\ DOMAIN groups \subseteq Ids(nextGroup) /\ IsTable(groups, GroupRows(relays))
      /\ DOMAIN members \subseteq Ids(nextMember) /\ IsTable(members, MemberRows(relays, nextGroup, channels))
      /\ req \in [Threads -> Requests]
  BY TypeParts
<1>1. /\ req[t].pc = "layout" /\ l \in Layouts(gs, ms)
      /\ groups' = [g \in DOMAIN groups |->
           IF g \in gs \cap GroupsOf(r) THEN GroupRow(r, l.gpos[g]) ELSE groups[g]]
      /\ members' = [m \in DOMAIN members |->
           IF m \in kept THEN MemberRow(r, l.group[m], members[m].channel, l.no[m], PosInGroup(l, m))
                         ELSE members[m]]
      /\ raced' \subseteq raced \cup {r} /\ req' = [req EXCEPT ![t] = Idle]
      /\ UNCHANGED <<channels, relays, nextRelay, nextGroup, nextMember>>
  BY DEF ReplaceRelayLayout, seqVars
<1>2. /\ r \in Ids(nextRelay) /\ gs \in SUBSET Ids(nextGroup) /\ IsFiniteSet(gs) /\ IsFiniteSet(ms)
  BY <1>1, LayoutRequest
<1>3. IsTable(groups', GroupRows(relays)) /\ DOMAIN groups' = DOMAIN groups
  <2>1. ASSUME NEW g \in DOMAIN groups PROVE groups'[g] \in GroupRows(relays)
    <3>1. groups[g] \in GroupRows(relays)
      BY <1>0 DEF IsTable
    <3>2. CASE g \in gs \cap GroupsOf(r)
      <4>1. r \in relays
        BY <3>1, <3>2 DEF GroupRows
      <4>2. l.gpos[g] \in Int
        BY <1>1, <1>2, <3>2, LayoutFields
      <4>3. groups'[g] = GroupRow(r, l.gpos[g])
        BY <1>1, <3>2
      <4> QED BY <4>1, <4>2, <4>3 DEF GroupRows
    <3>3. CASE g \notin gs \cap GroupsOf(r)
      BY <1>1, <3>1, <3>3
    <3> QED BY <3>2, <3>3
  <2>2. DOMAIN groups' = DOMAIN groups
    BY <1>1
  <2>3. groups' = [g \in DOMAIN groups |-> groups'[g]]
    BY <1>1
  <2> QED BY <2>1, <2>2, <2>3 DEF IsTable
<1>4. IsTable(members', MemberRows(relays, nextGroup, channels)) /\ DOMAIN members' = DOMAIN members
  <2>1. ASSUME NEW m \in DOMAIN members PROVE members'[m] \in MemberRows(relays, nextGroup, channels)
    <3>1. members[m] \in MemberRows(relays, nextGroup, channels)
      BY <1>0 DEF IsTable
    <3>2. CASE m \in kept
      <4>1. r \in relays /\ members[m].channel \in channels
        BY <3>1, <3>2 DEF MemberRows
      <4>2. l.group[m] \in Ids(nextGroup) /\ l.no[m] \in Nat /\ PosInGroup(l, m) \in Int
        <5>1. m \in ms
          BY <3>2
        <5>2. l.group[m] \in gs /\ l.no[m] \in Nat
          BY <1>1, <1>2, <5>1, LayoutFields
        <5>3. PosInGroup(l, m) \in Nat
          BY <1>1, <1>2, <5>1, PosInGroupOrder
        <5> QED BY <1>2, <5>2, <5>3
      <4>3. members'[m] = MemberRow(r, l.group[m], members[m].channel, l.no[m], PosInGroup(l, m))
        BY <1>1, <3>2
      <4> HIDE DEF MemberRow, Ids, r
      <4> QED BY <4>1, <4>2, <4>3, MemberRowType
    <3>3. CASE m \notin kept
      BY <1>1, <3>1, <3>3
    <3> QED BY <3>2, <3>3
  <2>2. DOMAIN members' = DOMAIN members
    BY <1>1
  <2>3. members' = [m \in DOMAIN members |-> members'[m]]
    BY <1>1
  <2> QED BY <2>1, <2>2, <2>3 DEF IsTable
<1>5. Requests' = Requests /\ Idle \in Requests
  BY <1>1 DEF Requests
<1>6. req' \in [Threads -> Requests']
  <2> HIDE DEF Idle
  <2> QED BY <1>0, <1>1, <1>5
<1> HIDE DEF Ids, r
<1> QED BY <1>0, <1>1, <1>2, <1>3, <1>4, <1>6, TypeParts, TypePartsPrime

LEMMA ImportTypes ==
  ASSUME TypeOK, NEW entries \in Entries, ImportRelay(entries)
  PROVE  TypeOK'
<1> DEFINE n == Cardinality(TitlesOf(entries))
           k == Cardinality(DOMAIN entries)
           created == IF n = 0 THEN 1 ELSE n
           newGroups == [g \in nextGroup..(nextGroup + created - 1) |->
                           GroupRow(nextRelay, g - nextGroup)]
           Entry(m) == entries[m - nextMember + 1]
           Ord(m) == Cardinality({j \in nextMember..(m-1) : Entry(j).title = Entry(m).title})
           newMembers == [m \in nextMember..(nextMember + k - 1) |->
             MemberRow(nextRelay, nextGroup + GroupOrd(entries, Entry(m).title), Entry(m).channel, 0, Ord(m))]
           ms == Insert(members, newMembers)
<1>0. /\ nextRelay \in Nat \ {0} /\ nextGroup \in Nat \ {0} /\ nextMember \in Nat \ {0}
      /\ relays \subseteq Ids(nextRelay) /\ raced \subseteq Ids(nextRelay) /\ channels \subseteq Channels
      /\ DOMAIN groups \subseteq Ids(nextGroup) /\ IsTable(groups, GroupRows(relays))
      /\ DOMAIN members \subseteq Ids(nextMember) /\ IsTable(members, MemberRows(relays, nextGroup, channels))
      /\ req \in [Threads -> Requests]
  BY TypeParts
<1>1. /\ relays' = relays \cup {nextRelay} /\ groups' = Insert(groups, newGroups)
      /\ members' = Renumber(ms, groups', nextRelay)
      /\ channels' = channels \cup {entries[i].channel : i \in DOMAIN entries}
      /\ nextRelay' = nextRelay + 1 /\ nextGroup' = nextGroup + created /\ nextMember' = nextMember + k
      /\ UNCHANGED <<req, raced>>
  BY DEF ImportRelay
<1>2. k \in Nat /\ DOMAIN entries = 1 .. k
  BY TitlesFinite
<1>3. n \in Nat /\ created \in Nat \ {0}
  BY TitlesFinite, FS_CardinalityType
<1>4. \A i \in DOMAIN entries : entries[i].channel \in Channels
  <2>1. PICK j \in 0 .. MaxEntries : entries \in [1 .. j -> [channel : Channels, title : Titles]]
    BY DEF Entries
  <2> QED BY <2>1
<1>5. /\ nextRelay' \in Nat \ {0} /\ nextGroup' \in Nat \ {0} /\ nextMember' \in Nat \ {0}
      /\ nextRelay <= nextRelay' /\ nextGroup <= nextGroup' /\ nextMember <= nextMember'
      /\ Ids(nextRelay) \subseteq Ids(nextRelay') /\ nextRelay \in Ids(nextRelay')
      /\ Ids(nextGroup) \subseteq Ids(nextGroup') /\ Ids(nextMember) \subseteq Ids(nextMember')
  <2> HIDE DEF n, k, created
  <2> QED BY <1>0, <1>1, <1>2, <1>3
<1>6. IsTable(newGroups, GroupRows(relays')) /\ DOMAIN newGroups \subseteq Ids(nextGroup')
  <2> HIDE DEF created
  <2>1. DOMAIN newGroups = nextGroup..(nextGroup + created - 1)
    OBVIOUS
  <2>2. \A g \in DOMAIN newGroups : newGroups[g] \in GroupRows(relays')
    BY <1>0, <1>1, <1>3 DEF GroupRows
  <2>3. DOMAIN newGroups \subseteq Ids(nextGroup')
    BY <1>0, <1>1, <1>3, <2>1
  <2> QED BY <2>2, <2>3 DEF IsTable
<1>7. ASSUME NEW m \in DOMAIN newMembers
      PROVE  newMembers[m] \in MemberRows(relays', nextGroup', channels')
  <2>1. m \in Int /\ m - nextMember + 1 \in DOMAIN entries
    BY <1>0, <1>2
  <2>2. Entry(m).title \in TitlesOf(entries) /\ Entry(m).channel \in channels'
    BY <1>1, <2>1 DEF TitlesOf
  <2>3. n # 0 /\ GroupOrd(entries, Entry(m).title) \in 0..(n - 1)
    BY <2>2, TitlesFinite, ImportGroup
  <2>4. nextGroup + GroupOrd(entries, Entry(m).title) \in Ids(nextGroup')
    <3>1. created = n
      BY <2>3
    <3> HIDE DEF created, n, Entry
    <3> QED BY <1>0, <1>1, <1>3, <2>3, <3>1
  <2>5. Ord(m) \in Nat
    <3> DEFINE S == {j \in nextMember..(m-1) : Entry(j).title = Entry(m).title}
    <3>1. S \in SUBSET Ids(nextMember') /\ nextMember' \in Nat \ {0}
      <4> HIDE DEF k
      <4> QED BY <1>0, <1>1, <1>2, <1>5, <2>1
    <3> HIDE DEF S, Ids
    <3>2. Cardinality(S) \in Nat
      BY <3>1, IdsFinite
    <3> QED BY <3>2 DEF S
  <2>6. newMembers[m] = MemberRow(nextRelay, nextGroup + GroupOrd(entries, Entry(m).title),
                                  Entry(m).channel, 0, Ord(m))
    OBVIOUS
  <2>7. nextRelay \in relays' /\ 0 \in Nat /\ Ord(m) \in Int
    BY <1>1, <2>5
  <2> HIDE DEF MemberRow, Ids, Entry, Ord, newMembers
  <2> QED BY <2>2, <2>4, <2>6, <2>7, MemberRowType
<1>8. IsTable(newMembers, MemberRows(relays', nextGroup', channels')) /\ DOMAIN newMembers \subseteq Ids(nextMember')
  <2>1. DOMAIN newMembers \subseteq Ids(nextMember')
    <3> HIDE DEF k
    <3> QED BY <1>0, <1>1, <1>2
  <2>2. newMembers = [m \in DOMAIN newMembers |-> newMembers[m]]
    OBVIOUS
  <2> HIDE DEF newMembers, Ids
  <2> QED BY <1>7, <2>1, <2>2 DEF IsTable
<1> HIDE DEF newGroups, newMembers, Insert, Ids, n, k, created
<1>9. IsTable(groups, GroupRows(relays')) /\ IsTable(members, MemberRows(relays', nextGroup', channels'))
  <2>1. relays \subseteq relays' /\ channels \subseteq channels' /\ nextGroup \in Nat /\ nextGroup' \in Nat
    BY <1>0, <1>1, <1>5
  <2> QED BY <1>0, <1>5, <2>1, RowsGrow
<1>10. IsTable(groups', GroupRows(relays')) /\ DOMAIN groups' \subseteq Ids(nextGroup')
  BY <1>0, <1>1, <1>5, <1>6, <1>9, InsertTable
<1>11. IsTable(ms, MemberRows(relays', nextGroup', channels')) /\ DOMAIN ms \subseteq Ids(nextMember')
  BY <1>0, <1>5, <1>8, <1>9, InsertTable
<1> HIDE DEF ms
<1>12. IsFiniteSet(DOMAIN ms)
  BY <1>5, <1>11, IdsFinite
<1>13. IsTable(members', MemberRows(relays', nextGroup', channels')) /\ DOMAIN members' = DOMAIN ms
  BY <1>1, <1>11, <1>12, RenumberTable
<1>14. req' \in [Threads -> Requests']
  <2>1. Requests \subseteq Requests'
    BY <1>0, <1>5, RequestsGrow
  <2> QED BY <1>0, <1>1, <2>1
<1>15. relays' \subseteq Ids(nextRelay') /\ raced' \subseteq Ids(nextRelay') /\ channels' \subseteq Channels
  BY <1>0, <1>1, <1>4, <1>5
<1> QED BY <1>5, <1>10, <1>11, <1>13, <1>14, <1>15, TypePartsPrime


\* Every step keeps the types; the group of a membership is a group (LayoutInv).
LEMMA NextTypes == TypeOK /\ LayoutInv /\ [Next]_vars => TypeOK'
<1> SUFFICES ASSUME TypeOK, LayoutInv, [Next]_vars PROVE TypeOK'
  OBVIOUS
<1>1. CASE UNCHANGED vars
  BY <1>1 DEF vars, seqVars, TypeOK, Requests
<1>2. ASSUME NEW t \in Threads, CreateGroupFails(t) \/ DeleteGroupFails(t) \/ LayoutFails(t)
      PROVE  TypeOK'
  BY <1>2, ReadsTypes DEF CreateGroupFails, DeleteGroupFails, LayoutFails
<1>3. CASE Next
  <2> HIDE DEF GroupsOf, MembersOf
  <2> QED BY <1>2, <1>3, ReadsTypes, ChannelTypes, CreateTypes, DeleteTypes, MembershipTypes,
             LayoutTypes, ImportTypes DEF Next
<1> QED BY <1>1, <1>3

-----------------------------------------------------------------------------
(***************************************************************************)
(* Numbers.                                                                *)
(***************************************************************************)

\* A step that leaves the lineup of every relay that matters alone.
LEMMA NumbersKept ==
  ASSUME NumbersFollowLineup,
         \A m \in DOMAIN members' : members'[m].relay \notin raced' =>
            /\ m \in DOMAIN members /\ members[m].relay = members'[m].relay
            /\ members[m].relay \notin raced /\ members'[m].number = members[m].number
            /\ SameLineup(members, groups, members', groups', members[m].relay)
  PROVE  NumbersFollowLineup'
<1> SUFFICES ASSUME NEW m \in DOMAIN members', members'[m].relay \notin raced'
             PROVE  members'[m].number = Place(members', groups', m)
  BY DEF NumbersFollowLineup
<1>1. members[m].number = Place(members, groups, m)
  BY DEF NumbersFollowLineup
<1>2. Place(members', groups', m) = Place(members, groups, m)
  BY SamePlace
<1> QED BY <1>1, <1>2

\* A step that renumbers relay r and leaves the others alone.
LEMMA NumbersRenewed ==
  ASSUME NumbersFollowLineup, NEW ms, NEW r, members' = Renumber(ms, groups', r),
         raced \subseteq raced' \cup {r},
         \A m \in DOMAIN ms : ms[m].relay # r =>
            /\ m \in DOMAIN members /\ ms[m] = members[m]
            /\ SameLineup(members, groups, ms, groups', members[m].relay)
  PROVE  NumbersFollowLineup'
<1> SUFFICES ASSUME NEW m \in DOMAIN members', members'[m].relay \notin raced'
             PROVE  members'[m].number = Place(members', groups', m)
  BY DEF NumbersFollowLineup
<1>1. m \in DOMAIN ms /\ members'[m].relay = ms[m].relay
  BY RenumberKeeps
<1>2. /\ Place(members', groups', m) = Place(ms, groups', m)
      /\ members'[m].number = IF ms[m].relay = r THEN Place(ms, groups', m) ELSE ms[m].number
  BY <1>1, RenumberNumbers
<1>3. CASE ms[m].relay = r
  BY <1>2, <1>3
<1>4. CASE ms[m].relay # r
  <2>1. /\ m \in DOMAIN members /\ ms[m] = members[m] /\ members[m].relay \notin raced
        /\ SameLineup(members, groups, ms, groups', members[m].relay)
    BY <1>1, <1>4
  <2>2. members[m].number = Place(members, groups, m)
    BY <2>1 DEF NumbersFollowLineup
  <2>3. Place(ms, groups', m) = Place(members, groups, m)
    BY <2>1, SamePlace
  <2> QED BY <1>2, <1>4, <2>1, <2>2, <2>3
<1> QED BY <1>3, <1>4

\* Requests that write no membership: new groups are empty, channels do not matter.
LEMMA CreateNumbers ==
  ASSUME NumbersFollowLineup, LayoutInv
  PROVE  /\ \A c : CreateChannel(c) \/ DeleteChannel(c) => NumbersFollowLineup'
         /\ CreateRelay => NumbersFollowLineup'
         /\ \A t \in Threads : CreateRelayGroup(t) => NumbersFollowLineup'
<1>1. ASSUME NEW c, CreateChannel(c) \/ DeleteChannel(c) PROVE NumbersFollowLineup'
  BY <1>1 DEF CreateChannel, DeleteChannel, NumbersFollowLineup
<1>2. ASSUME NEW new, groups' = Insert(groups, new), UNCHANGED <<members, raced>> PROVE NumbersFollowLineup'
  <2>1. \A g \in DOMAIN groups : groups'[g] = groups[g]
    BY <1>2
  <2>2. \A m \in DOMAIN members : members[m].group \in DOMAIN groups
    BY DEF LayoutInv, MembersInOwnGroups
  <2>3. \A q : SameLineup(members, groups, members', groups', q)
    BY <1>2, <2>1, <2>2 DEF SameLineup
  <2> QED BY <1>2, <2>3, NumbersKept
<1>3. ASSUME CreateRelay PROVE NumbersFollowLineup'
  BY <1>2, <1>3 DEF CreateRelay
<1>4. ASSUME NEW t \in Threads, CreateRelayGroup(t) PROVE NumbersFollowLineup'
  BY <1>2, <1>4 DEF CreateRelayGroup
<1> QED BY <1>1, <1>3, <1>4

\* Deletions that renumber nothing take a whole relay or an empty group along, or
\* leave the relay raced.
LEMMA DeleteNumbers ==
  ASSUME NumbersFollowLineup, LayoutInv
  PROVE  /\ \A r : DeleteRelay(r) => NumbersFollowLineup'
         /\ \A t \in Threads : DeleteRelayGroup(t) => NumbersFollowLineup'
<1>0. \A m \in DOMAIN members :
        members[m].group \in DOMAIN groups /\ groups[members[m].group].relay = members[m].relay
  BY DEF LayoutInv, MembersInOwnGroups
<1>1. ASSUME NEW r, DeleteRelay(r) PROVE NumbersFollowLineup'
  <2>1. /\ groups' = Remove(groups, GroupsOf(r)) /\ members' = Remove(members, MembersOf(r))
        /\ raced' = raced \ {r}
    BY <1>1 DEF DeleteRelay
  <2>2. /\ DOMAIN members' = {m \in DOMAIN members : members[m].relay # r}
        /\ \A m \in DOMAIN members' : members'[m] = members[m]
        /\ \A g \in DOMAIN groups : groups[g].relay # r => groups'[g] = groups[g]
    BY <2>1
  <2>3. \A q : q # r => SameLineup(members, groups, members', groups', q)
    BY <1>0, <2>2 DEF SameLineup
  <2> QED BY <2>1, <2>2, <2>3, NumbersKept
<1>2. ASSUME NEW t \in Threads, DeleteRelayGroup(t) PROVE NumbersFollowLineup'
  <2> DEFINE r == req[t].relay
             g == req[t].group
             lost == {m \in DOMAIN members : members[m].group = g}
  <2>1. /\ g \in DOMAIN groups /\ groups[g].relay = r
        /\ groups' = Remove(groups, {g}) /\ members' = Remove(members, lost)
        /\ raced' = IF lost = {} THEN raced ELSE raced \cup {r}
    BY <1>2 DEF DeleteRelayGroup
  <2>2. /\ DOMAIN members' = DOMAIN members \ lost
        /\ \A m \in DOMAIN members' : members'[m] = members[m] /\ members[m].group # g
        /\ \A h \in DOMAIN groups : h # g => groups'[h] = groups[h]
    BY <2>1
  <2>3. \A m \in lost : members[m].relay = r
    BY <1>0, <2>1
  <2>4. ASSUME NEW m \in DOMAIN members', members'[m].relay \notin raced'
        PROVE  /\ members[m].relay \notin raced
               /\ SameLineup(members, groups, members', groups', members[m].relay)
    <3>1. m \in DOMAIN members /\ members'[m] = members[m] /\ members[m].relay \notin raced
      BY <2>1, <2>2, <2>4
    <3>2. lost = {} \/ members[m].relay # r
      BY <2>1, <2>4, <3>1
    <3>3. \A n \in DOMAIN members : members[n].relay = members[m].relay => n \notin lost
      BY <2>3, <3>2
    <3> HIDE DEF r
    <3> QED BY <1>0, <2>2, <3>1, <3>3 DEF SameLineup
  <2> HIDE DEF r, g, lost
  <2> QED BY <2>2, <2>4, NumbersKept
<1> QED BY <1>1, <1>2

\* Membership requests renumber their relay.
LEMMA MembershipNumbers ==
  ASSUME NumbersFollowLineup, LayoutInv
  PROVE  /\ \A r, g, c, o : AddMembership(r, g, c, o) => NumbersFollowLineup'
         /\ \A m : DeleteMembership(m) => NumbersFollowLineup'
         /\ \A m, g, c, o : UpdateMembership(m, g, c, o) => NumbersFollowLineup'
<1>1. ASSUME NEW r, NEW g, NEW c, NEW o, AddMembership(r, g, c, o) PROVE NumbersFollowLineup'
  <2> DEFINE ord == IF o = None THEN NextOrd(members, {m \in DOMAIN members : members[m].group = g}) ELSE o
             ms == Insert(members, [m \in {nextMember} |-> MemberRow(r, g, c, 0, ord)])
  <2>1. members' = Renumber(ms, groups', r) /\ groups' = groups /\ raced' = raced \ {r}
    BY <1>1 DEF AddMembership
  <2>2. /\ DOMAIN ms = DOMAIN members \cup {nextMember} /\ nextMember \notin DOMAIN members
        /\ \A m \in DOMAIN members : ms[m] = members[m]
        /\ ms[nextMember].relay = r
    BY DEF LayoutInv
  <2> HIDE DEF ms
  <2>3. \A q : q # r => SameLineup(members, groups, ms, groups', q)
    BY <2>1, <2>2 DEF SameLineup
  <2> QED BY <2>1, <2>2, <2>3, NumbersRenewed
<1>2. ASSUME NEW m, DeleteMembership(m) PROVE NumbersFollowLineup'
  <2> DEFINE ms == Remove(members, {m})
             r == members[m].relay
  <2>1. members' = Renumber(ms, groups', r) /\ groups' = groups /\ raced' = raced \ {r}
    BY <1>2 DEF DeleteMembership
  <2>2. DOMAIN ms = DOMAIN members \ {m} /\ \A n \in DOMAIN ms : ms[n] = members[n]
    OBVIOUS
  <2> HIDE DEF ms
  <2>3. \A q : q # r => SameLineup(members, groups, ms, groups', q)
    BY <2>1, <2>2 DEF SameLineup
  <2> HIDE DEF r
  <2> QED BY <2>1, <2>2, <2>3, NumbersRenewed
<1>3. ASSUME NEW m, NEW g, NEW c, NEW o, UpdateMembership(m, g, c, o) PROVE NumbersFollowLineup'
  <2> DEFINE r == members[m].relay
             ord == IF o = None THEN members[m].ord ELSE o
             ms == [members EXCEPT ![m] = MemberRow(r, g, c, members[m].number, ord)]
  <2>1. /\ members' = Renumber(ms, groups', r) /\ groups' = groups /\ raced' = raced \ {r}
        /\ m \in DOMAIN members
    BY <1>3 DEF UpdateMembership, seqVars
  <2>2. /\ DOMAIN ms = DOMAIN members /\ ms[m].relay = r
        /\ \A n \in DOMAIN ms : n # m => ms[n] = members[n]
    BY <2>1
  <2>3. \A q : q # r => SameLineup(members, groups, ms, groups', q)
    <3> HIDE DEF ms
    <3> QED BY <2>1, <2>2 DEF SameLineup
  <2>4. \A n \in DOMAIN ms : ms[n].relay # r => n # m
    BY <2>2
  <2> HIDE DEF ms, r
  <2> QED BY <2>1, <2>2, <2>3, <2>4, NumbersRenewed
<1> QED BY <1>1, <1>2, <1>3


\* An import numbers the relay it creates.
LEMMA ImportNumbers ==
  ASSUME NumbersFollowLineup, LayoutInv, TypeOK, NEW entries \in Entries, ImportRelay(entries)
  PROVE  NumbersFollowLineup'
<1> DEFINE n == Cardinality(TitlesOf(entries))
           created == IF n = 0 THEN 1 ELSE n
           newGroups == [g \in nextGroup..(nextGroup + created - 1) |->
                           GroupRow(nextRelay, g - nextGroup)]
           Entry(m) == entries[m - nextMember + 1]
           Ord(m) == Cardinality({k \in nextMember..(m-1) : Entry(k).title = Entry(m).title})
           newMembers == [m \in nextMember..(nextMember + Cardinality(DOMAIN entries) - 1) |->
             MemberRow(nextRelay, nextGroup + GroupOrd(entries, Entry(m).title), Entry(m).channel, 0, Ord(m))]
           ms == Insert(members, newMembers)
<1>1. groups' = Insert(groups, newGroups) /\ members' = Renumber(ms, groups', nextRelay) /\ raced' = raced
  BY DEF ImportRelay
<1>2. \A m \in DOMAIN newMembers : newMembers[m].relay = nextRelay
  OBVIOUS
<1> HIDE DEF newGroups, newMembers
<1>3. /\ DOMAIN ms = DOMAIN members \cup DOMAIN newMembers
      /\ \A m \in DOMAIN members : ms[m] = members[m]
      /\ \A m \in DOMAIN ms : m \notin DOMAIN members => ms[m].relay = nextRelay
      /\ \A g \in DOMAIN groups : groups'[g] = groups[g]
  BY <1>1, <1>2
<1>4. \A m \in DOMAIN members : members[m].group \in DOMAIN groups
  BY DEF LayoutInv, MembersInOwnGroups
<1> HIDE DEF ms
<1>5. \A q : q # nextRelay => SameLineup(members, groups, ms, groups', q)
  BY <1>3, <1>4 DEF SameLineup
<1> QED BY <1>1, <1>3, <1>5, NumbersRenewed

\* A layout made from the present lineup numbers its relay by position; one made
\* from a stale lineup leaves the relay raced.
LEMMA LayoutNumbers ==
  ASSUME NumbersFollowLineup, LayoutInv, TypeOK, NEW t \in Threads, NEW l, ReplaceRelayLayout(t, l)
  PROVE  NumbersFollowLineup'
<1> DEFINE r == req[t].relay
           gs == req[t].groups
           ms == req[t].members
           kept == ms \cap MembersOf(r)
<1>1. /\ req[t].pc = "layout" /\ l \in Layouts(gs, ms)
      /\ \A m \in kept : l.group[m] \in DOMAIN groups
      /\ groups' = [g \in DOMAIN groups |->
           IF g \in gs \cap GroupsOf(r) THEN GroupRow(r, l.gpos[g]) ELSE groups[g]]
      /\ members' = [m \in DOMAIN members |->
           IF m \in kept THEN MemberRow(r, l.group[m], members[m].channel, l.no[m], PosInGroup(l, m))
                         ELSE members[m]]
      /\ raced' = IF ms = MembersOf(r) THEN raced \ {r} ELSE raced \cup {r}
  BY DEF ReplaceRelayLayout
<1>2. /\ IsFiniteSet(gs) /\ IsFiniteSet(ms) /\ ms \in SUBSET Int
  BY <1>1, LayoutRequest
<1>3. /\ DOMAIN members' = DOMAIN members
      /\ \A m \in DOMAIN members : members'[m].relay = members[m].relay
      /\ \A m \in DOMAIN members : members[m].relay # r => members'[m] = members[m]
      /\ \A g \in DOMAIN groups : groups[g].relay # r => groups'[g] = groups[g]
  BY <1>1
<1>4. \A m \in DOMAIN members :
        members[m].group \in DOMAIN groups /\ groups[members[m].group].relay = members[m].relay
  BY DEF LayoutInv, MembersInOwnGroups
<1>5. \A q : q # r => SameLineup(members, groups, members', groups', q)
  <2> HIDE DEF r
  <2> QED BY <1>3, <1>4 DEF SameLineup
<1> SUFFICES ASSUME NEW m \in DOMAIN members', members'[m].relay \notin raced'
             PROVE  members'[m].number = Place(members', groups', m)
  BY DEF NumbersFollowLineup
<1>6. CASE members'[m].relay # r
  <2>1. /\ members'[m] = members[m] /\ members[m].relay \notin raced /\ m \in DOMAIN members
        /\ members[m].relay # r
    BY <1>1, <1>3, <1>6
  <2>2. Place(members', groups', m) = Place(members, groups, m)
    <3> HIDE DEF r
    <3> QED BY <1>5, <2>1, SamePlace
  <2>3. members[m].number = Place(members, groups, m)
    BY <2>1 DEF NumbersFollowLineup
  <2> QED BY <2>1, <2>2, <2>3
<1>7. CASE members'[m].relay = r
  <2>1. ms = MembersOf(r) /\ m \in ms /\ kept = ms
    BY <1>1, <1>3, <1>7
  <2>2. ASSUME NEW n \in ms
        PROVE  /\ n \in DOMAIN members' /\ members'[n].relay = r /\ members'[n].group = l.group[n]
               /\ members'[n].number = l.no[n] /\ members'[n].ord = PosInGroup(l, n)
               /\ groups'[l.group[n]].ord = l.gpos[l.group[n]]
    <3>1. n \in DOMAIN members /\ n \in kept
      BY <2>1
    <3>2. members'[n] = MemberRow(r, l.group[n], members[n].channel, l.no[n], PosInGroup(l, n))
      BY <1>1, <3>1
    <3>3. l.group[n] \in gs /\ l.group[n] \in DOMAIN groups
      BY <1>1, <1>2, <3>1, LayoutFields
    <3>4. groups[l.group[n]].relay = r
      BY <1>1, <3>3 DEF LayoutInv
    <3>5. groups'[l.group[n]] = GroupRow(r, l.gpos[l.group[n]])
      BY <1>1, <3>3, <3>4
    <3> QED BY <1>3, <3>1, <3>2, <3>5
  <2>3. ASSUME NEW n \in ms PROVE Before(members', groups', n, m) <=> l.no[n] < l.no[m]
    <3>1. Before(members', groups', n, m) <=>
            \/ l.gpos[l.group[n]] < l.gpos[l.group[m]]
            \/ l.gpos[l.group[n]] = l.gpos[l.group[m]] /\ PosInGroup(l, n) < PosInGroup(l, m)
            \/ l.gpos[l.group[n]] = l.gpos[l.group[m]] /\ PosInGroup(l, n) = PosInGroup(l, m) /\ n < m
      <4>1. /\ groups'[members'[n].group].ord = l.gpos[l.group[n]] /\ members'[n].ord = PosInGroup(l, n)
            /\ groups'[members'[m].group].ord = l.gpos[l.group[m]] /\ members'[m].ord = PosInGroup(l, m)
        BY <2>1, <2>2
      <4> QED BY <4>1, Zenon DEF Before
    <3>2. (\/ l.gpos[l.group[n]] < l.gpos[l.group[m]]
           \/ l.gpos[l.group[n]] = l.gpos[l.group[m]] /\ PosInGroup(l, n) < PosInGroup(l, m)
           \/ l.gpos[l.group[n]] = l.gpos[l.group[m]] /\ PosInGroup(l, n) = PosInGroup(l, m) /\ n < m)
          <=> l.no[n] < l.no[m]
      <4> HIDE DEF gs, ms
      <4> QED BY <1>1, <1>2, <2>1, LayoutOrder
    <3> QED BY <3>1, <3>2
  <2> DEFINE A == {n \in DOMAIN members' : members'[n].relay = members'[m].relay /\ Before(members', groups', n, m)}
             B == {n \in ms : l.no[n] < l.no[m]}
  <2>4. A = B
    <3>1. \A n : n \in DOMAIN members' /\ members'[n].relay = r <=> n \in ms
      BY <1>3, <2>1
    <3> HIDE DEF r, ms
    <3> QED BY <1>7, <2>3, <3>1
  <2>5. Cardinality(B) = l.no[m] - 1
    <3> HIDE DEF gs, ms, r, kept, A, B
    <3>1. IsFiniteSet(gs) /\ IsFiniteSet(ms) /\ l \in Layouts(gs, ms) /\ m \in ms
      BY <1>1, <1>2, <2>1
    <3>2. Cardinality({n \in ms : l.no[n] < l.no[m]}) = l.no[m] - 1
      BY <3>1, LayoutPlace
    <3> QED BY <3>2 DEF B
  <2>6. Place(members', groups', m) = 1 + Cardinality(A)
    BY DEF Place
  <2>7. members'[m].number = l.no[m] /\ l.no[m] \in Nat
    <3>1. l.no[m] \in Nat
      BY <1>1, <1>2, <2>1, LayoutFields
    <3> QED BY <2>1, <2>2, <3>1
  <2> HIDE DEF A, B
  <2> QED BY <2>4, <2>5, <2>6, <2>7
<1> QED BY <1>6, <1>7

\* Every step keeps the numbers.
LEMMA NextNumbers == NumbersFollowLineup /\ LayoutInv /\ TypeOK /\ [Next]_vars => NumbersFollowLineup'
<1> SUFFICES ASSUME NumbersFollowLineup, LayoutInv, TypeOK, [Next]_vars PROVE NumbersFollowLineup'
  OBVIOUS
<1>1. CASE UNCHANGED <<groups, members, raced>>
  BY <1>1 DEF NumbersFollowLineup
<1>2. ASSUME NEW t \in Threads,
             \/ CreateGroupFails(t) \/ DeleteGroupFails(t) \/ LayoutFails(t) \/ LayoutReadsMembers(t)
             \/ \E r \in relays : \/ CreateGroupReads(t, r) \/ LayoutReadsGroups(t, r)
                                  \/ \E g \in GroupsOf(r) : DeleteGroupCounts(t, r, g)
      PROVE  UNCHANGED <<groups, members, raced>>
  BY <1>2 DEF CreateGroupFails, DeleteGroupFails, LayoutFails, Fails, LayoutReadsMembers,
              CreateGroupReads, LayoutReadsGroups, DeleteGroupCounts
<1>3. CASE Next
  <2> HIDE DEF GroupsOf, MembersOf
  <2> QED BY <1>1, <1>2, <1>3, CreateNumbers, DeleteNumbers, MembershipNumbers, ImportNumbers,
             LayoutNumbers DEF Next
<1> QED BY <1>1, <1>3 DEF vars

\* The invariant of the lineups: types, groups and numbers.
THEOREM LineupInvariance == Spec => [](TypeOK /\ LayoutInv /\ NumbersFollowLineup)
<1>1. Init => TypeOK /\ LayoutInv /\ NumbersFollowLineup
  BY InitTypes, InitLayoutInv DEF Init, NumbersFollowLineup
<1>2. TypeOK /\ LayoutInv /\ NumbersFollowLineup /\ [Next]_vars
        => (TypeOK /\ LayoutInv /\ NumbersFollowLineup)'
  BY NextTypes, NextLayoutInv, NextNumbers
<1> QED BY <1>1, <1>2, PTL DEF Spec

\* The tables keep their types and foreign keys in every interleaving of requests.
THEOREM LayoutTypeCorrect == Spec => []TypeOK
BY LineupInvariance, PTL

\* Channel numbers follow the lineup of every relay of which no request wrote a
\* stale version, for any number of groups and memberships.
THEOREM NumbersAreLineup == Spec => []NumbersFollowLineup
BY LineupInvariance, PTL

=============================================================================
