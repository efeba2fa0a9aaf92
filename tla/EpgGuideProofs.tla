--------------------------- MODULE EpgGuideProofs ---------------------------
(***************************************************************************)
(* What has settled is right: the types of the EPG service, and that       *)
(* guides are current, generations purged and guide files owned, however   *)
(* the worker, the timers and restarts interleave with any number of       *)
(* concurrent requests; and that a request on its own misses only what its *)
(* read-back after the commit does not give it.                            *)
(***************************************************************************)
EXTENDS EpgWorkerProofs, SequenceTheorems

-----------------------------------------------------------------------------
(***************************************************************************)
(* Requests.                                                               *)
(***************************************************************************)
Handler == [pc : {"idle", "begun", "committed", "applying"}, held : BOOLEAN, seen : {None} \cup Rows,
            change : Changes, todo : Seq(Work)]

\* The items of a list of work.
Items(work) == {work[i] : i \in DOMAIN work}

LEMMA HandlerFields ==
  ASSUME HandlerInv, NEW h \in Handlers
  PROVE  /\ handler[h] \in Handler /\ handler[h].todo \in Seq(Work) /\ handler[h].held \in BOOLEAN
         /\ handler[h].change \in Changes
         /\ Todo(h) = Items(handler[h].todo) /\ Todo(h) \subseteq Work
         /\ handler[h].pc = "begun" => handler[h].seen \in Rows
         /\ handler[h].pc # "committed" => handler[h].change = NoChange
         /\ handler[h].pc # "applying" => handler[h].todo = <<>> /\ Todo(h) = {}
         /\ handler[h].change.op = "source" => handler[h].held
         /\ \A w \in Todo(h) : w.op = "delete" => handler[h].held
<1>1. handler[h] \in Handler
  BY DEF HandlerInv, Handler
<1>2. /\ handler[h].todo \in Seq(Work) /\ handler[h].held \in BOOLEAN
      /\ handler[h].change \in Changes
  BY <1>1 DEF Handler
<1>3. Todo(h) = Items(handler[h].todo)
  BY DEF Todo, Items
<1>4. Items(handler[h].todo) \subseteq Work
  BY <1>2, ElementOfSeq DEF Items
<1>5. handler[h].todo = <<>> => Todo(h) = {}
  BY DEF Todo
<1> QED BY <1>1, <1>2, <1>3, <1>4, <1>5 DEF HandlerInv

\* The items that are left after the first one.
LEMMA TailItems ==
  ASSUME NEW work \in Seq(Work), work # <<>>
  PROVE  /\ Tail(work) \in Seq(Work) /\ Head(work) \in Items(work) /\ Head(work) \in Work
         /\ Items(Tail(work)) \subseteq Items(work)
         /\ Items(work) \subseteq Items(Tail(work)) \cup {Head(work)}
<1>1. /\ Tail(work) \in Seq(Work) /\ Head(work) \in Work /\ Head(work) = work[1]
      /\ Len(work) \in Nat /\ Len(work) >= 1 /\ Len(Tail(work)) = Len(work) - 1
      /\ \A i \in 1 .. Len(Tail(work)) : Tail(work)[i] = work[i + 1]
      /\ DOMAIN work = 1 .. Len(work) /\ DOMAIN Tail(work) = 1 .. Len(Tail(work))
  BY HeadTailProperties, LenProperties, EmptySeq
<1>2. Head(work) \in Items(work)
  <2>1. 1 \in DOMAIN work
    BY <1>1
  <2> QED BY <1>1, <2>1 DEF Items
<1>3. Items(Tail(work)) \subseteq Items(work)
  <2> SUFFICES ASSUME NEW i \in DOMAIN Tail(work) PROVE Tail(work)[i] \in Items(work)
    BY DEF Items
  <2>1. i + 1 \in DOMAIN work /\ Tail(work)[i] = work[i + 1]
    BY <1>1
  <2> QED BY <2>1 DEF Items
<1>4. Items(work) \subseteq Items(Tail(work)) \cup {Head(work)}
  <2> SUFFICES ASSUME NEW i \in DOMAIN work, work[i] # Head(work) PROVE work[i] \in Items(Tail(work))
    BY DEF Items
  <2>1. i # 1
    BY <1>1
  <2>2. PICK j \in Int : j = i - 1
    BY <1>1
  <2>3. j \in DOMAIN Tail(work) /\ j + 1 = i
    BY <1>1, <2>1, <2>2
  <2>4. Tail(work)[j] = work[i]
    BY <1>1, <2>3
  <2> QED BY <2>3, <2>4 DEF Items
<1> QED BY <1>1, <1>2, <1>3, <1>4

LEMMA NoChangeFields == NoChange \in Changes /\ NoChange.op = "none"
BY DEF NoChange, Changes

LEMMA NoItems == Items(<<>>) = {}
BY DEF Items

\* What a request is at each of its stages.
Fits(x) ==
  /\ x \in Handler
  /\ x.pc = "begun" => x.seen \in Rows
  /\ x.pc # "committed" => x.change = NoChange
  /\ x.pc # "applying" => x.todo = <<>>
  /\ x.change.op = "source" => x.held
  /\ \A w \in Items(x.todo) : w.op = "delete" => x.held

\* The request of h moves to x.
LEMMA HandlerMoves ==
  ASSUME HandlerInv, NEW h \in Handlers, NEW x, Fits(x), handler' = [handler EXCEPT ![h] = x]
  PROVE  /\ HandlerInv' /\ handler'[h] = x /\ Todo(h)' = Items(x.todo)
         /\ \A g \in Handlers \ {h} : handler'[g] = handler[g] /\ Todo(g)' = Todo(g)
<1>1. handler \in [Handlers -> Handler] /\ x \in Handler
  BY DEF HandlerInv, Handler, Fits
<1>2. handler' \in [Handlers -> Handler] /\ handler'[h] = x
  BY <1>1
<1>3. \A g \in Handlers \ {h} : handler'[g] = handler[g]
  BY <1>1
<1>4. Todo(h)' = Items(x.todo)
  BY <1>2 DEF Todo, Items
<1>5. \A g \in Handlers \ {h} : Todo(g)' = Todo(g)
  BY <1>3 DEF Todo
<1>6. ASSUME NEW g \in Handlers
      PROVE  /\ handler'[g].pc = "begun" => handler'[g].seen \in Rows
             /\ handler'[g].pc # "committed" => handler'[g].change = NoChange
             /\ handler'[g].pc # "applying" => handler'[g].todo = <<>>
             /\ handler'[g].change.op = "source" => handler'[g].held
             /\ \A w \in Todo(g)' : w.op = "delete" => handler'[g].held
  <2>1. CASE g = h
    BY <1>2, <1>4, <2>1 DEF Fits
  <2>2. CASE g # h
    BY <1>3, <1>5, <2>2, HandlerFields
  <2> QED BY <2>1, <2>2
<1>7. HandlerInv'
  BY <1>2, <1>6 DEF HandlerInv, Handler
<1> QED BY <1>2, <1>3, <1>4, <1>5, <1>7

-----------------------------------------------------------------------------
(***************************************************************************)
(* Types, in parts that change together.                                   *)
(***************************************************************************)
DbTypes ==
  /\ url \in [Sources -> URLs \cup {None, Gone}]
  /\ enabled \in [Sources -> BOOLEAN]
  /\ slug \in [Relays -> Slugs \cup {None, Gone}]
  /\ mapping \in [Relays -> SUBSET LiveSources]
  /\ DbInv

HistoryTypes ==
  /\ lastRefresh \subseteq Sources /\ published \subseteq Sources
  /\ intervalUp \subseteq Sources /\ skipped \subseteq Sources /\ broken \subseteq Relays
  /\ unpurged \subseteq Sources /\ leftover \subseteq Slugs
  /\ moved \in [Handlers -> SUBSET Relays]

FileTypes ==
  /\ gens \in Nat
  /\ manifest \in [Sources -> {None} \cup [gen : 1..gens, url : URLs]]
  /\ cache \in [Slugs -> Docs]

QueueTypes ==
  /\ pendingSources \subseteq Sources /\ pendingDeleteSources \subseteq Sources
  /\ pendingRelays \subseteq Relays /\ deferred \subseteq Relays
  /\ cleanups \in [Relays -> SUBSET Slugs]
  /\ sourceRev \in [Sources -> Nat]
  /\ nextRetry \in [Sources -> {"none", "waiting", "past"}]
  /\ admitOpen \in BOOLEAN

AllTypes == DbTypes /\ HistoryTypes /\ FileTypes /\ QueueTypes /\ HandlerInv /\ JobInv /\ WakeInv

\* The parts say what TypeInv and WakeInv say.
LEMMA TypeInvParts == AllTypes <=> TypeInv /\ WakeInv
<1>1. ASSUME AllTypes PROVE TypeInv /\ WakeInv
  <2>1. job.doc \in Docs
    BY <1>1 DEF AllTypes, JobInv
  <2> QED BY <1>1, <2>1
       DEF AllTypes, DbTypes, HistoryTypes, FileTypes, QueueTypes, TypeInv, TypeOK, WakeInv
<1>2. ASSUME TypeInv, WakeInv PROVE AllTypes
  BY <1>2 DEF AllTypes, DbTypes, HistoryTypes, FileTypes, QueueTypes, TypeInv, TypeOK
<1> QED BY <1>1, <1>2

\* Rows, requests and admission are not the worker's to change.
LEMMA WorkerKeepsRows ==
  ASSUME WorkerStep
  PROVE  UNCHANGED <<url, enabled, slug, mapping, handler, moved, sourceRev, admitOpen>>
<1> USE DEF dbVars, serviceVars, queueVars, historyVars
<1>1. CASE WorkerWakes \/ TimerFires \/ DrainPhase
  BY <1>1 DEF WorkerWakes, TimerFires, DrainPhase, PhaseOver
<1>2. CASE \E s \in Sources : DeleteFiles(s) \/ TakeSource(s)
  BY <1>2 DEF DeleteFiles, TakeSource
<1>3. CASE SourceMissing \/ SourceBackingOff \/ SourceRead \/ FetchFails \/ FetchSource
  BY <1>3 DEF SourceMissing, SourceBackingOff, SourceRead, FetchFails, FetchSource
<1>4. CASE DiscardStale \/ WriteGeneration \/ WriteSourceFails \/ Recheck \/ PublishManifest \/ MarkRefresh
  BY <1>4 DEF DiscardStale, WriteGeneration, WriteSourceFails, Recheck, PublishManifest, MarkRefresh
<1>5. CASE \E r \in Relays : TakeRelay(r) \/ TakeCleanup(r)
  BY <1>5 DEF TakeRelay, TakeCleanup
<1>6. CASE (\E sl \in Slugs : CleanupSlug(sl)) \/ CleanupDone
  BY <1>6 DEF CleanupSlug, CleanupDone
<1>7. CASE RelayIncomplete \/ RelayMerge \/ WriteRelayCache \/ WriteFails
  BY <1>7 DEF RelayIncomplete, RelayMerge, WriteRelayCache, WriteFails
<1> QED BY <1>1, <1>2, <1>3, <1>4, <1>5, <1>6, <1>7 DEF WorkerStep

\* What applying the derived work leaves alone.
LEMMA ApplyKeeps ==
  ASSUME NEW h \in Handlers, HandlerApplies(h)
  PROVE  /\ UNCHANGED <<dbVars, fileVars, admitOpen, nextRetry, worker, job, intervalUp, published, skipped,
                        broken, unpurged, leftover, requests>>
         /\ moved' = moved \/ moved' = [moved EXCEPT ![h] = {}]
BY DEF HandlerApplies, ApplyInvalidate, ApplyDelete, ApplyRefresh, ApplyDue, ApplyRebuild, ApplyCleanup,
       Finish, Apply, serviceVars, historyVars

\* The steps that are neither a worker's nor a request's.
Other ==
  \/ \E h \in Handlers, admit \in BOOLEAN : Begin(h, admit)
  \/ \E s \in LiveSources : RefreshRequest({s})
  \/ RefreshRequest({s \in LiveSources : enabled[s]})
  \/ \E r \in Relays : CleanupRetryDue(r)
  \/ \E s \in Sources : BackoffOver(s) \/ IntervalElapses(s)
  \/ CloseAdmission

\* What they leave alone.
LEMMA OtherKeeps ==
  ASSUME Other
  PROVE  UNCHANGED <<dbVars, fileVars, worker, job, cleanups, pendingRelays, pendingDeleteSources,
                     published, skipped, moved, broken, unpurged, leftover>>
BY DEF Other, Begin, RefreshRequest, EnqueueSources, CleanupRetryDue, BackoffOver, IntervalElapses,
       CloseAdmission, serviceVars, queueVars, threadVars, historyVars

\* The kinds of steps.
LEMMA NextKinds ==
  ASSUME Next
  PROVE  \/ \E h \in Handlers : HandlerCommits(h) \/ HandlerDerives(h) \/ HandlerApplies(h)
         \/ \E r \in Relays, sl \in Slugs : CreateRelay(r, sl)
         \/ WorkerStep \/ Other \/ Restart
BY Zenon DEF Next, Other


LEMMA DbFrame ==
  ASSUME DbTypes, UNCHANGED <<url, enabled, slug, mapping>>
  PROVE  DbTypes'
BY DEF DbTypes, DbInv, LiveSources, LiveRelays

\* The rows of the sources change: no mapped source goes away.
LEMMA DbSources ==
  ASSUME DbTypes, NEW s \in Sources, NEW u \in URLs \cup {Gone}, NEW on \in BOOLEAN,
         url' = [url EXCEPT ![s] = u], enabled' = [enabled EXCEPT ![s] = on],
         u = Gone => Unmapped(s), UNCHANGED <<slug, mapping>>
  PROVE  DbTypes'
<1>1. url' \in [Sources -> URLs \cup {None, Gone}] /\ enabled' \in [Sources -> BOOLEAN]
  BY DEF DbTypes
<1>2. ASSUME NEW r \in Relays, NEW t \in mapping[r] PROVE t \in LiveSources'
  <2>1. t \in Sources /\ Exists(url[t])
    BY DEF DbTypes, LiveSources
  <2>2. Exists(url'[t])
    BY <2>1, EpgAssumption DEF DbTypes, Exists, Unmapped
  <2> QED BY <2>1, <2>2 DEF LiveSources
<1>3. mapping' \in [Relays -> SUBSET LiveSources']
  BY <1>2 DEF DbTypes
<1> QED BY <1>1, <1>3 DEF DbTypes, DbInv, LiveRelays

\* A relay gets a slug nobody else has.
LEMMA DbSlug ==
  ASSUME DbTypes, NEW r \in Relays, NEW sl \in Slugs, Owners(sl) \subseteq {r},
         slug' = [slug EXCEPT ![r] = sl], UNCHANGED <<url, enabled, mapping>>
  PROVE  DbTypes'
<1>1. slug' \in [Relays -> Slugs \cup {None, Gone}] /\ Exists(sl)
  BY EpgAssumption DEF DbTypes, Exists
<1>2. LiveSources' = LiveSources
  BY DEF LiveSources
<1>3. DbInv'
  BY <1>1 DEF DbTypes, DbInv, LiveRelays, Owners
<1> QED BY <1>1, <1>2, <1>3 DEF DbTypes

\* Existing relays get a new mapping.
LEMMA DbMapping ==
  ASSUME DbTypes, NEW rs \in SUBSET LiveRelays, NEW new \in [rs -> SUBSET LiveSources],
         mapping' = [r \in Relays |-> IF r \in rs THEN new[r] ELSE mapping[r]],
         UNCHANGED <<url, enabled, slug>>
  PROVE  DbTypes'
<1>1. LiveSources' = LiveSources /\ LiveRelays' = LiveRelays
  BY DEF LiveSources, LiveRelays
<1>2. mapping' \in [Relays -> SUBSET LiveSources]
  BY DEF DbTypes
<1>3. DbInv'
  BY <1>1 DEF DbTypes, DbInv, LiveRelays
<1> QED BY <1>1, <1>2, <1>3 DEF DbTypes

LEMMA DbStep ==
  ASSUME AllTypes, Next
  PROVE  DbTypes'
<1>0. DbTypes
  BY DEF AllTypes
<1>1. ASSUME NEW h \in Handlers, NEW s \in Sources, NEW u \in URLs, NEW on \in BOOLEAN,
             CreateEPGSource(h, s, u, on)
      PROVE  DbTypes'
  <2>1. u # Gone /\ u \in URLs \cup {Gone}
    BY EpgAssumption
  <2>2. url' = [url EXCEPT ![s] = u] /\ enabled' = [enabled EXCEPT ![s] = on] /\ UNCHANGED <<slug, mapping>>
    BY <1>1 DEF CreateEPGSource
  <2> QED BY <1>0, <2>1, <2>2, DbSources
<1>2. ASSUME NEW h \in Handlers, NEW s \in Sources, NEW u \in URLs, NEW on \in BOOLEAN,
             UpdateEPGSource(h, s, u, on)
      PROVE  DbTypes'
  <2>1. u # Gone /\ u \in URLs \cup {Gone}
    BY EpgAssumption
  <2>2. url' = [url EXCEPT ![s] = u] /\ enabled' = [enabled EXCEPT ![s] = on] /\ UNCHANGED <<slug, mapping>>
    BY <1>2 DEF UpdateEPGSource
  <2> QED BY <1>0, <2>1, <2>2, DbSources
<1>3. ASSUME NEW h \in Handlers, NEW s \in Sources, DeleteEPGSource(h, s) PROVE DbTypes'
  <2>1. enabled' = [enabled EXCEPT ![s] = FALSE] /\ FALSE \in BOOLEAN
    BY <1>3 DEF DeleteEPGSource
  <2>2. Gone \in URLs \cup {Gone}
    OBVIOUS
  <2>3. url' = [url EXCEPT ![s] = Gone] /\ Unmapped(s) /\ UNCHANGED <<slug, mapping>>
    BY <1>3 DEF DeleteEPGSource
  <2> QED BY <1>0, <2>1, <2>2, <2>3, DbSources
<1>4. ASSUME NEW h \in Handlers, NEW r \in Relays, NEW sl \in Slugs, UpdateRelay(h, r, sl) PROVE DbTypes'
  BY <1>0, <1>4, DbSlug DEF UpdateRelay
<1>5. ASSUME NEW h \in Handlers, NEW r \in Relays, DeleteRelay(h, r) PROVE DbTypes'
  <2>1. /\ slug' = [slug EXCEPT ![r] = Gone] /\ mapping' = [mapping EXCEPT ![r] = {}]
        /\ UNCHANGED <<url, enabled>>
    BY <1>5 DEF DeleteRelay
  <2>2. LiveSources' = LiveSources
    BY <2>1 DEF LiveSources
  <2>3. slug' \in [Relays -> Slugs \cup {None, Gone}] /\ mapping' \in [Relays -> SUBSET LiveSources]
    BY <1>0, <2>1 DEF DbTypes
  <2>4. DbInv'
    BY <1>0, <2>1 DEF DbTypes, DbInv, LiveRelays, Exists
  <2> QED BY <1>0, <2>1, <2>2, <2>3, <2>4 DEF DbTypes
<1>6. ASSUME NEW h \in Handlers, NEW r \in Relays, NEW ss \in SUBSET LiveSources, NEW rebuild \in BOOLEAN,
             ChangeMembership(h, r, ss, rebuild)
      PROVE  DbTypes'
  <2>1. Exists(slug[r]) /\ mapping' = [mapping EXCEPT ![r] = ss] /\ UNCHANGED <<url, enabled, slug>>
    BY <1>6 DEF ChangeMembership
  <2>2. {r} \in SUBSET LiveRelays /\ [q \in {r} |-> ss] \in [{r} -> SUBSET LiveSources]
    BY <2>1 DEF LiveRelays
  <2>3. mapping' = [q \in Relays |-> IF q \in {r} THEN [p \in {r} |-> ss][q] ELSE mapping[q]]
    BY <1>0, <2>1 DEF DbTypes
  <2> QED BY <1>0, <2>1, <2>2, <2>3, DbMapping
<1>7. ASSUME NEW h \in Handlers, NEW rs \in SUBSET LiveRelays, NEW new \in [rs -> SUBSET LiveSources],
             UpdateChannel(h, rs, new)
      PROVE  DbTypes'
  BY <1>0, <1>7, DbMapping DEF UpdateChannel
<1>8. ASSUME NEW r \in Relays, NEW sl \in Slugs, CreateRelay(r, sl) PROVE DbTypes'
  BY <1>0, <1>8, DbSlug DEF CreateRelay
<1>9. CASE WorkerStep \/ Other \/ Restart \/ \E h \in Handlers : HandlerDerives(h) \/ HandlerApplies(h)
  <2>1. UNCHANGED <<url, enabled, slug, mapping>>
    BY <1>9, WorkerKeepsRows, OtherKeeps, DeriveKeeps, ApplyKeeps DEF Restart, dbVars
  <2> QED BY <1>0, <2>1, DbFrame
<1>10. ASSUME NEW h \in Handlers, HandlerCommits(h) PROVE DbTypes'
  BY <1>1, <1>2, <1>3, <1>4, <1>5, <1>6, <1>7, <1>10 DEF HandlerCommits
<1> QED BY <1>8, <1>9, <1>10, NextKinds


\* What a committed change can call for is among the rows it knows.
LEMMA CallsForTypes ==
  ASSUME NEW c \in Changes
  PROVE  /\ \A s \in Sources : CallsForPurge(c, s) => c.was \in URLs /\ c.now \in URLs
         /\ \A sl : CallsForCleanup(c, sl) => sl \in Slugs
         /\ \A r : CallsForRebuild(c, r) => r \in Relays
BY DEF Changes, NoChange, CallsForPurge, CallsForCleanup, CallsForRebuild

LEMMA HistoryStep ==
  ASSUME AllTypes, Next
  PROVE  HistoryTypes'
<1> USE DEF historyVars, dbVars, HistoryTypes
<1>0. HistoryTypes /\ DbTypes /\ QueueTypes /\ JobInv
  BY DEF AllTypes
<1>1. ASSUME NEW h \in Handlers, HandlerCommits(h) PROVE HistoryTypes'
  <2>0. UNCHANGED <<intervalUp, skipped>>
    BY <1>1, CommitKeeps
  <2>a. ASSUME NEW rs \in SUBSET Relays, Moves(h, rs) PROVE moved' \in [Handlers -> SUBSET Relays]
    BY <1>0, <2>a DEF Moves
  <2>b. \A r \in Relays : Exists(slug[r]) => slug[r] \in Slugs
    BY <1>0 DEF DbTypes, Exists
  <2>c. ASSUME NEW r \in Relays PROVE {r} \in SUBSET Relays
    OBVIOUS
  <2>1. ASSUME NEW s \in Sources, NEW u \in URLs, NEW on \in BOOLEAN,
               CreateEPGSource(h, s, u, on) \/ UpdateEPGSource(h, s, u, on)
        PROVE  HistoryTypes'
    <3>1. published' \subseteq published /\ UNCHANGED <<lastRefresh, moved, broken, unpurged, leftover>>
      BY <2>1 DEF CreateEPGSource, UpdateEPGSource, CommitFirst
    <3> QED BY <1>0, <2>0, <3>1
  <2>2. ASSUME NEW s \in Sources, DeleteEPGSource(h, s) PROVE HistoryTypes'
    BY <1>0, <2>0, <2>2 DEF DeleteEPGSource
  <2>3. ASSUME NEW r \in Relays, NEW sl \in Slugs, UpdateRelay(h, r, sl) PROVE HistoryTypes'
    BY <1>0, <2>0, <2>3 DEF UpdateRelay, CommitFirst
  <2>4. ASSUME NEW r \in Relays, DeleteRelay(h, r) PROVE HistoryTypes'
    <3>1. /\ leftover' \subseteq leftover \cup {slug[r]} /\ Moves(h, {r})
          /\ UNCHANGED <<lastRefresh, published, broken, unpurged>> /\ Exists(slug[r])
      BY <2>4 DEF DeleteRelay
    <3> QED BY <1>0, <2>0, <2>a, <2>b, <2>c, <3>1
  <2>5. ASSUME NEW r \in Relays, NEW ss \in SUBSET LiveSources, NEW rebuild \in BOOLEAN,
               ChangeMembership(h, r, ss, rebuild)
        PROVE  HistoryTypes'
    <3>1. /\ broken' \subseteq broken \cup {r} /\ Moves(h, {r})
          /\ UNCHANGED <<lastRefresh, published, unpurged, leftover>>
      BY <2>5 DEF ChangeMembership
    <3> QED BY <1>0, <2>0, <2>a, <2>c, <3>1
  <2>6. ASSUME NEW rs \in SUBSET LiveRelays, NEW new \in [rs -> SUBSET LiveSources],
               UpdateChannel(h, rs, new)
        PROVE  HistoryTypes'
    <3>1. /\ Moves(h, rs) /\ rs \in SUBSET Relays
          /\ UNCHANGED <<lastRefresh, published, broken, unpurged, leftover>>
      BY <2>6 DEF UpdateChannel, CommitFirst, LiveRelays
    <3> QED BY <1>0, <2>0, <2>a, <3>1
  <2> QED BY <1>1, <2>1, <2>2, <2>3, <2>4, <2>5, <2>6 DEF HandlerCommits
<1>2. ASSUME NEW h \in Handlers, HandlerApplies(h) PROVE HistoryTypes'
  BY <1>0, <1>2, ApplyKeeps
<1>3. ASSUME NEW r \in Relays, NEW sl \in Slugs, CreateRelay(r, sl) PROVE HistoryTypes'
  BY <1>0, <1>3 DEF CreateRelay
<1>4. CASE Other
  <2>1. intervalUp' \subseteq Sources
    BY <1>0, <1>4 DEF Other, Begin, RefreshRequest, CleanupRetryDue, BackoffOver, IntervalElapses,
                      CloseAdmission, LiveSources
  <2> QED BY <1>0, <1>4, <2>1, OtherKeeps
<1>5. CASE Restart
  BY <1>0, <1>5 DEF Restart
<1>6. CASE WorkerStep
  <2>1. CASE WorkerWakes \/ TimerFires \/ DrainPhase
    BY <1>0, <2>1 DEF WorkerWakes, TimerFires, DrainPhase, PhaseOver
  <2>2. CASE \E s \in Sources : DeleteFiles(s) \/ TakeSource(s)
    BY <1>0, <2>2 DEF DeleteFiles, TakeSource
  <2>3. CASE SourceMissing \/ SourceBackingOff \/ SourceRead
    BY <1>0, <2>3 DEF SourceMissing, SourceBackingOff, SourceRead, JobInv, At
  <2>4. CASE FetchFails \/ FetchSource \/ DiscardStale \/ WriteGeneration \/ WriteSourceFails \/ Recheck
             \/ PublishManifest
    BY <1>0, <2>4 DEF FetchFails, FetchSource, DiscardStale, WriteGeneration, WriteSourceFails, Recheck,
                      PublishManifest
  <2>5. CASE MarkRefresh
    BY <1>0, <2>5 DEF MarkRefresh, JobInv, At, FetchPC
  <2>6. CASE \E r \in Relays : TakeRelay(r) \/ TakeCleanup(r)
    BY <1>0, <2>6 DEF TakeRelay, TakeCleanup
  <2>7. CASE (\E sl \in Slugs : CleanupSlug(sl)) \/ CleanupDone
    BY <1>0, <2>7 DEF CleanupSlug, CleanupDone
  <2>8. CASE RelayIncomplete \/ RelayMerge \/ WriteRelayCache \/ WriteFails
    BY <1>0, <2>8 DEF RelayIncomplete, RelayMerge, WriteRelayCache, WriteFails, JobInv, At
  <2> QED BY <1>6, <2>1, <2>2, <2>3, <2>4, <2>5, <2>6, <2>7, <2>8 DEF WorkerStep
<1>7. ASSUME NEW h \in Handlers, HandlerDerives(h) PROVE HistoryTypes'
  <2>1. /\ unpurged' \subseteq unpurged \cup Sources /\ broken' \subseteq broken \cup Relays
        /\ leftover' \subseteq leftover \cup Slugs /\ moved' = [moved EXCEPT ![h] = {}]
    <3>1. ASSUME NEW work, NEW excused, Derive(h, work, excused)
          PROVE  /\ unpurged' \subseteq unpurged \cup Sources /\ broken' \subseteq broken \cup Relays
                 /\ leftover' \subseteq leftover \cup Slugs /\ moved' = [moved EXCEPT ![h] = {}]
      BY <3>1 DEF Derive, RelaysReferencingSource
    <3> QED BY <1>7, <3>1, DeriveDerives
  <2> QED BY <1>0, <1>7, <2>1, DeriveKeeps
<1> QED BY <1>1, <1>2, <1>3, <1>4, <1>5, <1>6, <1>7, NextKinds

\* Documents stay documents when generations are added.
LEMMA DocsGrow ==
  ASSUME gens \in Nat, gens' \in Nat, gens <= gens'
  PROVE  Docs \subseteq Docs'
<1>1. 1 .. gens \subseteq 1 .. gens'
  OBVIOUS
<1>2. ASSUME NEW ss \in SUBSET Sources, NEW g \in [ss -> 1 .. gens] PROVE g \in [ss -> 1 .. gens']
  BY <1>1
<1> QED BY <1>2 DEF Docs

LEMMA FileStep ==
  ASSUME AllTypes, Next
  PROVE  FileTypes' /\ gens' \in Nat /\ gens <= gens'
<1> USE DEF fileVars
<1>0. /\ gens \in Nat /\ cache \in [Slugs -> Docs]
      /\ manifest \in [Sources -> {None} \cup [gen : 1..gens, url : URLs]]
  BY DEF AllTypes, FileTypes
<1>a. None \in Docs
  BY DEF Docs
<1>b. gens' = gens => Docs' = Docs
  BY DEF Docs
<1>1. CASE UNCHANGED fileVars
  BY <1>0, <1>1, <1>b DEF FileTypes
<1>2. ASSUME NEW s \in Sources, manifest' = [manifest EXCEPT ![s] = None], UNCHANGED <<cache, gens>>
      PROVE  FileTypes' /\ gens' \in Nat /\ gens <= gens'
  BY <1>0, <1>2, <1>b DEF FileTypes
<1>3. ASSUME NEW sl \in Slugs, NEW d \in Docs, cache' = [cache EXCEPT ![sl] = d], UNCHANGED <<manifest, gens>>
      PROVE  FileTypes' /\ gens' \in Nat /\ gens <= gens'
  BY <1>0, <1>3, <1>b DEF FileTypes
<1>4. CASE PublishManifest
  <2>1. gens' = gens + 1 /\ gens' \in Nat /\ gens <= gens' /\ cache' = cache
    BY <1>0, <1>4 DEF PublishManifest
  <2>2. job.id \in Sources /\ job.url \in URLs
    BY <1>4 DEF PublishManifest, At, AllTypes, JobInv, FetchPC
  <2>3. [gen |-> gens + 1, url |-> job.url] \in [gen : 1..gens', url : URLs]
    BY <1>0, <2>1, <2>2
  <2>4. [gen : 1..gens, url : URLs] \subseteq [gen : 1..gens', url : URLs]
    BY <1>0, <2>1
  <2>5. manifest' \in [Sources -> {None} \cup [gen : 1..gens', url : URLs]]
    BY <1>0, <1>4, <2>2, <2>3, <2>4 DEF PublishManifest
  <2>6. cache' \in [Slugs -> Docs']
    BY <1>0, <2>1, DocsGrow
  <2> QED BY <2>1, <2>5, <2>6 DEF FileTypes
<1>5. CASE Restart
  BY <1>0, <1>5, <1>a, <1>b DEF Restart, FileTypes
<1>6. CASE WorkerStep
  <2>1. CASE WorkerWakes \/ TimerFires \/ DrainPhase
    BY <1>1, <2>1 DEF WorkerWakes, TimerFires, DrainPhase, PhaseOver
  <2>2. ASSUME NEW s \in Sources, DeleteFiles(s) \/ TakeSource(s)
        PROVE  FileTypes' /\ gens' \in Nat /\ gens <= gens'
    BY <1>1, <1>2, <2>2 DEF DeleteFiles, TakeSource
  <2>3. CASE SourceMissing
    BY <1>2, <2>3 DEF SourceMissing, At, AllTypes, JobInv
  <2>4. CASE SourceBackingOff \/ SourceRead \/ FetchFails \/ FetchSource \/ DiscardStale \/ WriteGeneration
             \/ WriteSourceFails \/ Recheck \/ MarkRefresh
    BY <1>1, <2>4 DEF SourceBackingOff, SourceRead, FetchFails, FetchSource, DiscardStale, WriteGeneration,
                      WriteSourceFails, Recheck, MarkRefresh
  <2>5. CASE \E r \in Relays : TakeRelay(r) \/ TakeCleanup(r)
    BY <1>1, <2>5 DEF TakeRelay, TakeCleanup
  <2>6. ASSUME NEW sl \in Slugs, CleanupSlug(sl) PROVE FileTypes' /\ gens' \in Nat /\ gens <= gens'
    BY <1>1, <1>3, <1>a, <2>6 DEF CleanupSlug
  <2>7. CASE CleanupDone \/ RelayIncomplete \/ RelayMerge \/ WriteFails
    BY <1>1, <2>7 DEF CleanupDone, RelayIncomplete, RelayMerge, WriteFails
  <2>8. CASE WriteRelayCache
    <3>1. job.slug \in Slugs /\ job.doc \in Docs
      BY <2>8 DEF WriteRelayCache, At, AllTypes, JobInv
    <3> QED BY <1>3, <2>8, <3>1 DEF WriteRelayCache
  <2> QED BY <1>4, <1>6, <2>1, <2>2, <2>3, <2>4, <2>5, <2>6, <2>7, <2>8 DEF WorkerStep
<1>7. CASE Other \/ \E h \in Handlers : HandlerCommits(h) \/ HandlerDerives(h) \/ HandlerApplies(h)
  BY <1>1, <1>7, OtherKeeps, CommitKeeps, DeriveKeeps, ApplyKeeps
<1>8. CASE \E r \in Relays, sl \in Slugs : CreateRelay(r, sl)
  BY <1>1, <1>8 DEF CreateRelay
<1> QED BY <1>5, <1>6, <1>7, <1>8, NextKinds


\* What the next item of a request's derived work refers to.
LEMMA ItemFields ==
  ASSUME HandlerInv, NEW h \in Handlers, NEW op, Apply(h, op)
  PROVE  /\ Item(h) \in Work /\ Item(h) \in Todo(h) /\ Item(h).op = op
         /\ op \in {"invalidate", "delete", "refresh", "due"} => Item(h).id \in Sources
         /\ op = "rebuild" => Item(h).ids \subseteq Relays
         /\ op = "cleanup" => Item(h).id \in Relays /\ Item(h).slug \in Slugs
<1>1. handler[h].todo \in Seq(Work) /\ handler[h].todo # <<>> /\ Item(h).op = op
  BY HandlerFields DEF Apply, Item
<1>2. Item(h) \in Work /\ Item(h) \in Todo(h)
  BY <1>1, TailItems, HandlerFields DEF Item
<1> QED BY <1>1, <1>2 DEF Work

\* Work is added to queues of its type.
LEMMA QueueEnqueue ==
  ASSUME QueueTypes, UNCHANGED <<nextRetry, admitOpen>>
  PROVE  /\ \A ss \in SUBSET Sources : EnqueueSources(ss) /\ UNCHANGED sourceRev => QueueTypes'
         /\ \A rs \in SUBSET Relays : EnqueueRebuildRelays(rs) /\ UNCHANGED sourceRev => QueueTypes'
         /\ \A s \in Sources : EnqueueDeleteSourceFiles(s) => QueueTypes'
         /\ \A r \in Relays, sl \in Slugs : EnqueueRelayCleanup(r, sl) /\ UNCHANGED sourceRev => QueueTypes'
<1> USE DEF QueueTypes
<1>1. ASSUME NEW ss \in SUBSET Sources, EnqueueSources(ss), UNCHANGED sourceRev PROVE QueueTypes'
  BY <1>1 DEF EnqueueSources
<1>2. ASSUME NEW rs \in SUBSET Relays, EnqueueRebuildRelays(rs), UNCHANGED sourceRev PROVE QueueTypes'
  BY <1>2 DEF EnqueueRebuildRelays
<1>3. ASSUME NEW s \in Sources, EnqueueDeleteSourceFiles(s) PROVE QueueTypes'
  BY <1>3 DEF EnqueueDeleteSourceFiles
<1>4. ASSUME NEW r \in Relays, NEW sl \in Slugs, EnqueueRelayCleanup(r, sl), UNCHANGED sourceRev
      PROVE  QueueTypes'
  BY <1>4 DEF EnqueueRelayCleanup
<1> HIDE DEF QueueTypes
<1> QED BY <1>1, <1>2, <1>3, <1>4

LEMMA QueueApplies ==
  ASSUME AllTypes, NEW h \in Handlers, HandlerApplies(h)
  PROVE  QueueTypes'
<1>0. QueueTypes /\ HandlerInv /\ UNCHANGED <<nextRetry, admitOpen>>
  BY ApplyKeeps DEF AllTypes
<1>1. CASE ApplyInvalidate(h)
  <2>1. Item(h).id \in Sources
    BY <1>0, <1>1, ItemFields DEF ApplyInvalidate
  <2> QED BY <1>0, <1>1, <2>1 DEF ApplyInvalidate, QueueTypes, queueVars
<1>2. CASE ApplyDelete(h)
  <2>1. Item(h).id \in Sources
    BY <1>0, <1>2, ItemFields DEF ApplyDelete
  <2> QED BY <1>0, <1>2, <2>1, QueueEnqueue DEF ApplyDelete
<1>3. CASE ApplyRefresh(h)
  <2>1. {Item(h).id} \in SUBSET Sources
    BY <1>0, <1>3, ItemFields DEF ApplyRefresh
  <2> QED BY <1>0, <1>3, <2>1, QueueEnqueue DEF ApplyRefresh
<1>4. CASE ApplyDue(h)
  <2>1. DueSources \in SUBSET Sources
    BY DEF DueSources, LiveSources
  <2>2. UNCHANGED <<queueVars, sourceRev>> => QueueTypes'
    BY <1>0 DEF QueueTypes, queueVars
  <2> QED BY <1>0, <1>4, <2>1, <2>2, QueueEnqueue DEF ApplyDue
<1>5. CASE ApplyRebuild(h)
  <2>1. Item(h).ids \in SUBSET Relays
    BY <1>0, <1>5, ItemFields DEF ApplyRebuild
  <2> QED BY <1>0, <1>5, <2>1, QueueEnqueue DEF ApplyRebuild
<1>6. CASE ApplyCleanup(h)
  <2>1. Item(h).id \in Relays /\ Item(h).slug \in Slugs
    BY <1>0, <1>6, ItemFields DEF ApplyCleanup
  <2> QED BY <1>0, <1>6, <2>1, QueueEnqueue DEF ApplyCleanup
<1>7. CASE Finish(h)
  BY <1>0, <1>7 DEF Finish, QueueTypes, serviceVars, queueVars
<1> QED BY <1>1, <1>2, <1>3, <1>4, <1>5, <1>6, <1>7 DEF HandlerApplies

LEMMA QueueStep ==
  ASSUME AllTypes, Next
  PROVE  QueueTypes'
<1> USE DEF serviceVars, queueVars
<1>0. QueueTypes
  BY DEF AllTypes
<1>1. CASE UNCHANGED <<admitOpen, pendingSources, pendingRelays, pendingDeleteSources, cleanups, deferred,
                       sourceRev, nextRetry>>
  BY <1>0, <1>1 DEF QueueTypes
<1>2. CASE \E h \in Handlers : HandlerCommits(h) \/ HandlerDerives(h)
  BY <1>1, <1>2, CommitKeeps, DeriveKeeps
<1>3. CASE \E r \in Relays, sl \in Slugs : CreateRelay(r, sl)
  BY <1>1, <1>3 DEF CreateRelay
<1>4. CASE Other
  <2>1. CASE \E h \in Handlers, admit \in BOOLEAN : Begin(h, admit)
    BY <1>1, <2>1 DEF Begin
  <2>2. ASSUME NEW ss \in SUBSET Sources, RefreshRequest(ss) PROVE QueueTypes'
    BY <1>0, <2>2, QueueEnqueue DEF RefreshRequest
  <2>3. LiveSources \subseteq Sources
    BY DEF LiveSources
  <2>4. CASE \E r \in Relays : CleanupRetryDue(r)
    BY <1>0, <2>4 DEF CleanupRetryDue, QueueTypes
  <2>5. CASE \E s \in Sources : BackoffOver(s) \/ IntervalElapses(s)
    BY <1>0, <2>5 DEF BackoffOver, IntervalElapses, QueueTypes
  <2>6. CASE CloseAdmission
    BY <1>0, <2>6 DEF CloseAdmission, QueueTypes
  <2> QED BY <1>4, <2>1, <2>2, <2>3, <2>4, <2>5, <2>6 DEF Other
<1>5. CASE Restart
  BY <1>0, <1>5 DEF Restart, QueueTypes, LiveRelays
<1>6. CASE WorkerStep
  <2>1. CASE WorkerWakes \/ DrainPhase
    BY <1>1, <2>1 DEF WorkerWakes, DrainPhase, PhaseOver
  <2>2. CASE TimerFires
    <3>1. DueSources \in SUBSET Sources
      BY DEF DueSources, LiveSources
    <3> QED BY <1>0, <2>2, <3>1, QueueEnqueue DEF TimerFires
  <2>3. CASE \E s \in Sources : DeleteFiles(s) \/ TakeSource(s)
    BY <1>0, <2>3 DEF DeleteFiles, TakeSource, QueueTypes
  <2>4. CASE SourceMissing \/ SourceBackingOff \/ SourceRead \/ FetchSource \/ DiscardStale \/ WriteGeneration
             \/ WriteSourceFails \/ Recheck
    BY <1>1, <2>4 DEF SourceMissing, SourceBackingOff, SourceRead, FetchSource, DiscardStale, WriteGeneration,
                      WriteSourceFails, Recheck
  <2>5. CASE FetchFails \/ PublishManifest
    BY <1>0, <2>5 DEF FetchFails, PublishManifest, QueueTypes
  <2>6. CASE MarkRefresh
    <3>1. RelaysReferencingSource(job.id) \in SUBSET Relays
      BY DEF RelaysReferencingSource
    <3> QED BY <1>0, <2>6, <3>1, QueueEnqueue DEF MarkRefresh
  <2>7. CASE \E r \in Relays : TakeRelay(r) \/ TakeCleanup(r)
    BY <1>0, <2>7 DEF TakeRelay, TakeCleanup, QueueTypes
  <2>8. CASE \E sl \in Slugs : CleanupSlug(sl)
    BY <1>1, <2>8 DEF CleanupSlug
  <2>9. CASE CleanupDone
    <3>1. job.id \in Relays /\ job.slugs \subseteq Slugs
      BY <2>9 DEF CleanupDone, At, AllTypes, JobInv
    <3> QED BY <1>0, <2>9, <3>1 DEF CleanupDone, QueueTypes
  <2>10. CASE RelayIncomplete \/ RelayMerge \/ WriteRelayCache \/ WriteFails
    BY <1>1, <2>10 DEF RelayIncomplete, RelayMerge, WriteRelayCache, WriteFails
  <2> QED BY <1>6, <2>1, <2>2, <2>3, <2>4, <2>5, <2>6, <2>7, <2>8, <2>9, <2>10 DEF WorkerStep
<1> QED BY <1>2, <1>3, <1>4, <1>5, <1>6, QueueApplies, NextKinds


-----------------------------------------------------------------------------
(***************************************************************************)
(* The fields of requests and of the worker's job.                         *)
(***************************************************************************)

\* A commit of typed work moves its request to it, and only that request.
LEMMA CommitMoves ==
  ASSUME HandlerInv, NEW h \in Handlers, handler[h].pc = "begun", NEW work \in Seq(Work), Commit(h, work),
         \A w \in Items(work) : w.op = "delete" => handler[h].held
  PROVE  /\ HandlerInv' /\ Todo(h)' = Items(work) /\ handler'[h].pc = "applying"
         /\ handler'[h].change = NoChange
         /\ \A g \in Handlers \ {h} : handler'[g] = handler[g] /\ Todo(g)' = Todo(g)
<1>1. handler[h] \in Handler /\ handler \in [Handlers -> Handler] /\ handler[h].change = NoChange
  BY HandlerFields DEF HandlerInv, Handler
<1> DEFINE x == [handler[h] EXCEPT !.pc = "applying", !.seen = None, !.todo = work]
<1>2. handler' = [handler EXCEPT ![h] = x]
  BY <1>1 DEF Commit
<1>3. /\ x \in Handler /\ x.pc = "applying" /\ x.todo = work /\ x.held = handler[h].held
      /\ x.change = NoChange
  BY <1>1 DEF Handler
<1>4. Fits(x)
  BY <1>1, <1>3, NoChangeFields DEF Fits
<1> HIDE DEF x
<1>5. /\ HandlerInv' /\ handler'[h] = x /\ Todo(h)' = Items(x.todo)
      /\ \A g \in Handlers \ {h} : handler'[g] = handler[g] /\ Todo(g)' = Todo(g)
  BY <1>2, <1>4, HandlerMoves
<1> QED BY <1>3, <1>5

\* A commit whose work is derived from another read leaves its request the change.
LEMMA CommitFirstMoves ==
  ASSUME HandlerInv, NEW h \in Handlers, handler[h].pc = "begun", NEW change \in Changes,
         CommitFirst(h, change), change.op = "source" => handler[h].held
  PROVE  /\ HandlerInv' /\ Todo(h)' = {} /\ handler'[h].pc = "committed" /\ handler'[h].change = change
         /\ \A g \in Handlers \ {h} : handler'[g] = handler[g] /\ Todo(g)' = Todo(g)
<1>1. handler[h] \in Handler /\ handler \in [Handlers -> Handler] /\ handler[h].todo = <<>>
  BY HandlerFields DEF HandlerInv, Handler
<1> DEFINE x == [handler[h] EXCEPT !.pc = "committed", !.seen = None, !.change = change]
<1>2. handler' = [handler EXCEPT ![h] = x]
  BY <1>1 DEF CommitFirst
<1>3. /\ x \in Handler /\ x.pc = "committed" /\ x.todo = <<>> /\ x.held = handler[h].held
      /\ x.change = change
  BY <1>1 DEF Handler
<1>4. Fits(x)
  BY <1>1, <1>3, NoItems DEF Fits
<1> HIDE DEF x
<1>5. /\ HandlerInv' /\ handler'[h] = x /\ Todo(h)' = Items(x.todo)
      /\ \A g \in Handlers \ {h} : handler'[g] = handler[g] /\ Todo(g)' = Todo(g)
  BY <1>2, <1>4, HandlerMoves
<1> QED BY <1>3, <1>5, NoItems

\* A request that derives typed work goes on with it, and owes nothing more.
LEMMA DeriveMoves ==
  ASSUME HandlerInv, NEW h \in Handlers, handler[h].pc = "committed", NEW work \in Seq(Work), NEW excused,
         Derive(h, work, excused), \A w \in Items(work) : w.op = "delete" => handler[h].held
  PROVE  /\ HandlerInv' /\ Todo(h) = {} /\ Todo(h)' = Items(work) /\ handler'[h].pc = "applying"
         /\ handler'[h].change = NoChange
         /\ \A g \in Handlers \ {h} : handler'[g] = handler[g] /\ Todo(g)' = Todo(g)
<1>1. handler[h] \in Handler /\ handler \in [Handlers -> Handler] /\ Todo(h) = {}
  BY HandlerFields DEF HandlerInv, Handler
<1> DEFINE x == [handler[h] EXCEPT !.pc = "applying", !.change = NoChange, !.todo = work]
<1>2. handler' = [handler EXCEPT ![h] = x]
  BY <1>1 DEF Derive
<1>3. /\ x \in Handler /\ x.pc = "applying" /\ x.todo = work /\ x.held = handler[h].held
      /\ x.change = NoChange
  BY <1>1, NoChangeFields DEF Handler
<1>4. Fits(x)
  BY <1>1, <1>3, NoChangeFields DEF Fits
<1> HIDE DEF x
<1>5. /\ HandlerInv' /\ handler'[h] = x /\ Todo(h)' = Items(x.todo)
      /\ \A g \in Handlers \ {h} : handler'[g] = handler[g] /\ Todo(g)' = Todo(g)
  BY <1>2, <1>4, HandlerMoves
<1> QED BY <1>1, <1>3, <1>5

\* An item of derived work is applied; the others remain.
LEMMA ApplyMoves ==
  ASSUME HandlerInv, NEW h \in Handlers, NEW op, Apply(h, op)
  PROVE  /\ HandlerInv' /\ Todo(h)' \subseteq Todo(h) /\ Todo(h) \subseteq Todo(h)' \cup {Item(h)}
         /\ handler'[h].pc = handler[h].pc /\ handler[h].pc = "applying"
         /\ handler'[h].change = handler[h].change /\ handler[h].change = NoChange
         /\ \A g \in Handlers \ {h} : handler'[g] = handler[g] /\ Todo(g)' = Todo(g)
<1>1. /\ handler[h] \in Handler /\ handler \in [Handlers -> Handler] /\ Todo(h) = Items(handler[h].todo)
      /\ handler[h].todo \in Seq(Work) /\ handler[h].todo # <<>> /\ handler[h].pc = "applying"
      /\ handler[h].change = NoChange
      /\ \A w \in Todo(h) : w.op = "delete" => handler[h].held
  BY HandlerFields DEF HandlerInv, Handler, Apply
<1> DEFINE x == [handler[h] EXCEPT !.todo = Tail(handler[h].todo)]
<1>2. handler' = [handler EXCEPT ![h] = x]
  BY <1>1 DEF Apply
<1>3. /\ Tail(handler[h].todo) \in Seq(Work)
      /\ Items(Tail(handler[h].todo)) \subseteq Items(handler[h].todo)
      /\ Items(handler[h].todo) \subseteq Items(Tail(handler[h].todo)) \cup {Item(h)}
  BY <1>1, TailItems DEF Item
<1>4. /\ x \in Handler /\ x.pc = handler[h].pc /\ x.todo = Tail(handler[h].todo) /\ x.held = handler[h].held
      /\ x.change = NoChange
  BY <1>1, <1>3 DEF Handler
<1> HIDE DEF x
<1>5. Fits(x)
  <2>1. \A w \in Items(x.todo) : w.op = "delete" => x.held
    BY <1>1, <1>3, <1>4
  <2> QED BY <1>1, <1>4, <2>1, NoChangeFields DEF Fits
<1>6. /\ HandlerInv' /\ handler'[h] = x /\ Todo(h)' = Items(x.todo)
      /\ \A g \in Handlers \ {h} : handler'[g] = handler[g] /\ Todo(g)' = Todo(g)
  BY <1>2, <1>5, HandlerMoves
<1> QED BY <1>1, <1>3, <1>4, <1>6

\* A request ends.
LEMMA FinishMoves ==
  ASSUME HandlerInv, NEW h \in Handlers, Finish(h)
  PROVE  /\ HandlerInv' /\ handler'[h] = IdleHandler /\ handler[h].change = NoChange
         /\ \A g \in Handlers : Todo(g)' = Todo(g)
         /\ \A g \in Handlers \ {h} : handler'[g] = handler[g]
<1>1. Todo(h) = Items(handler[h].todo) /\ handler[h].change = NoChange
  BY HandlerFields DEF Finish
<1>2. handler[h].todo = <<>> /\ handler' = [handler EXCEPT ![h] = IdleHandler]
  BY DEF Finish
<1>3. /\ IdleHandler \in Handler /\ IdleHandler.pc = "idle" /\ IdleHandler.todo = <<>> /\ Items(<<>>) = {}
      /\ IdleHandler.change = NoChange
  BY NoChangeFields DEF Handler, IdleHandler, Items
<1>4. Fits(IdleHandler)
  BY <1>3, NoChangeFields DEF Fits
<1>5. /\ HandlerInv' /\ handler'[h] = IdleHandler /\ Todo(h)' = Items(IdleHandler.todo)
      /\ \A g \in Handlers \ {h} : handler'[g] = handler[g] /\ Todo(g)' = Todo(g)
  BY <1>2, <1>4, HandlerMoves
<1> QED BY <1>1, <1>2, <1>3, <1>5

\* A request begins: it has read the rows.
LEMMA BeginMoves ==
  ASSUME HandlerInv, DbTypes, NEW h \in Handlers, NEW admit \in BOOLEAN, Begin(h, admit)
  PROVE  /\ HandlerInv' /\ Todo(h)' = {} /\ Todo(h) = {}
         /\ handler'[h].seen = [url |-> url, enabled |-> enabled, slug |-> slug]
         /\ handler'[h].change = NoChange /\ handler[h].change = NoChange
         /\ \A g \in Handlers \ {h} : handler'[g] = handler[g] /\ Todo(g)' = Todo(g)
<1> DEFINE rows == [url |-> url, enabled |-> enabled, slug |-> slug]
           x == [handler[h] EXCEPT !.pc = "begun", !.held = admit, !.seen = rows]
<1>1. /\ handler \in [Handlers -> Handler] /\ handler[h] \in Handler /\ handler[h].todo = <<>>
      /\ handler[h].change = NoChange
  BY DEF HandlerInv, Handler, Begin, IdleHandler
<1>2. handler' = [handler EXCEPT ![h] = x]
  BY <1>1 DEF Begin
<1>3. rows \in Rows
  BY DEF Rows, DbTypes
<1>4. /\ x \in Handler /\ x.pc = "begun" /\ x.todo = <<>> /\ x.seen = rows /\ x.change = NoChange
  BY <1>1, <1>3 DEF Handler
<1>5. Fits(x)
  BY <1>3, <1>4, NoItems, NoChangeFields DEF Fits
<1> HIDE DEF x
<1>6. /\ HandlerInv' /\ handler'[h] = x /\ Todo(h)' = Items(x.todo)
      /\ \A g \in Handlers \ {h} : handler'[g] = handler[g] /\ Todo(g)' = Todo(g)
  BY <1>2, <1>5, HandlerMoves
<1>7. Todo(h) = {}
  BY <1>1 DEF Todo
<1> QED BY <1>1, <1>4, <1>6, <1>7, NoItems

\* After a restart there are no requests.
LEMMA RestartMoves ==
  ASSUME Restart
  PROVE  HandlerInv' /\ \A h \in Handlers : handler'[h] = IdleHandler /\ Todo(h)' = {}
<1>1. handler' = [h \in Handlers |-> IdleHandler]
  BY DEF Restart
<1>2. /\ IdleHandler \in Handler /\ IdleHandler.pc = "idle" /\ IdleHandler.todo = <<>>
      /\ IdleHandler.change = NoChange
  BY NoChangeFields DEF Handler, IdleHandler
<1>3. \A h \in Handlers : handler'[h] = IdleHandler /\ Todo(h)' = {}
  BY <1>1 DEF Todo, IdleHandler
<1> QED BY <1>1, <1>2, <1>3, NoChangeFields DEF HandlerInv, Handler


\* Short lists of work.
LEMMA ShortLists ==
  ASSUME NEW a \in Work, NEW b \in Work
  PROVE  /\ <<>> \in Seq(Work) /\ <<a>> \in Seq(Work) /\ <<a, b>> \in Seq(Work)
         /\ Items(<<>>) = {} /\ Items(<<a>>) = {a} /\ Items(<<a, b>>) = {a, b}
BY DEF Items

\* What is derived from a change of a source: a purge when the URL read back is
\* not the one read first.
LEMMA SourceWorkItems ==
  ASSUME NEW c, NEW s \in Sources, c.id = s, NEW newInterval \in BOOLEAN
  PROVE  /\ SourceWork(c, newInterval) \in Seq(Work)
         /\ c.read # url[s] => [op |-> "delete", id |-> s] \in Items(SourceWork(c, newInterval))
<1> DEFINE i == [op |-> "invalidate", id |-> s]
           d == [op |-> "delete", id |-> s]
           r == [op |-> "refresh", id |-> s]
           e == [op |-> "due", id |-> s]
<1>c. i \in Work /\ d \in Work /\ r \in Work /\ e \in Work
  BY DEF Work
<1>1. /\ i \in Work /\ d \in Work /\ r \in Work /\ e \in Work
      /\ i.op = "invalidate" /\ d.op = "delete" /\ r.op = "refresh" /\ e.op = "due"
  BY DEF Work
<1>2. SourceWork(c, newInterval) =
        IF c.read # url[s] THEN <<i, d>> \o (IF enabled[s] THEN <<r>> ELSE <<>>)
        ELSE IF enabled[s] /\ ~c.wasOn THEN <<r>>
        ELSE IF enabled[s] /\ newInterval THEN <<e>> ELSE <<>>
  BY DEF SourceWork
<1> HIDE DEF i, d, r, e
<1>a. <<r>> \in Seq(Work) /\ <<e>> \in Seq(Work) /\ Items(<<r>>) = {r} /\ Items(<<e>>) = {e}
  BY <1>1, ShortLists
<1>b. /\ <<>> \in Seq(Work) /\ <<i, d>> \in Seq(Work) /\ <<i, d, r>> \in Seq(Work) /\ Items(<<>>) = {}
      /\ Items(<<i, d>>) = {i, d} /\ Items(<<i, d, r>>) = {i, d, r}
  <2>1. <<>> \in Seq(Work) /\ Items(<<>>) = {}
    BY <1>c, ShortLists
  <2>2. <<i, d>> \in Seq(Work) /\ Items(<<i, d>>) = {i, d}
    BY <1>c, ShortLists
  <2>3. <<i, d, r>> \in Seq(Work) /\ Items(<<i, d, r>>) = {i, d, r}
    BY <1>c DEF Items
  <2> QED BY <2>1, <2>2, <2>3
<1>3. <<i, d>> \o <<r>> = <<i, d, r>> /\ <<i, d>> \o <<>> = <<i, d>>
  <2>0. Len(<<i, d>>) = 2 /\ Len(<<r>>) = 1
    OBVIOUS
  <2>1. /\ <<i, d>> \o <<r>> \in Seq(Work) /\ Len(<<i, d>> \o <<r>>) = 3
        /\ \A k \in 1 .. 3 : (<<i, d>> \o <<r>>)[k] = IF k <= 2 THEN <<i, d>>[k] ELSE <<r>>[k - 2]
    <3>1. /\ <<i, d>> \o <<r>> \in Seq(Work) /\ Len(<<i, d>> \o <<r>>) = Len(<<i, d>>) + Len(<<r>>)
          /\ \A k \in 1 .. Len(<<i, d>>) + Len(<<r>>) : (<<i, d>> \o <<r>>)[k] =
               IF k <= Len(<<i, d>>) THEN <<i, d>>[k] ELSE <<r>>[k - Len(<<i, d>>)]
      <4>1. <<i, d>> \in Seq(Work) /\ <<r>> \in Seq(Work)
        BY <1>a, <1>b
      <4> DEFINE a == <<i, d>>
                 b == <<r>>
      <4> HIDE DEF a, b
      <4>2. a \in Seq(Work) /\ b \in Seq(Work)
        BY <4>1 DEF a, b
      <4>3. /\ a \o b \in Seq(Work) /\ Len(a \o b) = Len(a) + Len(b)
            /\ \A k \in 1 .. Len(a) + Len(b) : (a \o b)[k] = IF k <= Len(a) THEN a[k] ELSE b[k - Len(a)]
        BY <4>2, ConcatProperties
      <4> QED BY <4>3 DEF a, b
    <3> QED BY <2>0, <3>1
  <2>2. \A k \in 1 .. 3 : (<<i, d>> \o <<r>>)[k] = <<i, d, r>>[k]
    BY <2>1
  <2>3. Len(<<i, d, r>>) = 3
    OBVIOUS
  <2>4. <<i, d>> \o <<r>> = <<i, d, r>>
    BY <1>b, <2>1, <2>2, <2>3, SeqEqual
  <2> QED BY <1>b, <2>4, ConcatEmptySeq
<1>4. SourceWork(c, newInterval) \in {<<i, d, r>>, <<i, d>>, <<r>>, <<e>>, <<>>}
  BY <1>2, <1>3
<1>5. c.read # url[s] => SourceWork(c, newInterval) \in {<<i, d, r>>, <<i, d>>}
  BY <1>2, <1>3
<1>6. /\ <<>> \in Seq(Work) /\ <<r>> \in Seq(Work) /\ <<e>> \in Seq(Work)
      /\ <<i, d>> \in Seq(Work) /\ <<i, d, r>> \in Seq(Work)
      /\ Items(<<>>) = {} /\ Items(<<r>>) = {r} /\ Items(<<e>>) = {e}
      /\ Items(<<i, d>>) = {i, d} /\ Items(<<i, d, r>>) = {i, d, r}
  BY <1>a, <1>b
<1>7. SourceWork(c, newInterval) \in Seq(Work)
  BY <1>4, <1>6
<1>8. ASSUME c.read # url[s] PROVE d \in Items(SourceWork(c, newInterval))
  BY <1>5, <1>6, <1>8
<1> QED BY <1>7, <1>8 DEF d

\* The requests but h stay as they are.
OthersStay(h) == \A g \in Handlers \ {h} : handler'[g] = handler[g] /\ Todo(g)' = Todo(g)

\* Before it commits, a request has nothing to do and owes nothing.
LEMMA BegunOwesNothing ==
  ASSUME HandlerInv, NEW h \in Handlers, NEW admit, Begun(h, admit)
  PROVE  /\ handler[h].pc = "begun" /\ handler[h].seen \in Rows /\ Todo(h) = {}
         /\ handler[h].change = NoChange /\ handler[h].held = admit
<1>1. handler[h].pc = "begun" /\ handler[h].held = admit
  BY DEF Begun
<1> QED BY <1>1, HandlerFields

\* The changes to sources.
LEMMA CommitCreated ==
  ASSUME HandlerInv, NEW h \in Handlers, NEW s \in Sources, NEW u \in URLs, NEW on \in BOOLEAN,
         CreateEPGSource(h, s, u, on)
  PROVE  HandlerInv' /\ OthersStay(h) /\ handler'[h].pc = "committed"
<1> DEFINE c == [op |-> "created", id |-> s]
<1>1. handler[h].pc = "begun" /\ CommitFirst(h, c)
  BY DEF CreateEPGSource, Begun
<1>2. c \in Changes /\ c.op # "source"
  BY DEF Changes
<1> HIDE DEF c
<1> QED BY <1>1, <1>2, CommitFirstMoves DEF OthersStay

LEMMA CommitSource ==
  ASSUME HandlerInv, DbTypes, NEW h \in Handlers, NEW s \in Sources, NEW u \in URLs, NEW on \in BOOLEAN,
         UpdateEPGSource(h, s, u, on)
  PROVE  /\ HandlerInv' /\ OthersStay(h) /\ handler'[h].pc = "committed"
         /\ handler'[h].change.op = "source" /\ handler'[h].change.id = s
         /\ handler'[h].change.read = handler[h].seen.url[s]
         /\ handler'[h].change.was = url[s] /\ handler'[h].change.now = u
<1> DEFINE c == [op |-> "source", id |-> s, wasOn |-> handler[h].seen.enabled[s],
                 read |-> handler[h].seen.url[s], was |-> url[s], now |-> u]
<1>1. handler[h].pc = "begun" /\ handler[h].held = TRUE /\ CommitFirst(h, c)
  BY DEF UpdateEPGSource, Begun
<1>2. handler[h].seen \in Rows
  BY BegunOwesNothing DEF UpdateEPGSource
<1>3. /\ handler[h].seen.enabled[s] \in BOOLEAN /\ handler[h].seen.url[s] \in URLs
      /\ url[s] \in URLs
  BY <1>2 DEF UpdateEPGSource, Rows, DbTypes, Exists
<1>4. c \in Changes
  BY <1>3 DEF Changes
<1>5. /\ c.op = "source" /\ c.id = s /\ c.read = handler[h].seen.url[s]
      /\ c.was = url[s] /\ c.now = u
  OBVIOUS
<1> HIDE DEF c
<1> QED BY <1>1, <1>4, <1>5, CommitFirstMoves DEF OthersStay

LEMMA CommitDeleted ==
  ASSUME HandlerInv, NEW h \in Handlers, NEW s \in Sources, DeleteEPGSource(h, s)
  PROVE  /\ HandlerInv' /\ OthersStay(h) /\ handler'[h].pc = "applying"
         /\ [op |-> "delete", id |-> s] \in Todo(h)'
<1> DEFINE i == [op |-> "invalidate", id |-> s]
           d == [op |-> "delete", id |-> s]
<1>1. i \in Work /\ d \in Work
  BY DEF Work
<1>2. handler[h].pc = "begun" /\ handler[h].held = TRUE /\ Commit(h, <<i, d>>)
  BY DEF DeleteEPGSource, Begun
<1> HIDE DEF i, d
<1>3. <<i, d>> \in Seq(Work) /\ Items(<<i, d>>) = {i, d}
  BY <1>1, ShortLists
<1>4. /\ HandlerInv' /\ Todo(h)' = {i, d} /\ handler'[h].pc = "applying"
      /\ \A g \in Handlers \ {h} : handler'[g] = handler[g] /\ Todo(g)' = Todo(g)
  BY <1>2, <1>3, CommitMoves
<1> QED BY <1>4 DEF d, OthersStay


\* The changes to relays.
LEMMA CommitRelay ==
  ASSUME HandlerInv, DbTypes, NEW h \in Handlers, NEW r \in Relays, NEW sl \in Slugs, UpdateRelay(h, r, sl)
  PROVE  /\ HandlerInv' /\ OthersStay(h) /\ handler'[h].pc = "committed"
         /\ handler'[h].change.op = "relay" /\ handler'[h].change.id = r
         /\ handler'[h].change.read = handler[h].seen.slug[r]
         /\ handler'[h].change.was = slug[r] /\ handler'[h].change.now = sl
<1> DEFINE c == [op |-> "relay", id |-> r, read |-> handler[h].seen.slug[r], was |-> slug[r], now |-> sl]
<1>1. handler[h].pc = "begun" /\ CommitFirst(h, c)
  BY DEF UpdateRelay, Begun
<1>2. handler[h].seen \in Rows
  BY BegunOwesNothing DEF UpdateRelay
<1>3. handler[h].seen.slug[r] \in Slugs /\ slug[r] \in Slugs
  BY <1>2 DEF UpdateRelay, Rows, DbTypes, Exists
<1>4. c \in Changes
  BY <1>3 DEF Changes
<1>5. /\ c.op = "relay" /\ c.id = r /\ c.read = handler[h].seen.slug[r]
      /\ c.was = slug[r] /\ c.now = sl
  OBVIOUS
<1> HIDE DEF c
<1> QED BY <1>1, <1>4, <1>5, CommitFirstMoves DEF OthersStay

LEMMA CommitNoRelay ==
  ASSUME HandlerInv, NEW h \in Handlers, NEW r \in Relays, DeleteRelay(h, r)
  PROVE  /\ HandlerInv' /\ OthersStay(h) /\ handler'[h].pc = "applying"
         /\ [op |-> "cleanup", id |-> r, slug |-> handler[h].seen.slug[r]] \in Todo(h)'
<1> DEFINE old == handler[h].seen.slug[r]
           c == [op |-> "cleanup", id |-> r, slug |-> old]
<1>1. handler[h].pc = "begun" /\ Exists(old) /\ Commit(h, <<c>>)
  BY DEF DeleteRelay, Begun
<1>2. old \in Slugs
  BY <1>1, BegunOwesNothing DEF DeleteRelay, Rows, Exists
<1>3. c \in Work /\ c.op = "cleanup"
  BY <1>2 DEF Work
<1> HIDE DEF c
<1>4. <<c>> \in Seq(Work) /\ Items(<<c>>) = {c}
  BY <1>3, ShortLists
<1>5. /\ HandlerInv' /\ Todo(h)' = {c} /\ handler'[h].pc = "applying"
      /\ \A g \in Handlers \ {h} : handler'[g] = handler[g] /\ Todo(g)' = Todo(g)
  BY <1>1, <1>3, <1>4, CommitMoves
<1> QED BY <1>5 DEF c, OthersStay

\* The changes to mappings.
LEMMA CommitMapping ==
  ASSUME HandlerInv, NEW h \in Handlers, NEW r \in Relays, NEW ss \in SUBSET LiveSources,
         NEW rebuild \in BOOLEAN, ChangeMembership(h, r, ss, rebuild)
  PROVE  /\ HandlerInv' /\ OthersStay(h) /\ handler'[h].pc = "applying"
         /\ rebuild => [op |-> "rebuild", ids |-> {r}] \in Todo(h)'
<1> DEFINE b == [op |-> "rebuild", ids |-> {r}]
           work == IF rebuild THEN <<b>> ELSE <<>>
<1>1. handler[h].pc = "begun" /\ Commit(h, work)
  BY DEF ChangeMembership, Begun
<1>2. b \in Work /\ b.op = "rebuild"
  BY DEF Work
<1> HIDE DEF b
<1>3. work \in Seq(Work) /\ Items(work) \subseteq {b} /\ (rebuild => b \in Items(work))
  BY <1>2, ShortLists
<1> HIDE DEF work
<1>4. \A w \in Items(work) : w.op = "delete" => handler[h].held
  BY <1>2, <1>3
<1>5. /\ HandlerInv' /\ Todo(h)' = Items(work) /\ handler'[h].pc = "applying"
      /\ \A g \in Handlers \ {h} : handler'[g] = handler[g] /\ Todo(g)' = Todo(g)
  BY <1>1, <1>3, <1>4, CommitMoves
<1> QED BY <1>3, <1>5 DEF b, OthersStay

LEMMA CommitChannel ==
  ASSUME HandlerInv, NEW h \in Handlers, NEW rs \in SUBSET LiveRelays, NEW new \in [rs -> SUBSET LiveSources],
         UpdateChannel(h, rs, new)
  PROVE  /\ HandlerInv' /\ OthersStay(h) /\ handler'[h].pc = "committed"
         /\ handler'[h].change.op = "channel"
         /\ handler'[h].change.changed = {r \in rs : new[r] # mapping[r]}
<1> DEFINE c == [op |-> "channel", changed |-> {r \in rs : new[r] # mapping[r]}]
<1>1. handler[h].pc = "begun" /\ CommitFirst(h, c)
  BY DEF UpdateChannel, Begun
<1>2. c.changed \in SUBSET Relays /\ c.op = "channel" /\ c.changed = {r \in rs : new[r] # mapping[r]}
  BY DEF LiveRelays
<1>3. c \in Changes
  BY <1>2 DEF Changes
<1> HIDE DEF c
<1>4. handler[h].held \/ c.op # "source"
  BY <1>2
<1>5. /\ HandlerInv' /\ handler'[h].pc = "committed" /\ handler'[h].change = c
      /\ \A g \in Handlers \ {h} : handler'[g] = handler[g] /\ Todo(g)' = Todo(g)
  BY <1>1, <1>3, <1>4, CommitFirstMoves
<1>6. OthersStay(h)
  BY <1>5 DEF OthersStay
<1> QED BY <1>2, <1>5, <1>6

\* Every commit.
LEMMA CommitHandlers ==
  ASSUME HandlerInv, DbTypes, NEW h \in Handlers, HandlerCommits(h)
  PROVE  /\ HandlerInv' /\ OthersStay(h) /\ handler'[h].pc \in {"committed", "applying"}
         /\ handler[h].pc = "begun" /\ handler[h].seen \in Rows /\ Todo(h) = {}
         /\ handler[h].change = NoChange
<1> DEFINE G == HandlerInv' /\ OthersStay(h) /\ handler'[h].pc \in {"committed", "applying"}
<1>1. ASSUME NEW s \in Sources, NEW u \in URLs, NEW on \in BOOLEAN,
             CreateEPGSource(h, s, u, on) \/ UpdateEPGSource(h, s, u, on)
      PROVE  G /\ Begun(h, TRUE)
  <2>1. CASE CreateEPGSource(h, s, u, on)
    <3>1. Begun(h, TRUE)
      BY <2>1 DEF CreateEPGSource
    <3>2. HandlerInv' /\ OthersStay(h) /\ handler'[h].pc = "committed"
      BY ONLY HandlerInv, DbTypes, h \in Handlers, s \in Sources, u \in URLs, on \in BOOLEAN,
              <2>1, CommitCreated
    <3> QED BY <3>1, <3>2
  <2>2. CASE UpdateEPGSource(h, s, u, on)
    <3>1. Begun(h, TRUE)
      BY <2>2 DEF UpdateEPGSource
    <3>2. HandlerInv' /\ OthersStay(h) /\ handler'[h].pc = "committed"
      BY ONLY HandlerInv, DbTypes, h \in Handlers, s \in Sources, u \in URLs, on \in BOOLEAN,
              <2>2, CommitSource
    <3> QED BY <3>1, <3>2
  <2> QED BY <1>1, <2>1, <2>2
<1>2. ASSUME NEW s \in Sources, DeleteEPGSource(h, s) PROVE G /\ Begun(h, TRUE)
  BY <1>2, CommitDeleted DEF DeleteEPGSource
<1>3. ASSUME NEW r \in Relays, NEW sl \in Slugs, UpdateRelay(h, r, sl) PROVE G /\ Begun(h, TRUE)
  BY <1>3, CommitRelay DEF UpdateRelay
<1>4. ASSUME NEW r \in Relays, DeleteRelay(h, r) PROVE G /\ Begun(h, TRUE)
  BY <1>4, CommitNoRelay DEF DeleteRelay
<1>5. ASSUME NEW r \in Relays, NEW ss \in SUBSET LiveSources, NEW rebuild \in BOOLEAN,
             ChangeMembership(h, r, ss, rebuild)
      PROVE  G /\ Begun(h, TRUE)
  BY <1>5, CommitMapping DEF ChangeMembership
<1>6. ASSUME NEW rs \in SUBSET LiveRelays, NEW new \in [rs -> SUBSET LiveSources], UpdateChannel(h, rs, new)
      PROVE  G /\ Begun(h, FALSE)
  BY <1>6, CommitChannel DEF UpdateChannel
<1> HIDE DEF G
<1>7. G /\ \E admit \in BOOLEAN : Begun(h, admit)
  BY <1>1, <1>2, <1>3, <1>4, <1>5, <1>6 DEF HandlerCommits
<1> QED BY <1>7, BegunOwesNothing DEF G


\* The work does all that the change calls for.
Complete(c, work) ==
  /\ \A s \in Sources : CallsForPurge(c, s) => [op |-> "delete", id |-> s] \in Items(work)
  /\ \A sl \in Slugs : CallsForCleanup(c, sl) => \E w \in Items(work) : w.op = "cleanup" /\ w.slug = sl
  /\ \A r \in Relays : CallsForRebuild(c, r) => \E w \in Items(work) : w.op = "rebuild" /\ r \in w.ids

\* Another request has changed the row, or the lineup, that this one compares.
Outdated(h) ==
  LET c == handler[h].change IN
  \/ c.op = "source" /\ (c.read # c.was \/ url[c.id] # c.now)
  \/ c.op = "relay" /\ (c.read # c.was \/ slug[c.id] # c.now)
  \/ c.op = "channel" /\ c.changed \cap moved[h] # {}

\* Work is derived from a change once, has the type of work and does all the change
\* calls for, unless the read-back fails or what was read is outdated.
LEMMA DeriveWork ==
  ASSUME HandlerInv, NEW h \in Handlers, HandlerDerives(h)
  PROVE  /\ handler[h].pc = "committed"
         /\ \E work \in Seq(Work), excused \in BOOLEAN :
              /\ Derive(h, work, excused) /\ \A w \in Items(work) : w.op = "delete" => handler[h].held
              /\ excused \/ Complete(handler[h].change, work)
              /\ excused => ReadBackFails(h) \/ Outdated(h)
<1> DEFINE c == handler[h].change
           G(work, excused) ==
             /\ Derive(h, work, excused) /\ \A w \in Items(work) : w.op = "delete" => handler[h].held
             /\ excused \/ Complete(c, work)
             /\ excused => ReadBackFails(h) \/ Outdated(h)
<1>0. c \in Changes /\ (c.op = "source" => handler[h].held)
  BY HandlerFields
<1>a. \A a \in Work : /\ <<>> \in Seq(Work) /\ <<a>> \in Seq(Work)
                      /\ Items(<<>>) = {} /\ Items(<<a>>) = {a}
  BY ShortLists
<1>b. <<>> \in Seq(Work) /\ Items(<<>>) = {}
  BY NoItems, EmptySeq
<1>1. ASSUME DeriveCreated(h) PROVE c.op = "created" /\ \E work \in Seq(Work) : G(work, FALSE)
  <2> DEFINE r == [op |-> "refresh", id |-> c.id]
             work == IF enabled[c.id] THEN <<r>> ELSE <<>>
  <2>1. c.op = "created" /\ Derive(h, work, FALSE)
    BY <1>1 DEF DeriveCreated, Committed
  <2>2. r \in Work /\ r.op = "refresh"
    BY <1>0, <2>1 DEF Work, Changes, NoChange
  <2>3. Complete(c, work)
    BY <2>1 DEF Complete, CallsForPurge, CallsForCleanup, CallsForRebuild
  <2> HIDE DEF r, c
  <2>4. work \in Seq(Work) /\ Items(work) \subseteq {r}
    BY <1>a, <1>b, <2>2
  <2> HIDE DEF work
  <2>5. G(work, FALSE)
    BY <2>1, <2>2, <2>3, <2>4 DEF c
  <2> QED BY <2>1, <2>4, <2>5
<1>2. ASSUME NEW newInterval \in BOOLEAN, DeriveSourceWork(h, newInterval)
      PROVE  c.op = "source" /\ \E work \in Seq(Work), excused \in BOOLEAN : G(work, excused)
  <2> DEFINE work == SourceWork(c, newInterval)
             excused == c.read # c.was \/ url[c.id] # c.now
  <2>1. c.op = "source" /\ Derive(h, work, excused) /\ handler[h].held
    BY <1>0, <1>2 DEF DeriveSourceWork, Committed
  <2>2. PICK s \in Sources : c.id = s
    BY <1>0, <2>1 DEF Changes, NoChange
  <2>3. work \in Seq(Work) /\ (c.read # url[s] => [op |-> "delete", id |-> s] \in Items(work))
    BY <2>2, SourceWorkItems
  <2>4. excused \/ Complete(c, work)
    <3>1. ASSUME ~excused, NEW t \in Sources, CallsForPurge(c, t)
          PROVE  [op |-> "delete", id |-> t] \in Items(work)
      BY <2>2, <2>3, <3>1 DEF CallsForPurge
    <3> HIDE DEF work, excused
    <3> QED BY <2>1, <3>1 DEF Complete, CallsForCleanup, CallsForRebuild
  <2> HIDE DEF work
  <2>5. G(work, excused)
    BY <2>1, <2>4 DEF Outdated
  <2> QED BY <2>1, <2>3, <2>5
<1>3. ASSUME DeriveRelayWork(h)
      PROVE  c.op = "relay" /\ \E work \in Seq(Work), excused \in BOOLEAN : G(work, excused)
  <2> DEFINE r == c.id
             new == slug[c.id]
             b == [op |-> "rebuild", ids |-> {r}]
             d == [op |-> "cleanup", id |-> r, slug |-> c.read]
             work == IF c.read = new THEN <<>> ELSE <<b, d>>
             excused == c.read # c.was \/ new # c.now
  <2>1. c.op = "relay" /\ Derive(h, work, excused)
    BY <1>3 DEF DeriveRelayWork, Committed, RenameWork
  <2>2. b \in Work /\ d \in Work /\ b.op = "rebuild" /\ b.ids = {r} /\ d.op = "cleanup" /\ d.slug = c.read
    BY <1>0, <2>1 DEF Work, Changes, NoChange
  <2> HIDE DEF b, d
  <2>3. <<b, d>> \in Seq(Work) /\ Items(<<b, d>>) = {b, d}
    BY <2>2, ShortLists
  <2>4. work \in Seq(Work) /\ (c.read = new => Items(work) = {}) /\ (c.read # new => Items(work) = {b, d})
    BY <1>b, <2>3
  <2> HIDE DEF work
  <2>5. excused \/ Complete(c, work)
    BY <2>1, <2>2, <2>4 DEF Complete, CallsForPurge, CallsForCleanup, CallsForRebuild
  <2>6. G(work, excused)
    BY <2>1, <2>2, <2>4, <2>5 DEF Outdated
  <2> QED BY <2>1, <2>4, <2>6
<1>4. ASSUME NEW ids \in SUBSET LiveRelays, DeriveOwnersWork(h, ids)
      PROVE  c.op = "channel" /\ \E work \in Seq(Work), excused \in BOOLEAN : G(work, excused)
  <2> DEFINE b == [op |-> "rebuild", ids |-> ids]
             excused == c.changed \cap moved[h] # {}
  <2>1. c.op = "channel" /\ Derive(h, <<b>>, excused) /\ c.changed \ moved[h] \subseteq ids
    BY <1>4 DEF DeriveOwnersWork, Committed
  <2>2. b \in Work /\ b.op = "rebuild" /\ b.ids = ids
    BY DEF Work, LiveRelays
  <2> HIDE DEF b
  <2>3. <<b>> \in Seq(Work) /\ Items(<<b>>) = {b}
    BY <1>a, <2>2
  <2>4. excused \/ Complete(c, <<b>>)
    BY <2>1, <2>2, <2>3 DEF Complete, CallsForPurge, CallsForCleanup, CallsForRebuild
  <2>5. G(<<b>>, excused)
    BY <2>1, <2>2, <2>3, <2>4 DEF Outdated
  <2> QED BY <2>1, <2>3, <2>5
<1>5. ASSUME ReadBackFails(h) PROVE \E work \in Seq(Work) : G(work, TRUE)
  <2>1. G(<<>>, TRUE)
    BY <1>5, <1>b DEF ReadBackFails
  <2> QED BY <1>b, <2>1
<1>6. handler[h].pc = "committed"
  BY DEF HandlerDerives, DeriveCreated, DeriveSourceWork, DeriveRelayWork, DeriveOwnersWork, ReadBackFails,
         Committed
<1>7. \E work \in Seq(Work), excused \in BOOLEAN : G(work, excused)
  BY <1>1, <1>2, <1>3, <1>4, <1>5 DEF HandlerDerives
<1> QED BY <1>6, <1>7

LEMMA DeriveHandlers ==
  ASSUME HandlerInv, NEW h \in Handlers, HandlerDerives(h)
  PROVE  HandlerInv' /\ handler'[h].pc = "applying"
<1>1. PICK work \in Seq(Work), excused \in BOOLEAN :
        Derive(h, work, excused) /\ \A w \in Items(work) : w.op = "delete" => handler[h].held
  BY DeriveWork
<1> QED BY <1>1, DeriveWork, DeriveMoves

LEMMA HandlerStep ==
  ASSUME AllTypes, Next
  PROVE  HandlerInv'
<1>0. HandlerInv /\ DbTypes
  BY DEF AllTypes
<1>1. ASSUME UNCHANGED handler PROVE HandlerInv'
  BY <1>0, <1>1 DEF HandlerInv, Todo
<1>2. ASSUME NEW h \in Handlers, HandlerCommits(h) \/ HandlerDerives(h) PROVE HandlerInv'
  BY <1>0, <1>2, CommitHandlers, DeriveHandlers
<1>3. ASSUME NEW h \in Handlers, HandlerApplies(h) PROVE HandlerInv'
  <2>1. (\E op \in {"invalidate", "delete", "refresh", "due", "rebuild", "cleanup"} : Apply(h, op)) \/ Finish(h)
    BY <1>3 DEF HandlerApplies, ApplyInvalidate, ApplyDelete, ApplyRefresh, ApplyDue, ApplyRebuild, ApplyCleanup
  <2> QED BY <1>0, <2>1, ApplyMoves, FinishMoves
<1>4. CASE Other
  <2>1. CASE \E h \in Handlers, admit \in BOOLEAN : Begin(h, admit)
    BY <1>0, <2>1, BeginMoves
  <2>2. CASE ~\E h \in Handlers, admit \in BOOLEAN : Begin(h, admit)
    <3>1. UNCHANGED handler
      BY <1>4, <2>2 DEF Other, RefreshRequest, CleanupRetryDue, BackoffOver, IntervalElapses, CloseAdmission,
                        threadVars
    <3> QED BY <1>1, <3>1
  <2> QED BY <2>1, <2>2
<1>5. CASE \E r \in Relays, sl \in Slugs : CreateRelay(r, sl)
  BY <1>1, <1>5 DEF CreateRelay, threadVars
<1>6. CASE WorkerStep
  BY <1>1, <1>6, WorkerKeepsRows
<1> QED BY <1>2, <1>3, <1>4, <1>5, <1>6, RestartMoves, NextKinds

Job == [id : Sources \cup Relays \cup {None}, rev : Nat, url : URLs \cup {None},
        slug : Slugs \cup {None, Gone}, doc : Docs, slugs : SUBSET Slugs]

LEMMA JobStep ==
  ASSUME AllTypes, Next
  PROVE  JobInv'
<1>0. /\ job \in Job /\ NoJob \in Job
      /\ worker.pc \in FetchPC \cup {"readSource"} => job.id \in Sources
      /\ worker.pc \in FetchPC => job.url \in URLs
      /\ worker.pc \in {"merge", "write"} => job.id \in Relays /\ job.slug \in Slugs
      /\ worker.pc = "sweep" => job.id \in Relays
  BY DEF AllTypes, JobInv, Job, NoJob, Docs
<1>a. \A pc : Goto(pc) => worker'.pc = pc
  BY DEF AllTypes, WakeInv, Goto
<1>b. \A pc : Took(pc) => worker'.pc = pc
  BY DEF Took
<1>c. DbTypes /\ QueueTypes /\ FileTypes
  BY DEF AllTypes
<1>d. Job \subseteq Job'
  <2>1. Docs \subseteq Docs'
    BY <1>c, FileStep, DocsGrow DEF FileTypes
  <2> QED BY <2>1 DEF Job
<1>1. ASSUME job' \in Job,
             worker'.pc \in FetchPC \cup {"readSource"} => job'.id \in Sources,
             worker'.pc \in FetchPC => job'.url \in URLs,
             worker'.pc \in {"merge", "write"} => job'.id \in Relays /\ job'.slug \in Slugs,
             worker'.pc = "sweep" => job'.id \in Relays
      PROVE  JobInv'
  <2>1. job' \in Job'
    BY <1>1, <1>d
  <2> QED BY <1>1, <2>1 DEF JobInv, Job
<1>2. ASSUME NEW pc \in {"delete", "source", "relay", "cleanup", "idle"}, worker'.pc = pc, job' \in {job, NoJob}
      PROVE  JobInv'
  BY <1>0, <1>1, <1>2 DEF FetchPC
<1>3. CASE UNCHANGED <<worker, job>>
  BY <1>0, <1>1, <1>3
<1>4. CASE WorkerWakes \/ TimerFires
  BY <1>2, <1>4, <1>a DEF WorkerWakes, TimerFires
<1>5. CASE DrainPhase
  <2>1. worker \in [pc : WorkerPC, worked : BOOLEAN]
    BY DEF AllTypes, WakeInv
  <2>2. job' = job /\ worker'.pc \in {"delete", "source", "relay", "cleanup", "idle"}
    BY <1>5, <2>1 DEF DrainPhase, PhaseOver
  <2> QED BY <1>2, <2>2
<1>6. ASSUME NEW s \in Sources, DeleteFiles(s) PROVE JobInv'
  BY <1>2, <1>6, <1>b DEF DeleteFiles
<1>7. ASSUME NEW s \in Sources, TakeSource(s) PROVE JobInv'
  <2>1. job' \in Job /\ job'.id = s
    BY <1>7, <1>c DEF TakeSource, NoJob, Job, Docs, QueueTypes
  <2>2. worker'.pc = "readSource"
    BY <1>7, <1>b DEF TakeSource
  <2> QED BY <1>1, <2>1, <2>2 DEF FetchPC
<1>8. CASE SourceMissing \/ SourceBackingOff \/ FetchFails \/ DiscardStale \/ WriteSourceFails \/ MarkRefresh
  <2>1. SourceDone
    BY <1>8 DEF SourceMissing, SourceBackingOff, FetchFails, DiscardStale, WriteSourceFails, MarkRefresh
  <2> QED BY <1>2, <2>1, <1>a DEF SourceDone
<1>9. CASE SourceRead
  <2>1. worker.pc = "readSource" /\ worker'.pc = "fetch" /\ job.id \in Sources
    BY <1>9, <1>a, <1>0 DEF SourceRead, At
  <2>2. url[job.id] \in URLs
    BY <1>9, <1>c, <2>1 DEF SourceRead, DbTypes, Exists
  <2>3. job' \in Job /\ job'.id = job.id /\ job'.url \in URLs
    BY <1>0, <1>9, <2>2 DEF SourceRead, Job
  <2> QED BY <1>1, <2>1, <2>3
<1>10. CASE FetchSource \/ WriteGeneration \/ Recheck \/ PublishManifest
  <2>1. worker.pc \in FetchPC /\ worker'.pc \in FetchPC /\ job' = job
    BY <1>10, <1>a DEF FetchSource, WriteGeneration, Recheck, PublishManifest, At, FetchPC
  <2>2. worker'.pc \notin {"merge", "write", "sweep"}
    BY <2>1 DEF FetchPC
  <2> QED BY <1>0, <1>1, <2>1, <2>2
<1>11. ASSUME NEW r \in Relays, TakeRelay(r) PROVE JobInv'
  <2>1. CASE Exists(slug[r])
    <3>1. slug[r] \in Slugs
      BY <1>c, <2>1 DEF DbTypes, Exists
    <3>2. job' = [NoJob EXCEPT !.id = r, !.slug = slug[r]] /\ worker'.pc = "merge"
      BY <1>11, <1>b, <2>1 DEF TakeRelay
    <3>3. job' \in Job /\ job'.id = r /\ job'.slug \in Slugs
      BY <3>1, <3>2 DEF NoJob, Job, Docs
    <3> QED BY <1>1, <3>2, <3>3 DEF FetchPC
  <2>2. CASE ~Exists(slug[r])
    BY <1>2, <1>11, <1>b, <2>2 DEF TakeRelay
  <2> QED BY <2>1, <2>2
<1>12. ASSUME NEW r \in Relays, TakeCleanup(r) PROVE JobInv'
  <2>1. slug[r] \in Slugs \cup {None, Gone} /\ cleanups[r] \subseteq Slugs
    BY <1>c DEF DbTypes, QueueTypes
  <2>2. job' = [NoJob EXCEPT !.id = r, !.slug = slug[r], !.slugs = cleanups[r]] /\ worker'.pc = "sweep"
    BY <1>12, <1>b DEF TakeCleanup
  <2>3. job' \in Job /\ job'.id = r
    BY <2>1, <2>2 DEF NoJob, Job, Docs
  <2> QED BY <1>1, <2>2, <2>3 DEF FetchPC
<1>13. ASSUME NEW sl \in Slugs, CleanupSlug(sl) PROVE JobInv'
  <2>1. worker'.pc = "sweep" /\ worker.pc = "sweep" /\ job' = [job EXCEPT !.slugs = job.slugs \ {sl}]
    BY <1>0, <1>13 DEF CleanupSlug, At, Job
  <2>2. job' \in Job /\ job'.id = job.id
    BY <1>0, <2>1 DEF Job
  <2> QED BY <1>0, <1>1, <2>1, <2>2 DEF FetchPC
<1>14. CASE CleanupDone
  BY <1>2, <1>14, <1>a DEF CleanupDone
<1>15. CASE RelayIncomplete \/ WriteRelayCache \/ WriteFails
  <2>1. RelayDone
    BY <1>15 DEF RelayIncomplete, WriteRelayCache, WriteFails
  <2> QED BY <1>2, <2>1, <1>a DEF RelayDone
<1>16. CASE RelayMerge
  <2>1. worker.pc = "merge" /\ worker'.pc = "write" /\ job.id \in Relays /\ job.slug \in Slugs
    BY <1>0, <1>16, <1>a DEF RelayMerge, At
  <2>2. mapping[job.id] \subseteq Sources /\ \A s \in mapping[job.id] : manifest[s].gen \in 1 .. gens
    BY <1>16, <1>c, <2>1 DEF RelayMerge, DbTypes, LiveSources, FileTypes, Eligible
  <2>3. Merged(job.id) \in Docs
    BY <2>1, <2>2 DEF Merged, Docs
  <2>4. job' \in Job /\ job'.id = job.id /\ job'.slug = job.slug
    BY <1>0, <1>16, <2>3 DEF RelayMerge, Job
  <2> QED BY <1>1, <2>1, <2>4 DEF FetchPC
<1>17. CASE WorkerStep
  BY <1>4, <1>5, <1>6, <1>7, <1>8, <1>9, <1>10, <1>11, <1>12, <1>13, <1>14, <1>15, <1>16, <1>17 DEF WorkerStep
<1>18. CASE Restart
  <2>1. job' = NoJob /\ worker'.pc = "idle"
    BY <1>18 DEF Restart, IdleWorker
  <2> QED BY <1>2, <2>1
<1>19. CASE Other \/ (\E h \in Handlers : HandlerCommits(h) \/ HandlerDerives(h) \/ HandlerApplies(h))
            \/ \E r \in Relays, sl \in Slugs : CreateRelay(r, sl)
  BY <1>3, <1>19, OtherKeeps, CommitKeeps, DeriveKeeps, ApplyKeeps DEF CreateRelay, threadVars
<1> QED BY <1>17, <1>18, <1>19, NextKinds


LEMMA TypesInit ==
  ASSUME Init
  PROVE  AllTypes
<1>1. DbTypes
  BY DEF Init, DbTypes, DbInv
<1>2. HistoryTypes
  BY DEF Init, HistoryTypes
<1>3. FileTypes
  BY DEF Init, FileTypes, Docs
<1>4. QueueTypes
  BY DEF Init, QueueTypes, LiveRelays
<1>5. HandlerInv
  <2>1. /\ IdleHandler \in Handler /\ IdleHandler.pc = "idle" /\ IdleHandler.todo = <<>>
        /\ IdleHandler.change = NoChange
    BY NoChangeFields DEF Handler, IdleHandler
  <2>2. handler = [h \in Handlers |-> IdleHandler]
    BY DEF Init
  <2>3. \A h \in Handlers : handler[h] = IdleHandler /\ Todo(h) = {}
    BY <2>2 DEF Todo, IdleHandler
  <2> QED BY <2>1, <2>2, <2>3, NoChangeFields DEF HandlerInv, Handler
<1>6. JobInv
  BY DEF Init, JobInv, NoJob, IdleWorker, Docs, FetchPC
<1>7. WakeInv
  <2>1. wake \in BOOLEAN /\ (wake <=> LiveRelays # {})
    BY Zenon DEF Init
  <2>2. /\ worker = IdleWorker
        /\ pendingSources = {} /\ pendingRelays = LiveRelays /\ pendingDeleteSources = {}
    BY DEF Init
  <2> QED BY <2>1, <2>2 DEF IdleWorker, WakeInv, Unserved, WorkerPC
<1> QED BY <1>1, <1>2, <1>3, <1>4, <1>5, <1>6, <1>7 DEF AllTypes

LEMMA TypesStep ==
  ASSUME AllTypes, [Next]_vars
  PROVE  AllTypes'
<1>1. CASE Next
  BY <1>1, DbStep, HistoryStep, FileStep, QueueStep, HandlerStep, JobStep, WakeOthers DEF AllTypes
<1>2. CASE UNCHANGED vars
  <2> USE <1>2 DEF vars, dbVars, fileVars, serviceVars, queueVars, threadVars, historyVars, AllTypes
  <2>1. DbTypes'
    BY DbFrame
  <2>2. Docs' = Docs
    BY DEF Docs
  <2>3. FileTypes' /\ HistoryTypes' /\ QueueTypes'
    BY <2>2 DEF FileTypes, HistoryTypes, QueueTypes
  <2>4. HandlerInv'
    BY DEF HandlerInv, Todo
  <2>5. JobInv'
    BY <2>2 DEF JobInv
  <2>6. WakeInv'
    BY WakeFrame
  <2> QED BY <2>1, <2>3, <2>4, <2>5, <2>6
<1> QED BY <1>1, <1>2

\* For any number of concurrent requests, sources and relays: the rows, the files,
\* the queues and the worker's job have the types TypeInv gives them; slugs are
\* unique, a deleted relay maps nothing and no channel is mapped to a source that
\* does not exist.
THEOREM EpgTypesInvariance == Spec => [](TypeInv /\ WakeInv)
<1>1. AllTypes => TypeInv /\ WakeInv
  BY TypeInvParts
<1> QED BY <1>1, TypesInit, TypesStep, PTL DEF Spec

\* The type invariant: every queue, row and file of the EPG service has its type,
\* and the document the worker is about to write is made of published generations.
THEOREM EpgTypes == Spec => []TypeOK
<1>1. TypeInv => TypeOK
  BY DEF TypeInv
<1> QED BY <1>1, EpgTypesInvariance, PTL


-----------------------------------------------------------------------------
(***************************************************************************)
(* What is under way, and what the steps take off it.                      *)
(***************************************************************************)

\* The step takes nothing off the lists of what is under way without recording that a
\* request has missed it.
Keeps ==
  /\ unpurged \subseteq unpurged' /\ broken \subseteq broken' /\ leftover \subseteq leftover'
  /\ \A s \in Sources : Purging(s) => Purging(s)' \/
       (s \in unpurged' /\ \A r \in Relays : s \in mapping[r] => r \in broken')
  /\ \A sl \in Slugs : Sweeping(sl) => Sweeping(sl)' \/ sl \in leftover'
  /\ \A r \in Relays : admitOpen /\ Queued(r) => Queued(r)' \/ r \in broken'

\* A change that calls for nothing.
LEMMA NothingCalledFor ==
  /\ \A s : ~CallsForPurge(NoChange, s)
  /\ \A sl : ~CallsForCleanup(NoChange, sl)
  /\ \A r : ~CallsForRebuild(NoChange, r)
BY NoChangeFields DEF CallsForPurge, CallsForCleanup, CallsForRebuild

\* What the request g has to do, and what its change calls for.
Doing(g) == <<Todo(g), handler[g].change>>

\* The requests and the queues unchanged, nothing is taken off.
LEMMA KeepsFrame ==
  ASSUME UNCHANGED <<pendingDeleteSources, pendingRelays, cleanups>>,
         unpurged \subseteq unpurged', broken \subseteq broken', leftover \subseteq leftover',
         \A g \in Handlers : \/ Doing(g)' = Doing(g)
                             \/ Todo(g) = {} /\ handler[g].change = NoChange
  PROVE  Keeps
<1>1. ASSUME NEW s \in Sources, Purging(s) PROVE Purging(s)'
  BY <1>1, NothingCalledFor DEF Purging, Doing
<1>2. ASSUME NEW sl \in Slugs, Sweeping(sl) PROVE Sweeping(sl)'
  BY <1>2, NothingCalledFor DEF Sweeping, Doing
<1>3. ASSUME NEW r \in Relays, Queued(r) PROVE Queued(r)'
  BY <1>3, NothingCalledFor DEF Queued, Doing
<1> QED BY <1>1, <1>2, <1>3 DEF Keeps

\* What a request has to record at its commit, it records.
LEMMA CommitMarks ==
  ASSUME NEW h \in Handlers, HandlerCommits(h)
  PROVE  unpurged' = unpurged /\ broken \subseteq broken' /\ leftover \subseteq leftover'
<1>1. ASSUME NEW s \in Sources, NEW u \in URLs, NEW on \in BOOLEAN,
             CreateEPGSource(h, s, u, on) \/ UpdateEPGSource(h, s, u, on)
      PROVE  UNCHANGED <<unpurged, broken, leftover>>
  BY <1>1 DEF CreateEPGSource, UpdateEPGSource, CommitFirst
<1>2. ASSUME NEW s \in Sources, DeleteEPGSource(h, s) PROVE UNCHANGED <<unpurged, broken, leftover>>
  BY <1>2 DEF DeleteEPGSource
<1>3. ASSUME NEW r \in Relays, NEW sl \in Slugs, UpdateRelay(h, r, sl)
      PROVE  UNCHANGED <<unpurged, broken, leftover>>
  BY <1>3 DEF UpdateRelay, CommitFirst
<1>4. ASSUME NEW r \in Relays, DeleteRelay(h, r)
      PROVE  UNCHANGED <<unpurged, broken>> /\ leftover \subseteq leftover'
  BY <1>4 DEF DeleteRelay
<1>5. ASSUME NEW r \in Relays, NEW ss \in SUBSET LiveSources, NEW rebuild \in BOOLEAN,
             ChangeMembership(h, r, ss, rebuild)
      PROVE  UNCHANGED <<unpurged, leftover>> /\ broken \subseteq broken'
  BY <1>5 DEF ChangeMembership
<1>6. ASSUME NEW rs \in SUBSET LiveRelays, NEW new \in [rs -> SUBSET LiveSources], UpdateChannel(h, rs, new)
      PROVE  UNCHANGED <<unpurged, broken, leftover>>
  BY <1>6 DEF UpdateChannel, CommitFirst
<1> QED BY <1>1, <1>2, <1>3, <1>4, <1>5, <1>6 DEF HandlerCommits

\* What every commit leaves: its request, which owed nothing before, has derived its
\* work or has the change to derive it from; the other requests and the queues stay.
LEMMA CommitEnds ==
  ASSUME AllTypes, NEW h \in Handlers, HandlerCommits(h)
  PROVE  /\ handler[h].pc = "begun" /\ handler[h].seen \in Rows
         /\ handler'[h].pc \in {"committed", "applying"} /\ OthersStay(h) /\ Keeps
<1>1. /\ OthersStay(h) /\ handler'[h].pc \in {"committed", "applying"}
      /\ handler[h].pc = "begun" /\ handler[h].seen \in Rows /\ Todo(h) = {}
      /\ handler[h].change = NoChange
  BY CommitHandlers DEF AllTypes
<1>2. UNCHANGED <<pendingDeleteSources, pendingRelays, cleanups>>
  BY CommitKeeps DEF serviceVars, queueVars
<1>3. \A g \in Handlers : Doing(g)' = Doing(g) \/ (Todo(g) = {} /\ handler[g].change = NoChange)
  BY <1>1 DEF OthersStay, Doing
<1>4. Keeps
  BY <1>2, <1>3, CommitMarks, KeepsFrame
<1> QED BY <1>1, <1>4

\* What a request leaves out of its work when it is derived, it records.
LEMMA DeriveKeepsWork ==
  ASSUME AllTypes, NEW h \in Handlers, HandlerDerives(h)
  PROVE  Keeps
<1> DEFINE c == handler[h].change
<1>0. HandlerInv /\ c \in Changes
  BY HandlerFields DEF AllTypes
<1>1. UNCHANGED <<pendingDeleteSources, pendingRelays, cleanups>>
  BY DeriveKeeps DEF serviceVars, queueVars
<1>2. PICK work \in Seq(Work), excused \in BOOLEAN :
        /\ Derive(h, work, excused) /\ \A w \in Items(work) : w.op = "delete" => handler[h].held
        /\ excused \/ Complete(c, work)
  BY <1>0, DeriveWork
<1>3. /\ Todo(h) = {} /\ Todo(h)' = Items(work)
      /\ \A g \in Handlers \ {h} : handler'[g] = handler[g] /\ Todo(g)' = Todo(g)
  BY <1>0, <1>2, DeriveWork, DeriveMoves
<1>4. Items(work) \subseteq Work
  BY <1>2, ElementOfSeq DEF Items
<1>5. unpurged \subseteq unpurged' /\ broken \subseteq broken' /\ leftover \subseteq leftover'
  BY <1>2 DEF Derive
<1>6. ASSUME NEW s \in Sources, CallsForPurge(c, s)
      PROVE  \/ [op |-> "delete", id |-> s] \in Items(work)
             \/ s \in unpurged' /\ \A r \in Relays : s \in mapping[r] => r \in broken'
  <2>1. CASE ~excused
    BY <1>2, <1>6, <2>1 DEF Complete
  <2>2. CASE excused /\ \A w \in Items(work) : w.op = "delete" => w.id # s
    <3> DEFINE missed == {t \in Sources : CallsForPurge(c, t) /\
                           \A w \in {v \in {work[i] : i \in DOMAIN work} : v.op = "delete"} : w.id # t}
    <3>1. s \in missed
      BY <1>6, <2>2 DEF Items
    <3>2. /\ unpurged' = unpurged \cup missed
          /\ UNION {RelaysReferencingSource(t) : t \in missed} \subseteq broken'
      BY <1>2, <2>2 DEF Derive
    <3> HIDE DEF missed
    <3>3. RelaysReferencingSource(s) \subseteq broken'
      BY <3>1, <3>2
    <3> QED BY <3>1, <3>2, <3>3 DEF RelaysReferencingSource
  <2>3. ASSUME NEW w \in Items(work), w.op = "delete", w.id = s
        PROVE  [op |-> "delete", id |-> s] \in Items(work)
    <3>1. w = [op |-> "delete", id |-> s]
      BY <1>4, <2>3 DEF Work
    <3> QED BY <2>3, <3>1
  <2> QED BY <2>1, <2>2, <2>3
<1>7. ASSUME NEW sl \in Slugs, CallsForCleanup(c, sl)
      PROVE  (\E w \in Items(work) : w.op = "cleanup" /\ w.slug = sl) \/ sl \in leftover'
  BY <1>2, <1>7 DEF Derive, Complete, Items
<1>8. ASSUME NEW r \in Relays, CallsForRebuild(c, r)
      PROVE  (\E w \in Items(work) : w.op = "rebuild" /\ r \in w.ids) \/ r \in broken'
  BY <1>2, <1>8 DEF Derive, Complete, Items
<1>9. ASSUME NEW s \in Sources, Purging(s)
      PROVE  Purging(s)' \/ (s \in unpurged' /\ \A r \in Relays : s \in mapping[r] => r \in broken')
  BY <1>1, <1>3, <1>6, <1>9 DEF Purging
<1>10. ASSUME NEW sl \in Slugs, Sweeping(sl) PROVE Sweeping(sl)' \/ sl \in leftover'
  BY <1>1, <1>3, <1>7, <1>10 DEF Sweeping
<1>11. ASSUME NEW r \in Relays, Queued(r) PROVE Queued(r)' \/ r \in broken'
  BY <1>1, <1>3, <1>8, <1>11 DEF Queued
<1> QED BY <1>5, <1>9, <1>10, <1>11 DEF Keeps

\* Derived work that is applied goes from the request's list to its queue.
LEMMA ApplyKeepsWork ==
  ASSUME AllTypes, NEW h \in Handlers, HandlerApplies(h)
  PROVE  Keeps
<1>0. HandlerInv /\ QueueTypes
  BY DEF AllTypes
<1>a. UNCHANGED <<unpurged, broken, leftover>>
  BY ApplyKeeps
<1>1. CASE Finish(h)
  <2>1. \A g \in Handlers : Doing(g)' = Doing(g)
    BY <1>0, <1>1, FinishMoves DEF Doing, IdleHandler
  <2>2. UNCHANGED <<pendingDeleteSources, pendingRelays, cleanups>>
    BY <1>1 DEF Finish, serviceVars, queueVars
  <2> QED BY <1>a, <2>1, <2>2, KeepsFrame
<1>2. ASSUME NEW op, Apply(h, op),
             pendingDeleteSources \subseteq pendingDeleteSources',
             pendingRelays \subseteq pendingRelays',
             \A r \in Relays : cleanups[r] \subseteq cleanups'[r],
             op = "delete" => Item(h).id \in pendingDeleteSources',
             op = "rebuild" /\ admitOpen => Item(h).ids \subseteq pendingRelays',
             op = "cleanup" => Item(h).id \in Relays /\ Item(h).slug \in cleanups'[Item(h).id]
      PROVE  Keeps
  <2>1. /\ Item(h).op = op /\ Todo(h) \subseteq Todo(h)' \cup {Item(h)}
        /\ \A g \in Handlers \ {h} : handler'[g] = handler[g] /\ Todo(g)' = Todo(g)
        /\ handler'[h].change = handler[h].change
    BY <1>0, <1>2, ApplyMoves, ItemFields
  <2>2. \A g \in Handlers : /\ handler'[g].change = handler[g].change
                            /\ \A w \in Todo(g) : w \in Todo(g)' \/ w = Item(h)
    BY <2>1
  <2>3. ASSUME NEW s \in Sources, Purging(s) PROVE Purging(s)'
    <3>1. CASE s \in pendingDeleteSources
      BY <1>2, <3>1 DEF Purging
    <3>2. ASSUME NEW g \in Handlers, [op |-> "delete", id |-> s] \in Todo(g) PROVE Purging(s)'
      <4>1. CASE [op |-> "delete", id |-> s] \in Todo(g)'
        BY <4>1 DEF Purging
      <4>2. CASE [op |-> "delete", id |-> s] = Item(h)
        <5>1. op = "delete" /\ Item(h).id = s
          BY <2>1, <4>2
        <5> QED BY <1>2, <5>1 DEF Purging
      <4> QED BY <2>2, <3>2, <4>1, <4>2
    <3>3. ASSUME NEW g \in Handlers, CallsForPurge(handler[g].change, s) PROVE Purging(s)'
      BY <2>2, <3>3 DEF Purging
    <3> QED BY <2>3, <3>1, <3>2, <3>3 DEF Purging
  <2>4. ASSUME NEW sl \in Slugs, Sweeping(sl) PROVE Sweeping(sl)'
    BY <1>2, <2>1, <2>2, <2>4 DEF Sweeping
  <2>5. ASSUME NEW r \in Relays, admitOpen, Queued(r) PROVE Queued(r)'
    BY <1>2, <2>1, <2>2, <2>5 DEF Queued
  <2> QED BY <1>a, <2>3, <2>4, <2>5 DEF Keeps
<1>3. CASE ApplyInvalidate(h) \/ ApplyRefresh(h) \/ ApplyDue(h)
  <2>1. UNCHANGED <<pendingDeleteSources, pendingRelays, cleanups>>
    BY <1>3 DEF ApplyInvalidate, ApplyRefresh, ApplyDue, EnqueueSources, queueVars
  <2>2. PICK op \in {"invalidate", "refresh", "due"} : Apply(h, op)
    BY <1>3 DEF ApplyInvalidate, ApplyRefresh, ApplyDue
  <2> QED BY <1>2, <2>1, <2>2
<1>4. CASE ApplyDelete(h)
  <2>1. Apply(h, "delete") /\ EnqueueDeleteSourceFiles(Item(h).id)
    BY <1>4 DEF ApplyDelete
  <2>2. Item(h) \in Todo(h) /\ Item(h).op = "delete"
    BY <1>0, <2>1, ItemFields
  <2>3. Accepts
    BY <1>0, <2>2, HandlerFields DEF Accepts
  <2> QED BY <1>2, <2>1, <2>3 DEF EnqueueDeleteSourceFiles
<1>5. CASE ApplyRebuild(h)
  BY <1>2, <1>5 DEF ApplyRebuild, EnqueueRebuildRelays, Accepts
<1>6. CASE ApplyCleanup(h)
  <2>1. Apply(h, "cleanup") /\ EnqueueRelayCleanup(Item(h).id, Item(h).slug)
    BY <1>6 DEF ApplyCleanup
  <2>2. Item(h).id \in Relays
    BY <1>0, <2>1, ItemFields
  <2>3. cleanups' = [cleanups EXCEPT ![Item(h).id] = cleanups[Item(h).id] \cup {Item(h).slug}]
    BY <2>1 DEF EnqueueRelayCleanup
  <2>4. /\ \A r \in Relays : cleanups[r] \subseteq cleanups'[r]
        /\ Item(h).slug \in cleanups'[Item(h).id]
    BY <1>0, <2>2, <2>3 DEF QueueTypes
  <2> QED BY <1>2, <2>1, <2>2, <2>4 DEF EnqueueRelayCleanup
<1> QED BY <1>1, <1>3, <1>4, <1>5, <1>6 DEF HandlerApplies

\* Nor by the other steps.
LEMMA OtherKeepsWork ==
  ASSUME AllTypes, Other
  PROVE  Keeps
<1>1. UNCHANGED <<pendingDeleteSources, pendingRelays, cleanups, unpurged, broken, leftover>>
  BY OtherKeeps
<1>2. CASE \E h \in Handlers, admit \in BOOLEAN : Begin(h, admit)
  <2>1. \A g \in Handlers : Doing(g)' = Doing(g)
    BY <1>2, BeginMoves DEF AllTypes, Doing
  <2> QED BY <1>1, <2>1, KeepsFrame
<1>3. CASE ~\E h \in Handlers, admit \in BOOLEAN : Begin(h, admit)
  <2>1. UNCHANGED handler
    BY <1>3 DEF Other, RefreshRequest, CleanupRetryDue, BackoffOver, IntervalElapses, CloseAdmission, threadVars
  <2>2. \A g \in Handlers : Doing(g)' = Doing(g)
    BY <2>1 DEF Doing, Todo
  <2> QED BY <1>1, <2>2, KeepsFrame
<1> QED BY <1>2, <1>3


-----------------------------------------------------------------------------
(***************************************************************************)
(* Generations of former URLs.                                             *)
(***************************************************************************)
LEMMA PurgeFrame ==
  ASSUME PurgeInv, Keeps, JobInv, UNCHANGED <<url, manifest>>,
         worker'.pc = "publish" => worker.pc = "publish" /\ job' = job
  PROVE  PurgeInv'
<1>1. \A s \in Sources \ unpurged' : manifest[s] # None => Eligible(s)' \/ Purging(s)'
  BY DEF PurgeInv, Keeps, Eligible
<1>2. ASSUME worker'.pc = "publish"
      PROVE  url'[job'.id] = job'.url \/ Purging(job.id)' \/ job'.id \in unpurged'
  <2>1. worker.pc = "publish" /\ job' = job /\ job.id \in Sources
    BY <1>2 DEF JobInv, FetchPC
  <2>2. url[job.id] = job.url \/ Purging(job.id) \/ job.id \in unpurged
    BY <2>1 DEF PurgeInv
  <2>3. Purging(job.id) => Purging(job.id)' \/ job.id \in unpurged'
    <3>1. PICK s \in Sources : s = job.id /\ s = job'.id
      BY <2>1
    <3>2. Purging(s) => Purging(s)' \/ s \in unpurged'
      BY DEF Keeps
    <3> QED BY <3>1, <3>2 DEF Purging
  <2> QED BY <2>1, <2>2, <2>3 DEF Keeps
<1> QED BY <1>1, <1>2 DEF PurgeInv


\* A change of a source's URL calls for the purge of what the old one gave.
LEMMA PurgeSource ==
  ASSUME AllTypes, NEW h \in Handlers, NEW s \in Sources,
         \/ \E u \in URLs, on \in BOOLEAN : CreateEPGSource(h, s, u, on) \/ UpdateEPGSource(h, s, u, on)
         \/ DeleteEPGSource(h, s)
  PROVE  /\ Keeps /\ UNCHANGED <<slug, mapping, fileVars, serviceVars, worker, job>>
         /\ \A t \in Sources \ {s} : url'[t] = url[t]
         /\ ~Exists(url[s]) \/ url'[s] = url[s] \/ Purging(s)'
<1>0. HandlerInv /\ DbTypes /\ HandlerCommits(h)
  BY DEF AllTypes, HandlerCommits
<1>1. UNCHANGED <<fileVars, serviceVars, worker, job>> /\ Keeps
  BY <1>0, CommitKeeps, CommitEnds
<1>2. UNCHANGED <<slug, mapping>> /\ \A t \in Sources \ {s} : url'[t] = url[t]
  BY <1>0 DEF CreateEPGSource, UpdateEPGSource, DeleteEPGSource, DbTypes
<1>3. ASSUME NEW u \in URLs, NEW on \in BOOLEAN, CreateEPGSource(h, s, u, on) PROVE ~Exists(url[s])
  BY <1>3 DEF CreateEPGSource, Exists
<1>4. ASSUME NEW u \in URLs, NEW on \in BOOLEAN, UpdateEPGSource(h, s, u, on)
      PROVE  url'[s] = url[s] \/ Purging(s)'
  <2>1. url'[s] = u
    BY <1>0, <1>4 DEF UpdateEPGSource, DbTypes
  <2>2. url[s] # u => CallsForPurge(handler'[h].change, s)
    BY <1>0, <1>4, CommitSource DEF CallsForPurge
  <2> QED BY <2>1, <2>2 DEF Purging
<1>5. ASSUME DeleteEPGSource(h, s) PROVE Purging(s)'
  BY <1>0, <1>5, CommitDeleted DEF Purging
<1> QED BY <1>1, <1>2, <1>3, <1>4, <1>5

LEMMA PurgeCommits ==
  ASSUME AllTypes, PurgeInv, NEW h \in Handlers, HandlerCommits(h)
  PROVE  PurgeInv'
<1>0. JobInv
  BY DEF AllTypes
<1>1. ASSUME NEW s \in Sources,
             \/ \E u \in URLs, on \in BOOLEAN : CreateEPGSource(h, s, u, on) \/ UpdateEPGSource(h, s, u, on)
             \/ DeleteEPGSource(h, s)
      PROVE  PurgeInv'
  <2>1. /\ Keeps /\ UNCHANGED <<manifest, worker, job>>
        /\ \A t \in Sources \ {s} : url'[t] = url[t]
        /\ ~Exists(url[s]) \/ url'[s] = url[s] \/ Purging(s)'
    BY <1>1, PurgeSource DEF fileVars
  <2>2. ASSUME NEW t \in Sources \ unpurged', manifest[t] # None PROVE Eligible(t)' \/ Purging(t)'
    <3>1. Eligible(t) \/ Purging(t)'
      BY <2>1, <2>2 DEF PurgeInv, Keeps
    <3>2. Eligible(t) => Exists(url[t])
      BY DEF Eligible
    <3>3. Purging(t)' \/ url'[t] = url[t]
      BY <2>1, <3>1, <3>2
    <3> QED BY <2>1, <3>1, <3>3 DEF Eligible
  <2>3. ASSUME worker.pc = "publish"
        PROVE  url'[job'.id] = job'.url \/ Purging(job.id)' \/ job'.id \in unpurged'
    <3>1. PICK t \in Sources : t = job.id /\ t = job'.id
      BY <1>0, <2>1, <2>3 DEF JobInv, FetchPC
    <3>2. Exists(job.url)
      BY <1>0, <2>3, EpgAssumption DEF JobInv, FetchPC, Exists
    <3>3. url[t] = job.url \/ Purging(t) \/ t \in unpurged
      BY <2>3, <3>1 DEF PurgeInv
    <3>4. url'[t] = job.url \/ Purging(t)' \/ t \in unpurged'
      BY <2>1, <3>2, <3>3 DEF Keeps
    <3>5. Purging(t)' => Purging(job.id)'
      BY <3>1 DEF Purging
    <3> QED BY <2>1, <3>1, <3>4, <3>5
  <2> QED BY <2>1, <2>2, <2>3 DEF PurgeInv
<1>2. CASE UNCHANGED url
  <2>1. Keeps /\ UNCHANGED <<manifest, worker, job>>
    BY CommitEnds, CommitKeeps DEF fileVars
  <2> QED BY <1>0, <1>2, <2>1, PurgeFrame
<1> QED BY <1>1, <1>2 DEF HandlerCommits, UpdateRelay, DeleteRelay, ChangeMembership, UpdateChannel

\* The worker's step is one of these as far as the published generations go.
LEMMA PurgeWorker ==
  ASSUME AllTypes, PurgeInv, WorkerStep
  PROVE  PurgeInv'
<1> USE DEF fileVars, serviceVars, queueVars, historyVars, At
<1>0. JobInv
  BY DEF AllTypes
<1>a. \A pc : Goto(pc) => worker'.pc = pc
  BY DEF AllTypes, WakeInv, Goto
<1>b. \A pc : Took(pc) => worker'.pc = pc
  BY DEF Took
<1>c. UNCHANGED <<url, handler>>
  BY WorkerKeepsRows
<1>d. manifest \in [Sources -> {None} \cup [gen : 1..gens, url : URLs]]
  BY DEF AllTypes, FileTypes
<1>1. ASSUME UNCHANGED <<manifest, unpurged, pendingDeleteSources>>, worker'.pc # "publish" PROVE PurgeInv'
  <2>1. \A s \in Sources : Purging(s) => Purging(s)'
    BY <1>1, <1>c DEF Purging, Todo
  <2> QED BY <1>1, <1>c, <2>1 DEF PurgeInv, Eligible
<1>2. ASSUME NEW s \in Sources, DeleteFiles(s) PROVE PurgeInv'
  <2>1. /\ manifest' = [manifest EXCEPT ![s] = None] /\ unpurged' = unpurged \ {s}
        /\ pendingDeleteSources' = pendingDeleteSources \ {s} /\ worker'.pc = "delete"
    BY <1>2, <1>b DEF DeleteFiles
  <2>2. \A t \in Sources \ {s} : Purging(t) => Purging(t)'
    BY <1>c, <2>1 DEF Purging, Todo
  <2>3. \A t \in Sources \ {s} : manifest'[t] = manifest[t]
    BY <1>d, <2>1
  <2>4. manifest'[s] = None
    BY <1>d, <2>1
  <2>5. ASSUME NEW t \in Sources \ unpurged', manifest'[t] # None PROVE Eligible(t)' \/ Purging(t)'
    BY <1>c, <2>1, <2>2, <2>3, <2>4, <2>5 DEF PurgeInv, Eligible
  <2> QED BY <2>1, <2>5 DEF PurgeInv
<1>3. CASE SourceMissing
  <2>1. /\ job.id \in Sources /\ manifest' = [manifest EXCEPT ![job.id] = None]
        /\ worker'.pc = "source" /\ UNCHANGED <<unpurged, pendingDeleteSources>>
    BY <1>0, <1>3, <1>a DEF SourceMissing, SourceDone, JobInv
  <2>2. \A t \in Sources : Purging(t) => Purging(t)'
    BY <1>c, <2>1 DEF Purging, Todo
  <2>3. \A t \in Sources : manifest'[t] = manifest[t] \/ manifest'[t] = None
    BY <1>d, <2>1
  <2>4. ASSUME NEW t \in Sources \ unpurged', manifest'[t] # None PROVE Eligible(t)' \/ Purging(t)'
    BY <1>c, <2>1, <2>2, <2>3, <2>4 DEF PurgeInv, Eligible
  <2> QED BY <2>1, <2>4 DEF PurgeInv
<1>4. CASE Recheck
  <2>1. /\ UNCHANGED <<manifest, unpurged, pendingDeleteSources, job>> /\ url[job.id] = job.url
    BY <1>4 DEF Recheck, Current
  <2>2. \A s \in Sources : Purging(s) => Purging(s)'
    BY <1>c, <2>1 DEF Purging, Todo
  <2> QED BY <1>c, <2>1, <2>2 DEF PurgeInv, Eligible
<1>5. CASE PublishManifest
  <2>1. /\ job.id \in Sources /\ job.url \in URLs
        /\ manifest' = [manifest EXCEPT ![job.id] = [gen |-> gens + 1, url |-> job.url]]
        /\ worker.pc = "publish" /\ worker'.pc = "mark" /\ UNCHANGED <<pendingDeleteSources, job>>
        /\ unpurged' = IF url[job.id] = job.url THEN unpurged \ {job.id} ELSE unpurged
    BY <1>0, <1>5, <1>a DEF PublishManifest, JobInv, FetchPC
  <2>2. \A t \in Sources : Purging(t) => Purging(t)'
    BY <1>c, <2>1 DEF Purging, Todo
  <2>3. /\ \A t \in Sources \ {job.id} : manifest'[t] = manifest[t]
        /\ manifest'[job.id] = [gen |-> gens + 1, url |-> job.url]
    BY <1>d, <2>1
  <2>4. (manifest'[job.id] # None /\ manifest'[job.id].url = job.url) \/ manifest'[job.id] = None
    BY <2>3
  <2>5. Exists(job.url)
    BY <2>1, EpgAssumption DEF Exists
  <2>6. ASSUME NEW t \in Sources \ unpurged', manifest'[t] # None, t # job.id PROVE Eligible(t)' \/ Purging(t)'
    BY <1>c, <2>1, <2>2, <2>3, <2>6 DEF PurgeInv, Eligible
  <2>7. ASSUME manifest'[job.id] # None, job.id \notin unpurged' PROVE Eligible(job.id)' \/ Purging(job.id)'
    <3>1. url[job.id] = job.url \/ Purging(job.id)
      BY <2>1, <2>7 DEF PurgeInv
    <3>2. Purging(job.id) => Purging(job.id)'
      <4>1. PICK t \in Sources : t = job.id /\ t = job'.id
        BY <2>1
      <4> QED BY <2>2, <4>1 DEF Purging
    <3>3. url[job.id] = job.url => Eligible(job.id)'
      BY <1>c, <2>1, <2>4, <2>5, <2>7 DEF Eligible
    <3> QED BY <3>1, <3>2, <3>3
  <2> QED BY <2>1, <2>6, <2>7 DEF PurgeInv
<1>6. CASE WorkerWakes \/ TimerFires \/ DrainPhase
  <2>1. worker \in [pc : WorkerPC, worked : BOOLEAN]
    BY DEF AllTypes, WakeInv
  <2>2. UNCHANGED <<manifest, unpurged, pendingDeleteSources>> /\ worker'.pc # "publish"
    BY <1>6, <1>a, <2>1 DEF WorkerWakes, TimerFires, DrainPhase, PhaseOver, EnqueueSources
  <2> QED BY <1>1, <2>2
<1>7. CASE \E s \in Sources : TakeSource(s)
  BY <1>1, <1>7, <1>b DEF TakeSource
<1>8. CASE SourceBackingOff \/ SourceRead \/ FetchFails \/ FetchSource \/ DiscardStale \/ WriteGeneration
           \/ WriteSourceFails
  BY <1>1, <1>8, <1>a DEF SourceBackingOff, SourceRead, FetchFails, FetchSource, DiscardStale, WriteGeneration,
                          WriteSourceFails, SourceDone
<1>9. CASE MarkRefresh
  BY <1>1, <1>9, <1>a DEF MarkRefresh, SourceDone, EnqueueRebuildRelays
<1>10. CASE \E r \in Relays : TakeRelay(r) \/ TakeCleanup(r)
  BY <1>1, <1>10, <1>b DEF TakeRelay, TakeCleanup
<1>11. ASSUME NEW sl \in Slugs, CleanupSlug(sl) PROVE PurgeInv'
  BY <1>1, <1>11 DEF CleanupSlug
<1>12. CASE CleanupDone \/ RelayIncomplete \/ RelayMerge \/ WriteRelayCache \/ WriteFails
  BY <1>1, <1>12, <1>a DEF CleanupDone, RelayIncomplete, RelayMerge, WriteRelayCache, WriteFails, RelayDone
<1> QED BY <1>2, <1>3, <1>4, <1>5, <1>6, <1>7, <1>8, <1>9, <1>10, <1>11, <1>12 DEF WorkerStep

LEMMA PurgeStep ==
  ASSUME AllTypes, PurgeInv, Next
  PROVE  PurgeInv'
<1>0. JobInv
  BY DEF AllTypes
<1>1. ASSUME NEW h \in Handlers, HandlerApplies(h) PROVE PurgeInv'
  BY <1>0, <1>1, ApplyKeeps, ApplyKeepsWork, PurgeFrame DEF dbVars, fileVars
<1>2. CASE Other
  BY <1>0, <1>2, OtherKeeps, OtherKeepsWork, PurgeFrame DEF dbVars, fileVars
<1>3. CASE \E r \in Relays, sl \in Slugs : CreateRelay(r, sl)
  <2>1. /\ UNCHANGED <<url, manifest, unpurged, worker, job>>
        /\ UNCHANGED <<pendingDeleteSources, pendingRelays, cleanups, handler>>
    BY <1>3 DEF CreateRelay, fileVars, serviceVars, queueVars, threadVars
  <2>2. Keeps
    <3>1. \A g \in Handlers : Doing(g)' = Doing(g)
      BY <2>1 DEF Doing, Todo
    <3>2. UNCHANGED <<unpurged, broken, leftover>>
      BY <1>3 DEF CreateRelay
    <3> QED BY <2>1, <3>1, <3>2, KeepsFrame
  <2> QED BY <1>0, <2>1, <2>2, PurgeFrame
<1>4. CASE Restart
  <2>1. /\ manifest' = [s \in Sources |-> IF Exists(url[s]) THEN manifest[s] ELSE None]
        /\ worker'.pc = "idle" /\ url' = url
        /\ unpurged' = unpurged \cup {s \in Sources : Purging(s)}
    BY <1>4 DEF Restart, IdleWorker, dbVars
  <2>2. ASSUME NEW s \in Sources \ unpurged', manifest'[s] # None PROVE Eligible(s)'
    <3>1. manifest'[s] = manifest[s] /\ s \notin unpurged /\ ~Purging(s)
      BY <2>1, <2>2
    <3> QED BY <2>1, <2>2, <3>1 DEF PurgeInv, Eligible
  <2> QED BY <2>1, <2>2 DEF PurgeInv
<1>5. ASSUME NEW h \in Handlers, HandlerDerives(h) PROVE PurgeInv'
  BY <1>0, <1>5, DeriveKeeps, DeriveKeepsWork, PurgeFrame DEF dbVars, fileVars
<1> QED BY <1>1, <1>2, <1>3, <1>4, <1>5, PurgeCommits, PurgeWorker, NextKinds


-----------------------------------------------------------------------------
(***************************************************************************)
(* Guide files and their owners.                                           *)
(***************************************************************************)

\* The file of the slug, if there is one, has an owner or is to be cleaned up.
Kept(sl) == Owners(sl) # {} \/ Sweeping(sl)

LEMMA FileFrame ==
  ASSUME FileInv, JobInv, UNCHANGED <<cache, worker, job>>, leftover \subseteq leftover',
         \A sl \in Slugs \ leftover' : Kept(sl) => Kept(sl)',
         \A r \in Relays : slug[r] # None => slug'[r] # None
  PROVE  FileInv'
<1>1. ASSUME NEW sl \in Slugs \ leftover', cache[sl] # None
      PROVE  Kept(sl)' \/ (worker.pc = "sweep" /\ sl \in job.slugs)
  BY <1>1 DEF FileInv, Kept
<1>2. ASSUME worker.pc \in {"merge", "write", "sweep"}, job.slug \in Slugs \ leftover'
      PROVE  Owners(job.slug)' # {} \/ Sweeping(job.slug)'
  <2>1. PICK sl \in Slugs \ leftover' : sl = job.slug
    BY <1>2
  <2>2. Kept(sl)'
    BY <1>2, <2>1 DEF FileInv, Kept
  <2> QED BY <2>1, <2>2 DEF Kept
<1>3. ASSUME worker.pc \in {"merge", "write"} PROVE slug'[job.id] # None
  BY <1>3 DEF FileInv, JobInv
<1> QED BY <1>1, <1>2, <1>3 DEF FileInv, Kept

\* The cleanup of a slug that a relay loses is under way, unless the request missed it.
LEMMA KeptByCommits ==
  ASSUME AllTypes, NEW h \in Handlers, HandlerCommits(h)
  PROVE  /\ \A sl \in Slugs \ leftover' : Kept(sl) => Kept(sl)'
         /\ \A r \in Relays : slug[r] # None => slug'[r] # None
<1>0. HandlerInv /\ DbTypes
  BY DEF AllTypes
<1>1. Keeps
  BY CommitEnds
<1>2. CASE UNCHANGED slug
  BY <1>1, <1>2 DEF Keeps, Kept, Owners
<1>3. ASSUME NEW r \in Relays, NEW new \in Slugs \cup {Gone}, slug' = [slug EXCEPT ![r] = new],
             \A old \in Slugs \ leftover' : old = slug[r] /\ old # new => Sweeping(old)'
      PROVE  /\ \A sl \in Slugs \ leftover' : Kept(sl) => Kept(sl)'
             /\ \A q \in Relays : slug[q] # None => slug'[q] # None
  <2>1. ASSUME NEW sl \in Slugs \ leftover', Kept(sl) PROVE Kept(sl)'
    <3>1. CASE Sweeping(sl)
      BY <1>1, <3>1 DEF Keeps, Kept
    <3>2. ASSUME NEW q \in Owners(sl) PROVE Kept(sl)'
      <4>1. CASE slug'[q] = sl
        BY <4>1 DEF Kept, Owners
      <4>2. CASE slug'[q] # sl
        <5>1. q = r /\ slug[r] = sl /\ new # slug[r]
          BY <1>0, <1>3, <4>2 DEF Owners, DbTypes
        <5>2. Sweeping(sl)'
          BY <1>3, <5>1
        <5> QED BY <5>2 DEF Kept
      <4> QED BY <4>1, <4>2
    <3> QED BY <2>1, <3>1, <3>2 DEF Kept
  <2>2. \A q \in Relays : slug[q] # None => slug'[q] # None
    BY <1>0, <1>3, EpgAssumption DEF DbTypes
  <2> QED BY <2>1, <2>2
<1>4. ASSUME NEW r \in Relays, NEW sl \in Slugs, UpdateRelay(h, r, sl)
      PROVE  /\ \A x \in Slugs \ leftover' : Kept(x) => Kept(x)'
             /\ \A q \in Relays : slug[q] # None => slug'[q] # None
  <2>1. slug' = [slug EXCEPT ![r] = sl]
    BY <1>4 DEF UpdateRelay
  <2>2. ASSUME NEW old \in Slugs \ leftover', old = slug[r], old # sl PROVE Sweeping(old)'
    <3>1. CallsForCleanup(handler'[h].change, old)
      BY <1>0, <1>4, <2>2, CommitRelay DEF CallsForCleanup
    <3> QED BY <3>1 DEF Sweeping
  <2> QED BY <1>3, <2>1, <2>2
<1>5. ASSUME NEW r \in Relays, DeleteRelay(h, r)
      PROVE  /\ \A x \in Slugs \ leftover' : Kept(x) => Kept(x)'
             /\ \A q \in Relays : slug[q] # None => slug'[q] # None
  <2>1. /\ slug' = [slug EXCEPT ![r] = Gone]
        /\ leftover' = leftover \cup ({slug[r]} \ {handler[h].seen.slug[r]})
    BY <1>5 DEF DeleteRelay
  <2>2. ASSUME NEW old \in Slugs \ leftover', old = slug[r], old # Gone PROVE Sweeping(old)'
    <3>1. old = handler[h].seen.slug[r]
      BY <2>1, <2>2
    <3>2. [op |-> "cleanup", id |-> r, slug |-> old] \in Todo(h)'
      BY <1>0, <1>5, <3>1, CommitNoRelay
    <3> QED BY <3>2 DEF Sweeping
  <2>3. Gone \in Slugs \cup {Gone}
    OBVIOUS
  <2> QED BY <1>3, <2>1, <2>2, <2>3
<1>6. ASSUME NEW s \in Sources, NEW u \in URLs, NEW on \in BOOLEAN,
             CreateEPGSource(h, s, u, on) \/ UpdateEPGSource(h, s, u, on)
      PROVE  UNCHANGED slug
  BY <1>6 DEF CreateEPGSource, UpdateEPGSource
<1>7. ASSUME NEW s \in Sources, DeleteEPGSource(h, s) PROVE UNCHANGED slug
  BY <1>7 DEF DeleteEPGSource
<1>8. ASSUME NEW r \in Relays, NEW ss \in SUBSET LiveSources, NEW rebuild \in BOOLEAN,
             ChangeMembership(h, r, ss, rebuild)
      PROVE  UNCHANGED slug
  BY <1>8 DEF ChangeMembership
<1>9. ASSUME NEW rs \in SUBSET LiveRelays, NEW new \in [rs -> SUBSET LiveSources], UpdateChannel(h, rs, new)
      PROVE  UNCHANGED slug
  BY <1>9 DEF UpdateChannel
<1> QED BY <1>2, <1>4, <1>5, <1>6, <1>7, <1>8, <1>9 DEF HandlerCommits


\* Only the removal of a file takes a slug off leftover.
LEMMA WorkerLeavesFiles ==
  ASSUME WorkerStep
  PROVE  leftover' = leftover \/ \E sl \in Slugs : CleanupSlug(sl)
<1> USE DEF historyVars
<1>1. CASE WorkerWakes \/ TimerFires \/ DrainPhase
  BY <1>1 DEF WorkerWakes, TimerFires, DrainPhase, PhaseOver
<1>2. CASE \E s \in Sources : DeleteFiles(s) \/ TakeSource(s)
  BY <1>2 DEF DeleteFiles, TakeSource
<1>3. CASE SourceMissing \/ SourceBackingOff \/ SourceRead \/ FetchFails \/ FetchSource
  BY <1>3 DEF SourceMissing, SourceBackingOff, SourceRead, FetchFails, FetchSource
<1>4. CASE DiscardStale \/ WriteGeneration \/ WriteSourceFails \/ Recheck \/ PublishManifest \/ MarkRefresh
  BY <1>4 DEF DiscardStale, WriteGeneration, WriteSourceFails, Recheck, PublishManifest, MarkRefresh
<1>5. CASE \E r \in Relays : TakeRelay(r) \/ TakeCleanup(r)
  BY <1>5 DEF TakeRelay, TakeCleanup
<1>6. CASE CleanupDone
  BY <1>6 DEF CleanupDone
<1>7. CASE RelayIncomplete \/ RelayMerge \/ WriteRelayCache \/ WriteFails
  BY <1>7 DEF RelayIncomplete, RelayMerge, WriteRelayCache, WriteFails
<1> QED BY <1>1, <1>2, <1>3, <1>4, <1>5, <1>6, <1>7 DEF WorkerStep

LEMMA FileWorker ==
  ASSUME AllTypes, FileInv, WorkerStep
  PROVE  FileInv'
<1> USE DEF fileVars, serviceVars, queueVars, At
<1>0. JobInv /\ DbTypes /\ QueueTypes /\ FileTypes
  BY DEF AllTypes
<1>a. \A pc : Goto(pc) => worker'.pc = pc
  BY DEF AllTypes, WakeInv, Goto
<1>b. \A pc : Took(pc) => worker'.pc = pc
  BY DEF Took
<1>c. UNCHANGED <<slug, handler>>
  BY WorkerKeepsRows
<1>1. ASSUME UNCHANGED cleanups PROVE \A sl \in Slugs : Kept(sl)' = Kept(sl)
  BY <1>1, <1>c DEF Kept, Owners, Sweeping, Todo
<1>2. ASSUME NEW sl \in Slugs, CleanupSlug(sl) PROVE FileInv'
  <2>1. /\ worker.pc = "sweep" /\ worker' = worker /\ UNCHANGED cleanups
        /\ cache' = IF Obsolete(sl) THEN [cache EXCEPT ![sl] = None] ELSE cache
        /\ job' = [job EXCEPT !.slugs = job.slugs \ {sl}]
        /\ leftover' = IF Obsolete(sl) THEN leftover \ {sl} ELSE leftover
    BY <1>0, <1>2 DEF CleanupSlug, JobInv
  <2>2. job'.slug = job.slug /\ job'.slugs = job.slugs \ {sl}
    BY <1>0, <2>1 DEF JobInv
  <2>3. ASSUME NEW x \in Slugs \ leftover', cache'[x] # None PROVE Kept(x)' \/ x \in job'.slugs
    <3>1. CASE x # sl
      <4>1. cache'[x] = cache[x]
        BY <1>0, <2>1, <3>1 DEF FileTypes
      <4> QED BY <1>1, <2>1, <2>2, <2>3, <3>1, <4>1 DEF FileInv, Kept
    <3>2. CASE x = sl
      <4>1. ~Obsolete(sl)
        BY <1>0, <2>1, <2>3, <3>2 DEF FileTypes
      <4>2. Kept(sl)
        <5>1. CASE Owners(sl) # {}
          BY <5>1 DEF Kept
        <5>2. CASE job.slug = sl
          BY <2>1, <2>3, <3>2, <4>1, <5>2 DEF FileInv, Kept
        <5> QED BY <4>1, <5>1, <5>2 DEF Obsolete
      <4> QED BY <1>1, <2>1, <3>2, <4>2
    <3> QED BY <3>1, <3>2
  <2>4. ASSUME job'.slug \in Slugs \ leftover' PROVE Kept(job.slug)'
    <3>1. PICK x \in Slugs \ leftover : x = job.slug /\ x = job'.slug
      BY <2>1, <2>2, <2>4 DEF Obsolete
    <3>2. Kept(x)'
      BY <1>1, <2>1, <3>1 DEF FileInv, Kept
    <3> QED BY <3>1, <3>2 DEF Kept, Owners, Sweeping
  <2> QED BY <1>c, <2>1, <2>3, <2>4 DEF FileInv, Kept
<1> SUFFICES ASSUME ~\E sl \in Slugs : CleanupSlug(sl)
             PROVE  FileInv'
  BY <1>2
<1>d. UNCHANGED leftover
  BY WorkerLeavesFiles
<1>3. ASSUME NEW pc, worker'.pc = pc, pc \notin {"merge", "write", "sweep"}, worker.pc # "sweep",
             UNCHANGED <<cache, cleanups>>
      PROVE  FileInv'
  BY <1>1, <1>3, <1>c, <1>d DEF FileInv, Kept
<1>4. CASE WorkerWakes \/ TimerFires \/ DrainPhase
  <2>1. worker \in [pc : WorkerPC, worked : BOOLEAN]
    BY DEF AllTypes, WakeInv
  <2>2. /\ UNCHANGED <<cache, cleanups>> /\ worker.pc # "sweep"
        /\ worker'.pc \notin {"merge", "write", "sweep"}
    BY <1>4, <1>a, <2>1 DEF WorkerWakes, TimerFires, DrainPhase, PhaseOver, EnqueueSources
  <2> QED BY <1>3, <2>2
<1>5. CASE \E s \in Sources : DeleteFiles(s) \/ TakeSource(s)
  BY <1>3, <1>5, <1>b DEF DeleteFiles, TakeSource
<1>6. CASE SourceMissing \/ SourceBackingOff \/ SourceRead \/ FetchFails \/ FetchSource \/ DiscardStale
  BY <1>3, <1>6, <1>a DEF SourceMissing, SourceBackingOff, SourceRead, FetchFails, FetchSource, DiscardStale,
                          SourceDone
<1>7. CASE WriteGeneration \/ WriteSourceFails \/ Recheck \/ PublishManifest
  BY <1>3, <1>7, <1>a DEF WriteGeneration, WriteSourceFails, Recheck, PublishManifest, SourceDone
<1>8. CASE MarkRefresh
  BY <1>3, <1>8, <1>a DEF MarkRefresh, SourceDone, EnqueueRebuildRelays
<1>9. CASE RelayIncomplete \/ WriteFails
  BY <1>3, <1>9, <1>a DEF RelayIncomplete, WriteFails, RelayDone
<1>10. ASSUME NEW r \in Relays, TakeRelay(r) PROVE FileInv'
  <2>1. CASE Exists(slug[r])
    <3>1. /\ worker.pc = "relay" /\ worker'.pc = "merge" /\ UNCHANGED <<cache, cleanups>>
          /\ job' = [NoJob EXCEPT !.id = r, !.slug = slug[r]]
      BY <1>10, <1>b, <2>1 DEF TakeRelay
    <3>2. job'.id = r /\ job'.slug = slug[r] /\ slug[r] # None
      BY <2>1, <3>1 DEF NoJob, Exists
    <3>3. \A sl \in Slugs \ leftover' : cache'[sl] # None => Kept(sl)'
      BY <1>1, <1>c, <1>d, <3>1 DEF FileInv, Kept
    <3>4. Owners(job.slug)' # {}
      BY <1>c, <1>d, <3>2 DEF Owners
    <3> QED BY <1>c, <1>d, <3>1, <3>2, <3>3, <3>4 DEF FileInv, Kept
  <2>2. CASE ~Exists(slug[r])
    BY <1>3, <1>10, <1>b, <2>2 DEF TakeRelay
  <2> QED BY <2>1, <2>2
<1>11. CASE RelayMerge
  <2>1. /\ worker.pc = "merge" /\ worker'.pc = "write" /\ UNCHANGED <<cache, cleanups>>
        /\ job' = [job EXCEPT !.doc = Merged(job.id)]
    BY <1>11, <1>a DEF RelayMerge
  <2>2. job'.id = job.id /\ job'.slug = job.slug
    BY <1>0, <2>1 DEF JobInv
  <2> QED BY <1>1, <1>c, <1>d, <2>1, <2>2 DEF FileInv, Kept
<1>12. CASE WriteRelayCache
  <2>1. /\ worker.pc = "write" /\ worker'.pc = "relay" /\ UNCHANGED cleanups
        /\ cache' = [cache EXCEPT ![job.slug] = job.doc] /\ job.slug \in Slugs
    BY <1>0, <1>12, <1>a DEF WriteRelayCache, RelayDone, JobInv
  <2>2. job.slug \notin leftover => Kept(job.slug)
    BY <2>1 DEF FileInv, Kept
  <2>3. \A sl \in Slugs \ leftover : cache'[sl] # None => Kept(sl)
    BY <1>0, <2>1, <2>2 DEF FileInv, FileTypes, Kept
  <2> QED BY <1>1, <1>c, <1>d, <2>1, <2>3 DEF FileInv, Kept
<1>13. ASSUME NEW r \in Relays, TakeCleanup(r) PROVE FileInv'
  <2>1. /\ worker.pc = "cleanup" /\ worker'.pc = "sweep" /\ UNCHANGED cache
        /\ cleanups' = [cleanups EXCEPT ![r] = {}]
        /\ job' = [NoJob EXCEPT !.id = r, !.slug = slug[r], !.slugs = cleanups[r]]
    BY <1>13, <1>b DEF TakeCleanup
  <2>2. job'.slug = slug[r] /\ job'.slugs = cleanups[r]
    BY <2>1 DEF NoJob
  <2>3. ASSUME NEW sl \in Slugs \ leftover, cache[sl] # None PROVE Kept(sl)' \/ sl \in cleanups[r]
    <3>1. Kept(sl)
      BY <2>1, <2>3 DEF FileInv, Kept
    <3>2. Owners(sl)' = Owners(sl) /\ \A g \in Handlers : Todo(g)' = Todo(g) /\ handler'[g] = handler[g]
      BY <1>c, <1>d DEF Owners, Todo
    <3>3. \A q \in Relays : sl \in cleanups[q] => sl \in cleanups'[q] \/ sl \in cleanups[r]
      BY <1>0, <2>1 DEF QueueTypes
    <3> QED BY <3>1, <3>2, <3>3 DEF Kept, Sweeping
  <2>4. Owners(job.slug)' # {}
    BY <1>c, <1>d, <2>2 DEF Owners
  <2> QED BY <1>c, <1>d, <2>1, <2>2, <2>3, <2>4 DEF FileInv, Kept
<1>14. CASE CleanupDone
  <2>1. /\ worker.pc = "sweep" /\ worker'.pc = "cleanup" /\ UNCHANGED cache /\ job.id \in Relays
        /\ cleanups' = [cleanups EXCEPT ![job.id] = cleanups[job.id] \cup job.slugs]
    BY <1>0, <1>14, <1>a DEF CleanupDone, JobInv
  <2>2. /\ \A r \in Relays : cleanups[r] \subseteq cleanups'[r]
        /\ job.slugs \subseteq cleanups'[job.id]
    BY <1>0, <2>1 DEF QueueTypes
  <2>3. ASSUME NEW sl \in Slugs \ leftover, cache[sl] # None PROVE Kept(sl)'
    <3>1. Kept(sl) \/ sl \in job.slugs
      BY <2>3 DEF FileInv, Kept
    <3>2. Owners(sl)' = Owners(sl) /\ \A g \in Handlers : Todo(g)' = Todo(g) /\ handler'[g] = handler[g]
      BY <1>c, <1>d DEF Owners, Todo
    <3> QED BY <2>1, <2>2, <3>1, <3>2 DEF Kept, Sweeping
  <2> QED BY <1>c, <1>d, <2>1, <2>3 DEF FileInv, Kept
<1> QED BY <1>4, <1>5, <1>6, <1>7, <1>8, <1>9, <1>10, <1>11, <1>12, <1>13, <1>14 DEF WorkerStep

LEMMA OwnersStep ==
  ASSUME AllTypes, FileInv, Next
  PROVE  FileInv'
<1>0. JobInv /\ DbTypes
  BY DEF AllTypes
<1>1. ASSUME Keeps, UNCHANGED <<cache, worker, job, slug>> PROVE FileInv'
  <2>1. \A sl \in Slugs \ leftover' : Kept(sl) => Kept(sl)'
    BY <1>1 DEF Keeps, Kept, Owners
  <2>2. leftover \subseteq leftover'
    BY <1>1 DEF Keeps
  <2> QED BY <1>0, <1>1, <2>1, <2>2, FileFrame
<1>2. ASSUME NEW h \in Handlers, HandlerCommits(h) PROVE FileInv'
  <2>1. leftover \subseteq leftover' /\ UNCHANGED <<cache, worker, job>>
    BY <1>2, CommitKeeps, CommitMarks DEF fileVars
  <2> QED BY <1>0, <1>2, <2>1, KeptByCommits, FileFrame
<1>3. ASSUME NEW h \in Handlers, HandlerApplies(h) PROVE FileInv'
  BY <1>1, <1>3, ApplyKeeps, ApplyKeepsWork DEF dbVars, fileVars
<1>4. CASE Other
  BY <1>1, <1>4, OtherKeeps, OtherKeepsWork DEF dbVars, fileVars
<1>5. ASSUME NEW r \in Relays, NEW sl \in Slugs, CreateRelay(r, sl) PROVE FileInv'
  <2>1. /\ slug[r] = None /\ slug' = [slug EXCEPT ![r] = sl]
        /\ UNCHANGED <<cache, worker, job, cleanups, handler, leftover>>
    BY <1>5 DEF CreateRelay, fileVars, serviceVars, queueVars, threadVars
  <2>2. ASSUME NEW x \in Slugs, Kept(x) PROVE Kept(x)'
    <3>1. Owners(x) \subseteq Owners(x)'
      BY <1>0, <2>1, EpgAssumption DEF Owners, DbTypes
    <3>2. Sweeping(x) => Sweeping(x)'
      BY <2>1 DEF Sweeping, Todo
    <3> QED BY <2>2, <3>1, <3>2 DEF Kept
  <2>3. \A q \in Relays : slug[q] # None => slug'[q] # None
    BY <1>0, <2>1, EpgAssumption DEF DbTypes
  <2> QED BY <1>0, <2>1, <2>2, <2>3, FileFrame
<1>6. CASE Restart
  <2>1. /\ cache' = [sl \in Slugs |-> IF Owners(sl) = {} THEN None ELSE cache[sl]]
        /\ worker'.pc = "idle" /\ slug' = slug
    BY <1>6 DEF Restart, IdleWorker, dbVars
  <2>2. \A sl \in Slugs : cache'[sl] # None => Owners(sl)' # {}
    BY <2>1 DEF Owners
  <2> QED BY <2>1, <2>2 DEF FileInv
<1>7. ASSUME NEW h \in Handlers, HandlerDerives(h) PROVE FileInv'
  BY <1>1, <1>7, DeriveKeeps, DeriveKeepsWork DEF dbVars, fileVars
<1> QED BY <1>2, <1>3, <1>4, <1>5, <1>6, <1>7, FileWorker, NextKinds


-----------------------------------------------------------------------------
(***************************************************************************)
(* Guides.                                                                 *)
(***************************************************************************)

\* What GuideInv says of a relay that is not queued.
GuideOf(r) ==
  /\ Demanded(r) =>
       \/ cache[slug[r]] = Merged(r)
       \/ worker.pc = "mark" /\ job.id \in mapping[r]
       \/ worker.pc \in {"merge", "write"} /\ job.id = r
  /\ worker.pc = "merge" /\ job.id = r /\ Exists(slug[r]) => job.slug = slug[r]
  /\ worker.pc = "write" /\ job.id = r /\ Demanded(r) => job.slug = slug[r] /\ job.doc = Merged(r)
  /\ worker.pc \in {"merge", "write"} /\ job.slug = slug[r] /\ mapping[r] # {} => job.id = r

LEMMA GuideParts == GuideInv <=> (admitOpen => \A r \in Relays \ broken : ~Queued(r) => GuideOf(r))
BY DEF GuideInv, GuideOf

\* The worker and the files are left alone: a relay is queued, or maps nothing,
\* or has the slug and the mapping it had.
LEMMA GuideFrame ==
  ASSUME GuideInv, UNCHANGED <<manifest, cache, worker, job>>, admitOpen' => admitOpen,
         broken \subseteq broken',
         \A r \in Relays \ broken' :
           \/ Queued(r)'
           \/ mapping'[r] = {} /\ (worker.pc = "merge" /\ job.id = r => ~Exists(slug'[r]))
           \/ /\ ~Queued(r) /\ slug'[r] = slug[r] /\ mapping'[r] = mapping[r]
              /\ Demanded(r)' => Demanded(r)
  PROVE  GuideInv'
<1> SUFFICES ASSUME admitOpen', NEW r \in Relays \ broken', ~Queued(r)' PROVE GuideOf(r)'
  BY GuideParts DEF GuideInv, GuideOf
<1>1. CASE mapping'[r] = {} /\ (worker.pc = "merge" /\ job.id = r => ~Exists(slug'[r]))
  BY <1>1 DEF GuideOf, Demanded
<1>2. CASE ~Queued(r) /\ slug'[r] = slug[r] /\ mapping'[r] = mapping[r] /\ (Demanded(r)' => Demanded(r))
  <2>1. GuideOf(r)
    BY <1>2, GuideParts
  <2>2. Merged(r)' = Merged(r)
    BY <1>2 DEF Merged
  <2> QED BY <1>2, <2>1, <2>2 DEF GuideOf
<1> QED BY <1>1, <1>2

\* The same mapping, URLs and generations, and no purge done or missed: the same demand.
LEMMA SameDemand ==
  ASSUME NEW r \in Relays, Keeps, mapping[r] \subseteq Sources, UNCHANGED manifest,
         slug'[r] = slug[r], mapping'[r] = mapping[r],
         r \notin broken', \A s \in mapping[r] : url'[s] = url[s] \/ Purging(s)'
  PROVE  Demanded(r)' => Demanded(r)
BY DEF Keeps, Demanded, Eligible

LEMMA GuideCommits ==
  ASSUME AllTypes, GuideInv, NEW h \in Handlers, HandlerCommits(h)
  PROVE  GuideInv'
<1>0. HandlerInv /\ DbTypes
  BY DEF AllTypes
<1>1. UNCHANGED <<manifest, cache, worker, job, admitOpen>>
  BY CommitKeeps DEF fileVars, serviceVars
<1>2. Keeps
  BY CommitEnds
<1>3. ASSUME \A r \in Relays \ broken' :
               \/ Queued(r)'
               \/ mapping'[r] = {} /\ ~Exists(slug'[r])
               \/ /\ slug'[r] = slug[r] /\ mapping'[r] = mapping[r]
                  /\ \A s \in mapping[r] : url'[s] = url[s] \/ Purging(s)'
      PROVE  GuideInv'
  <2>1. CASE admitOpen
    <3>1. ASSUME NEW r \in Relays \ broken'
          PROVE  \/ Queued(r)'
                 \/ mapping'[r] = {} /\ ~Exists(slug'[r])
                 \/ /\ ~Queued(r) /\ slug'[r] = slug[r] /\ mapping'[r] = mapping[r]
                    /\ Demanded(r)' => Demanded(r)
      <4>1. Queued(r) => Queued(r)'
        BY <1>2, <2>1, <3>1 DEF Keeps
      <4>2. mapping[r] \subseteq Sources
        BY <1>0 DEF DbTypes, LiveSources
      <4> QED BY <1>1, <1>2, <1>3, <4>1, <4>2, SameDemand
    <3>2. broken \subseteq broken'
      BY <1>2 DEF Keeps
    <3> QED BY <1>1, <3>1, <3>2, GuideFrame
  <2>2. CASE ~admitOpen
    BY <1>1, <2>2 DEF GuideInv
  <2> QED BY <2>1, <2>2
<1>4. ASSUME NEW s \in Sources,
             \/ \E u \in URLs, on \in BOOLEAN : CreateEPGSource(h, s, u, on) \/ UpdateEPGSource(h, s, u, on)
             \/ DeleteEPGSource(h, s)
      PROVE  GuideInv'
  <2>1. /\ UNCHANGED <<slug, mapping>> /\ \A t \in Sources \ {s} : url'[t] = url[t]
        /\ ~Exists(url[s]) \/ url'[s] = url[s] \/ Purging(s)'
    BY <1>4, PurgeSource
  <2>2. \A r \in Relays : \A t \in mapping[r] : t \in Sources /\ Exists(url[t])
    BY <1>0 DEF DbTypes, LiveSources
  <2>3. \A r \in Relays : \A t \in mapping[r] : url'[t] = url[t] \/ Purging(t)'
    BY <2>1, <2>2
  <2> QED BY <1>3, <2>1, <2>3
<1>5. ASSUME NEW r \in Relays, NEW sl \in Slugs, UpdateRelay(h, r, sl) PROVE GuideInv'
  <2>1. slug' = [slug EXCEPT ![r] = sl] /\ UNCHANGED <<url, mapping>>
    BY <1>5 DEF UpdateRelay
  <2>2. sl # slug[r] => CallsForRebuild(handler'[h].change, r)
    BY <1>0, <1>5, CommitRelay DEF CallsForRebuild
  <2>3. \A q \in Relays : slug'[q] = slug[q] \/ Queued(q)'
    BY <1>0, <2>1, <2>2 DEF DbTypes, Queued
  <2> QED BY <1>3, <2>1, <2>3
<1>6. ASSUME NEW r \in Relays, DeleteRelay(h, r) PROVE GuideInv'
  <2>1. slug' = [slug EXCEPT ![r] = Gone] /\ mapping' = [mapping EXCEPT ![r] = {}] /\ UNCHANGED url
    BY <1>6 DEF DeleteRelay
  <2>2. /\ mapping'[r] = {} /\ ~Exists(slug'[r])
        /\ \A q \in Relays \ {r} : slug'[q] = slug[q] /\ mapping'[q] = mapping[q]
    BY <1>0, <2>1 DEF DbTypes, Exists
  <2> QED BY <1>3, <2>1, <2>2
<1>7. ASSUME NEW r \in Relays, NEW ss \in SUBSET LiveSources, NEW rebuild \in BOOLEAN,
             ChangeMembership(h, r, ss, rebuild)
      PROVE  GuideInv'
  <2>1. /\ mapping' = [mapping EXCEPT ![r] = ss] /\ UNCHANGED <<url, slug>>
        /\ mapping[r] # ss => rebuild \/ r \in broken'
    BY <1>7 DEF ChangeMembership
  <2>2. ASSUME rebuild PROVE Queued(r)'
    <3>1. PICK w \in Todo(h)' : w = [op |-> "rebuild", ids |-> {r}]
      BY <1>0, <1>7, <2>2, CommitMapping
    <3>2. w.op = "rebuild" /\ r \in w.ids
      BY <3>1
    <3> QED BY <3>2 DEF Queued
  <2>3. \A q \in Relays \ broken' : mapping'[q] = mapping[q] \/ Queued(q)'
    BY <1>0, <2>1, <2>2 DEF DbTypes
  <2> QED BY <1>3, <2>1, <2>3
<1>8. ASSUME NEW rs \in SUBSET LiveRelays, NEW new \in [rs -> SUBSET LiveSources], UpdateChannel(h, rs, new)
      PROVE  GuideInv'
  <2>1. /\ mapping' = [r \in Relays |-> IF r \in rs THEN new[r] ELSE mapping[r]]
        /\ UNCHANGED <<url, slug>>
    BY <1>8 DEF UpdateChannel
  <2>2. \A r \in rs : new[r] # mapping[r] => CallsForRebuild(handler'[h].change, r)
    BY <1>0, <1>8, CommitChannel DEF CallsForRebuild
  <2>3. \A q \in Relays : mapping'[q] = mapping[q] \/ Queued(q)'
    BY <2>1, <2>2 DEF Queued
  <2> QED BY <1>3, <2>1, <2>3
<1> QED BY <1>4, <1>5, <1>6, <1>7, <1>8 DEF HandlerCommits


\* Steps of the worker away from the guides: a relay still demanded has the file
\* and the generations it had.
LEMMA GuidePhases ==
  ASSUME GuideInv, worker.pc \notin {"mark", "merge", "write"}, worker'.pc \notin {"merge", "write"},
         UNCHANGED <<slug, mapping, broken, admitOpen>>,
         \A r \in Relays : admitOpen /\ Queued(r) => Queued(r)',
         \A r \in Relays : Demanded(r)' =>
           \/ worker'.pc = "mark" /\ job'.id \in mapping[r]
           \/ Demanded(r) /\ cache'[slug[r]] = cache[slug[r]] /\ Merged(r)' = Merged(r)
  PROVE  GuideInv'
<1> SUFFICES ASSUME admitOpen', NEW r \in Relays \ broken', ~Queued(r)' PROVE GuideOf(r)'
  BY GuideParts DEF GuideInv, GuideOf
<1>1. GuideOf(r)
  BY GuideParts
<1> QED BY <1>1 DEF GuideOf

\* A generation goes, or a new one comes.
LEMMA GuideGenerations ==
  ASSUME AllTypes, GuideInv, NEW s \in Sources, NEW m, manifest' = [manifest EXCEPT ![s] = m],
         worker.pc \notin {"mark", "merge", "write"}, worker'.pc \notin {"merge", "write"},
         UNCHANGED <<url, slug, mapping, broken, admitOpen, pendingRelays, handler, cache>>,
         pendingDeleteSources \ {s} \subseteq pendingDeleteSources',
         m = None \/ (worker'.pc = "mark" /\ job'.id = s)
  PROVE  GuideInv'
<1>1. /\ \A t \in Sources \ {s} : manifest'[t] = manifest[t]
      /\ manifest'[s] = m
  BY DEF AllTypes, FileTypes
<1>2. \A r \in Relays : Queued(r) => Queued(r)'
  BY DEF Queued, Todo
<1>3. \A t \in Sources \ {s} : Purging(t) => Purging(t)'
  BY DEF Purging, Todo
<1>4. ASSUME NEW r \in Relays, Demanded(r)'
      PROVE  \/ worker'.pc = "mark" /\ job'.id \in mapping[r]
             \/ Demanded(r) /\ cache'[slug[r]] = cache[slug[r]] /\ Merged(r)' = Merged(r)
  <2>0. mapping[r] \subseteq Sources
    BY DEF AllTypes, DbTypes, LiveSources
  <2>1. CASE s \in mapping[r]
    <3>1. Eligible(s)'
      BY <1>4, <2>1 DEF Demanded
    <3>2. m # None
      BY <1>1, <3>1 DEF Eligible
    <3> QED BY <2>1, <3>2
  <2>2. CASE s \notin mapping[r]
    <3>1. \A t \in mapping[r] : t \in Sources \ {s}
      BY <2>0, <2>2
    <3>2. \A t \in mapping[r] : Eligible(t) /\ ~Purging(t)
      BY <1>1, <1>3, <1>4, <3>1 DEF Demanded, Eligible
    <3>3. Demanded(r)
      BY <1>4, <3>2 DEF Demanded
    <3>4. Merged(r)' = Merged(r)
      BY <1>1, <3>1 DEF Merged
    <3> QED BY <3>3, <3>4
  <2> QED BY <2>1, <2>2
<1> QED BY <1>2, <1>4, GuidePhases

\* A relay is taken, merged and written.
LEMMA GuideRelays ==
  ASSUME AllTypes, GuideInv,
         (\E r \in Relays : TakeRelay(r)) \/ RelayIncomplete \/ RelayMerge \/ WriteRelayCache \/ WriteFails
  PROVE  GuideInv'
<1> USE DEF fileVars, serviceVars, queueVars, At
<1>0. JobInv /\ DbTypes /\ FileTypes
  BY DEF AllTypes
<1>a. \A pc : Goto(pc) => worker'.pc = pc
  BY DEF AllTypes, WakeInv, Goto
<1>b. \A pc : Took(pc) => worker'.pc = pc
  BY DEF Took
<1>c. UNCHANGED <<url, slug, mapping, handler, admitOpen, pendingDeleteSources, manifest>>
  <2>1. WorkerStep
    BY DEF WorkerStep
  <2>2. UNCHANGED <<pendingDeleteSources, manifest>>
    BY DEF TakeRelay, RelayIncomplete, RelayMerge, WriteRelayCache, WriteFails
  <2> QED BY <2>1, <2>2, WorkerKeepsRows
<1>d. \A r \in Relays : Merged(r)' = Merged(r) /\ Demanded(r)' = Demanded(r)
  BY <1>c DEF Merged, Demanded, Eligible, Purging, Todo
<1>1. SUFFICES ASSUME admitOpen, NEW q \in Relays \ broken', ~Queued(q)' PROVE GuideOf(q)'
  BY <1>c, GuideParts DEF GuideInv, GuideOf
<1>2. ASSUME UNCHANGED pendingRelays, broken \subseteq broken' PROVE GuideOf(q)
  <2>1. Queued(q) => Queued(q)'
    BY <1>2, <1>c DEF Queued, Todo
  <2> QED BY <1>1, <1>2, <2>1, GuideParts
<1>3. ASSUME NEW r \in Relays, TakeRelay(r) PROVE GuideOf(q)'
  <2>1. /\ worker.pc = "relay" /\ pendingRelays' = pendingRelays \ {r} /\ UNCHANGED cache
        /\ broken' = broken \ {r}
    BY <1>3 DEF TakeRelay
  <2>2. q # r => GuideOf(q)
    <3>1. q # r /\ Queued(q) => Queued(q)'
      BY <1>c, <2>1 DEF Queued, Todo
    <3> QED BY <1>1, <2>1, <3>1, GuideParts
  <2>3. CASE Exists(slug[r])
    <3>1. worker'.pc = "merge" /\ job' = [NoJob EXCEPT !.id = r, !.slug = slug[r]]
      BY <1>3, <1>b, <2>3 DEF TakeRelay
    <3>2. job'.id = r /\ job'.slug = slug[r]
      BY <3>1 DEF NoJob
    <3>3. slug[q] = slug[r] => q = r
      BY <1>0, <2>3 DEF DbTypes, DbInv, LiveRelays
    <3>4. CASE q = r
      BY <1>c, <3>1, <3>2, <3>4 DEF GuideOf
    <3>5. CASE q # r
      BY <1>c, <1>d, <2>1, <2>2, <3>1, <3>2, <3>3, <3>5 DEF GuideOf
    <3> QED BY <3>4, <3>5
  <2>4. CASE ~Exists(slug[r])
    <3>1. worker'.pc = "relay"
      BY <1>3, <1>b, <2>4 DEF TakeRelay
    <3>2. CASE q = r
      BY <1>c, <1>d, <2>4, <3>1, <3>2 DEF GuideOf, Demanded
    <3>3. CASE q # r
      BY <1>c, <1>d, <2>1, <2>2, <3>1, <3>3 DEF GuideOf
    <3> QED BY <3>2, <3>3
  <2> QED BY <2>3, <2>4
<1>4. CASE RelayIncomplete
  <2>1. /\ worker.pc = "merge" /\ worker'.pc = "relay" /\ UNCHANGED <<cache, broken, pendingRelays>>
        /\ \E s \in mapping[job.id] : ~Eligible(s)
    BY <1>4, <1>a DEF RelayIncomplete, RelayDone, historyVars
  <2>2. job.id = q => ~Demanded(q)
    BY <2>1 DEF Demanded
  <2> QED BY <1>2, <1>c, <1>d, <2>1, <2>2 DEF GuideOf
<1>5. CASE RelayMerge
  <2>1. /\ worker.pc = "merge" /\ worker'.pc = "write" /\ UNCHANGED <<cache, broken, pendingRelays>>
        /\ job' = [job EXCEPT !.doc = Merged(job.id)]
    BY <1>5, <1>a DEF RelayMerge, historyVars
  <2>2. job'.id = job.id /\ job'.slug = job.slug /\ job'.doc = Merged(job.id)
    BY <1>0, <2>1 DEF JobInv
  <2>3. GuideOf(q) /\ (Demanded(q) => Exists(slug[q]))
    BY <1>2, <2>1 DEF Demanded
  <2> QED BY <1>c, <1>d, <2>1, <2>2, <2>3 DEF GuideOf
<1>6. CASE WriteRelayCache
  <2>1. /\ worker.pc = "write" /\ worker'.pc = "relay" /\ UNCHANGED <<broken, pendingRelays>>
        /\ cache' = [cache EXCEPT ![job.slug] = job.doc] /\ job.slug \in Slugs
    BY <1>0, <1>6, <1>a DEF WriteRelayCache, RelayDone, JobInv, historyVars
  <2>2. GuideOf(q)
    BY <1>2, <2>1
  <2>3. ASSUME Demanded(q), q = job.id PROVE cache'[slug[q]] = Merged(q)
    BY <1>0, <2>1, <2>2, <2>3 DEF GuideOf, FileTypes
  <2>4. ASSUME Demanded(q), q # job.id PROVE cache'[slug[q]] = Merged(q)
    <3>1. mapping[q] # {} /\ slug[q] # job.slug
      BY <2>1, <2>2, <2>4 DEF Demanded, GuideOf
    <3>2. cache'[slug[q]] = cache[slug[q]]
      BY <1>0, <2>1, <3>1 DEF FileTypes
    <3> QED BY <2>1, <2>2, <2>4, <3>2 DEF GuideOf
  <2> QED BY <1>c, <1>d, <2>1, <2>3, <2>4 DEF GuideOf
<1>7. CASE WriteFails
  <2>1. /\ worker.pc = "write" /\ worker'.pc = "relay" /\ UNCHANGED <<cache, pendingRelays>>
        /\ broken' = broken \cup {job.id}
    BY <1>7, <1>a DEF WriteFails, RelayDone
  <2> QED BY <1>2, <1>c, <1>d, <2>1 DEF GuideOf
<1> QED BY <1>3, <1>4, <1>5, <1>6, <1>7


LEMMA GuideWorker ==
  ASSUME AllTypes, GuideInv, WorkerStep
  PROVE  GuideInv'
<1> USE DEF fileVars, serviceVars, queueVars, historyVars, At
<1>0. JobInv /\ DbTypes /\ FileTypes
  BY DEF AllTypes
<1>a. \A pc : Goto(pc) => worker'.pc = pc
  BY DEF AllTypes, WakeInv, Goto
<1>b. \A pc : Took(pc) => worker'.pc = pc
  BY DEF Took
<1>c. UNCHANGED <<url, slug, mapping, handler, admitOpen>>
  BY WorkerKeepsRows
<1>1. ASSUME worker.pc \notin {"mark", "merge", "write"}, worker'.pc \notin {"merge", "write"},
             UNCHANGED <<manifest, cache, broken, pendingRelays, pendingDeleteSources>>
      PROVE  GuideInv'
  <2>1. \A r \in Relays : Queued(r)' = Queued(r) /\ Demanded(r)' = Demanded(r) /\ Merged(r)' = Merged(r)
    BY <1>1, <1>c DEF Queued, Demanded, Merged, Eligible, Purging, Todo
  <2> QED BY <1>1, <1>c, <2>1, GuidePhases
<1>2. CASE WorkerWakes \/ TimerFires \/ DrainPhase
  <2>1. worker \in [pc : WorkerPC, worked : BOOLEAN]
    BY DEF AllTypes, WakeInv
  <2>2. /\ UNCHANGED <<manifest, cache, broken, pendingRelays, pendingDeleteSources>>
        /\ worker.pc \notin {"mark", "merge", "write"} /\ worker'.pc \notin {"merge", "write"}
    BY <1>2, <1>a, <2>1 DEF WorkerWakes, TimerFires, DrainPhase, PhaseOver, EnqueueSources
  <2> QED BY <1>1, <2>2
<1>3. ASSUME NEW s \in Sources, DeleteFiles(s) PROVE GuideInv'
  <2>1. /\ manifest' = [manifest EXCEPT ![s] = None] /\ worker.pc = "delete" /\ worker'.pc = "delete"
        /\ pendingDeleteSources' = pendingDeleteSources \ {s} /\ UNCHANGED <<broken, pendingRelays, cache>>
    BY <1>3, <1>b DEF DeleteFiles
  <2> QED BY <1>c, <2>1, GuideGenerations
<1>4. CASE \E s \in Sources : TakeSource(s)
  BY <1>1, <1>4, <1>b DEF TakeSource
<1>5. CASE SourceMissing
  <2>1. /\ manifest' = [manifest EXCEPT ![job.id] = None] /\ worker.pc = "readSource" /\ worker'.pc = "source"
        /\ job.id \in Sources /\ UNCHANGED <<broken, pendingRelays, pendingDeleteSources, cache>>
    BY <1>0, <1>5, <1>a DEF SourceMissing, SourceDone, JobInv
  <2>2. PICK s \in Sources : s = job.id
    BY <2>1
  <2> QED BY <1>c, <2>1, <2>2, GuideGenerations
<1>6. CASE SourceBackingOff \/ SourceRead \/ FetchFails \/ FetchSource \/ DiscardStale
  BY <1>1, <1>6, <1>a DEF SourceBackingOff, SourceRead, FetchFails, FetchSource, DiscardStale, SourceDone
<1>7. CASE WriteGeneration \/ WriteSourceFails \/ Recheck
  BY <1>1, <1>7, <1>a DEF WriteGeneration, WriteSourceFails, Recheck, SourceDone
<1>8. CASE PublishManifest
  <2>1. /\ manifest' = [manifest EXCEPT ![job.id] = [gen |-> gens + 1, url |-> job.url]]
        /\ worker.pc = "publish" /\ worker'.pc = "mark" /\ job.id \in Sources
        /\ UNCHANGED <<broken, pendingRelays, pendingDeleteSources, cache, job>>
    BY <1>0, <1>8, <1>a DEF PublishManifest, JobInv, FetchPC
  <2>2. PICK s \in Sources : s = job.id
    BY <2>1
  <2>3. job'.id = s
    BY <2>1, <2>2
  <2> QED BY <1>c, <2>1, <2>2, <2>3, GuideGenerations
<1>9. CASE MarkRefresh
  <2>1. /\ worker.pc = "mark" /\ worker'.pc = "source"
        /\ UNCHANGED <<manifest, cache, broken, pendingDeleteSources>>
        /\ admitOpen => pendingRelays' = pendingRelays \cup RelaysReferencingSource(job.id)
    BY <1>9, <1>a DEF MarkRefresh, SourceDone, EnqueueRebuildRelays, Accepts
  <2>2. \A r \in Relays : Demanded(r)' = Demanded(r) /\ Merged(r)' = Merged(r)
    BY <1>c, <2>1 DEF Demanded, Merged, Eligible, Purging, Todo
  <2>3. SUFFICES ASSUME admitOpen, NEW r \in Relays \ broken, ~Queued(r)' PROVE GuideOf(r)'
    BY <1>c, <2>1, GuideParts DEF GuideInv, GuideOf
  <2>4. ~Queued(r) /\ job.id \notin mapping[r]
    BY <1>c, <2>1, <2>3 DEF Queued, Todo, RelaysReferencingSource
  <2>5. GuideOf(r)
    BY <2>3, <2>4, GuideParts
  <2> QED BY <1>c, <2>1, <2>2, <2>4, <2>5 DEF GuideOf
<1>10. CASE (\E r \in Relays : TakeCleanup(r)) \/ CleanupDone
  BY <1>1, <1>10, <1>a, <1>b DEF TakeCleanup, CleanupDone
<1>11. ASSUME NEW sl \in Slugs, CleanupSlug(sl) PROVE GuideInv'
  <2>1. /\ worker.pc = "sweep" /\ worker' = worker
        /\ UNCHANGED <<manifest, broken, pendingRelays, pendingDeleteSources>>
        /\ cache' = IF Obsolete(sl) THEN [cache EXCEPT ![sl] = None] ELSE cache
    BY <1>11 DEF CleanupSlug
  <2>2. \A r \in Relays : Queued(r)' = Queued(r) /\ Demanded(r)' = Demanded(r) /\ Merged(r)' = Merged(r)
    BY <1>c, <2>1 DEF Queued, Demanded, Merged, Eligible, Purging, Todo
  <2>3. ASSUME NEW r \in Relays PROVE cache'[slug[r]] = cache[slug[r]]
    BY <1>0, <2>1 DEF FileTypes, Obsolete, Owners
  <2> QED BY <1>c, <2>1, <2>2, <2>3, GuidePhases
<1> QED BY <1>2, <1>3, <1>4, <1>5, <1>6, <1>7, <1>8, <1>9, <1>10, <1>11, GuideRelays DEF WorkerStep

LEMMA GuideStep ==
  ASSUME AllTypes, FileInv, GuideInv, Next
  PROVE  GuideInv'
<1>0. DbTypes /\ JobInv
  BY DEF AllTypes
<1>1. ASSUME Keeps, UNCHANGED <<url, slug, mapping, manifest, cache, worker, job>>,
             admitOpen' => admitOpen
      PROVE  GuideInv'
  <2>1. CASE admitOpen
    <3>1. broken \subseteq broken' /\ \A r \in Relays \ broken' : Queued(r) => Queued(r)'
      BY <1>1, <2>1 DEF Keeps
    <3>2. \A r \in Relays : mapping[r] \subseteq Sources
      BY <1>0 DEF DbTypes, LiveSources
    <3>3. \A r \in Relays \ broken' : Demanded(r)' => Demanded(r)
      BY <1>1, <3>2, SameDemand
    <3> QED BY <1>1, <3>1, <3>3, GuideFrame
  <2>2. CASE ~admitOpen
    BY <1>1, <2>2 DEF GuideInv
  <2> QED BY <2>1, <2>2
<1>2. ASSUME NEW h \in Handlers, HandlerApplies(h) PROVE GuideInv'
  BY <1>1, <1>2, ApplyKeeps, ApplyKeepsWork DEF dbVars, fileVars
<1>3. CASE Other
  <2>1. admitOpen' => admitOpen
    BY <1>3 DEF Other, Begin, RefreshRequest, CleanupRetryDue, BackoffOver, IntervalElapses, CloseAdmission,
                serviceVars
  <2> QED BY <1>1, <1>3, <2>1, OtherKeeps, OtherKeepsWork DEF dbVars, fileVars
<1>4. ASSUME NEW r \in Relays, NEW sl \in Slugs, CreateRelay(r, sl) PROVE GuideInv'
  <2>1. /\ slug[r] = None /\ slug' = [slug EXCEPT ![r] = sl]
        /\ UNCHANGED <<url, mapping, manifest, cache, broken, worker, job, handler, admitOpen>>
        /\ UNCHANGED <<pendingRelays, pendingDeleteSources, cleanups>>
    BY <1>4 DEF CreateRelay, fileVars, serviceVars, queueVars, threadVars
  <2>2. mapping'[r] = {} /\ (worker.pc = "merge" => job.id # r)
    BY <1>0, <2>1 DEF DbTypes, DbInv, Exists, FileInv
  <2>3. ASSUME NEW q \in Relays \ {r}
        PROVE  /\ slug'[q] = slug[q] /\ mapping'[q] = mapping[q]
               /\ Queued(q)' = Queued(q) /\ Demanded(q)' = Demanded(q)
    <3>1. slug'[q] = slug[q]
      BY <1>0, <2>1 DEF DbTypes
    <3> QED BY <2>1, <3>1 DEF Queued, Demanded, Eligible, Purging, Todo
  <2>4. \A q \in Relays :
           \/ Queued(q)'
           \/ mapping'[q] = {} /\ (worker.pc = "merge" /\ job.id = q => ~Exists(slug'[q]))
           \/ /\ ~Queued(q) /\ slug'[q] = slug[q] /\ mapping'[q] = mapping[q]
              /\ Demanded(q)' => Demanded(q)
    BY <2>2, <2>3
  <2> QED BY <2>1, <2>4, GuideFrame
<1>5. CASE Restart
  <2>1. worker'.pc = "idle" /\ pendingRelays' = LiveRelays /\ UNCHANGED slug
    BY <1>5 DEF Restart, IdleWorker, dbVars
  <2>2. SUFFICES ASSUME NEW r \in Relays, ~Queued(r)' PROVE GuideOf(r)'
    BY GuideParts DEF GuideInv, GuideOf
  <2>3. ~Demanded(r)'
    BY <2>1, <2>2 DEF Queued, LiveRelays, Demanded
  <2> QED BY <2>1, <2>3 DEF GuideOf
<1>6. ASSUME NEW h \in Handlers, HandlerDerives(h) PROVE GuideInv'
  BY <1>1, <1>6, DeriveKeeps, DeriveKeepsWork DEF dbVars, fileVars, serviceVars
<1> QED BY <1>2, <1>3, <1>4, <1>5, <1>6, GuideCommits, GuideWorker, NextKinds


-----------------------------------------------------------------------------
(***************************************************************************)
(* The invariant.                                                          *)
(***************************************************************************)
GuideAll == AllTypes /\ PurgeInv /\ FileInv /\ GuideInv

LEMMA GuideInit ==
  ASSUME Init
  PROVE  GuideAll
<1>1. AllTypes
  BY TypesInit
<1>2. /\ \A h \in Handlers : handler[h].pc = "idle"
      /\ worker.pc = "idle" /\ pendingRelays = LiveRelays
      /\ manifest = [s \in Sources |-> None] /\ cache = [sl \in Slugs |-> None]
  BY DEF Init, IdleHandler, IdleWorker
<1>4. PurgeInv
  BY <1>2 DEF PurgeInv
<1>5. FileInv
  BY <1>2 DEF FileInv
<1>6. \A r \in Relays : ~Queued(r) => ~Demanded(r)
  BY <1>2 DEF Queued, LiveRelays, Demanded
<1>7. GuideInv
  BY <1>2, <1>6 DEF GuideInv
<1> QED BY <1>1, <1>4, <1>5, <1>7 DEF GuideAll

LEMMA GuideNext ==
  ASSUME GuideAll, [Next]_vars
  PROVE  GuideAll'
<1>0. AllTypes' /\ JobInv /\ DbTypes
  BY TypesStep DEF GuideAll, AllTypes
<1>1. CASE Next
  BY <1>0, <1>1, PurgeStep, OwnersStep, GuideStep DEF GuideAll
<1>2. CASE UNCHANGED vars
  <2>1. UNCHANGED <<url, slug, mapping, manifest, cache, worker, job, handler>>
    BY <1>2 DEF vars, dbVars, fileVars, threadVars
  <2>2. UNCHANGED <<pendingDeleteSources, pendingRelays, cleanups, admitOpen, broken, unpurged, leftover>>
    BY <1>2 DEF vars, serviceVars, queueVars, historyVars
  <2>3. Keeps
    <3>1. \A g \in Handlers : Doing(g)' = Doing(g)
      BY <2>1 DEF Doing, Todo
    <3> QED BY <2>2, <3>1, KeepsFrame
  <2>5. PurgeInv'
    BY <1>0, <2>1, <2>2, <2>3, PurgeFrame DEF GuideAll
  <2>6. \A sl \in Slugs \ leftover' : Kept(sl) => Kept(sl)'
    BY <2>1, <2>3 DEF Keeps, Kept, Owners
  <2>7. FileInv'
    BY <1>0, <2>1, <2>2, <2>6, FileFrame DEF GuideAll
  <2>8. \A r \in Relays : Queued(r)' = Queued(r) /\ Demanded(r)' = Demanded(r)
    BY <2>1, <2>2 DEF Queued, Demanded, Eligible, Purging, Todo
  <2>9. GuideInv'
    BY <2>1, <2>2, <2>8, GuideFrame DEF GuideAll
  <2> QED BY <1>0, <2>5, <2>7, <2>9 DEF GuideAll
<1> QED BY <1>1, <1>2

\* For any number of sources, relays, URLs, slugs and concurrent requests: whatever
\* is not as it should be is queued, derived or still to be derived by a request, in
\* the hands of the worker, or recorded as missed: by a request whose read-back after
\* the commit failed, by one that compared with a row others had changed since its
\* first read, by a crash or by a failed write.
THEOREM EpgInvariance == Spec => []EpgInv
<1>1. Init => GuideAll
  BY GuideInit
<1>2. GuideAll /\ [Next]_vars => GuideAll'
  BY GuideNext
<1>3. GuideAll => EpgInv
  BY TypeInvParts DEF GuideAll, EpgInv
<1> QED BY <1>1, <1>2, <1>3, PTL DEF Spec

\* Nothing is under way when everything has settled.
LEMMA QuietMeansDone ==
  ASSUME Quiet
  PROVE  /\ \A s \in Sources : ~Purging(s)
         /\ \A r \in Relays : ~Queued(r)
         /\ \A sl \in Slugs : ~Sweeping(sl)
         /\ worker.pc = "idle"
<1>1. \A h \in Handlers : Todo(h) = {} /\ handler[h].change = NoChange
  BY DEF Quiet, IdleHandler, Todo
<1> QED BY <1>1, NothingCalledFor DEF Quiet, Purging, Queued, Sweeping

\* When everything has settled, the guide of every relay whose sources all have a
\* generation is the merge of exactly those, after any interleaving of the worker,
\* timers and restarts with any number of concurrent requests; but for the relays
\* whose guide could not be written, or whose rebuild a request did not derive from
\* its commit (the read-back, or the lookup of the channel's relays, failed or gave
\* rows that others had changed).
THEOREM GuidesAreCurrent == Spec => []RelayCacheCurrent
<1>1. EpgInv => RelayCacheCurrent
  <2> SUFFICES ASSUME EpgInv, Quiet, admitOpen, NEW r \in LiveRelays \ broken, mapping[r] # {},
                      \A s \in mapping[r] : Eligible(s)
               PROVE  cache[slug[r]] = Merged(r)
    BY DEF RelayCacheCurrent
  <2>1. r \in Relays \ broken /\ Exists(slug[r]) /\ mapping[r] \subseteq Sources
    BY DEF LiveRelays, LiveSources, EpgInv, TypeInv, TypeOK
  <2>2. Demanded(r) /\ ~Queued(r) /\ worker.pc = "idle"
    BY <2>1, QuietMeansDone DEF Demanded
  <2>3. GuideOf(r)
    BY <2>1, <2>2, GuideParts DEF EpgInv
  <2> QED BY <2>2, <2>3 DEF GuideOf
<1> QED BY <1>1, EpgInvariance, PTL

\* When everything has settled, no generation of a deleted source or of a former
\* URL is left, but for a purge that a crash took away, or that UpdateEPGSource did
\* not derive: its read-back failed, or the URL was changed between its reads.
THEOREM FormerGenerationsArePurged == Spec => []StaleGenerationPurged
<1>1. EpgInv => StaleGenerationPurged
  BY QuietMeansDone DEF EpgInv, PurgeInv, StaleGenerationPurged
<1> QED BY <1>1, EpgInvariance, PTL

\* When everything has settled, every guide file belongs to a relay, but for the
\* slugs that UpdateRelay could not compare, its read-back having failed (a relay
\* deleted meanwhile is enough), or that were renamed between a request's reads.
THEOREM GuideFilesHaveOwners == Spec => []NoOrphanCache
<1>1. EpgInv => NoOrphanCache
  BY QuietMeansDone DEF EpgInv, FileInv, NoOrphanCache
<1> QED BY <1>1, EpgInvariance, PTL


-----------------------------------------------------------------------------
(***************************************************************************)
(* Requests made one at a time.                                            *)
(***************************************************************************)

\* A request that has its work owes nothing more.
LEMMA ApplyingOwesNothing ==
  ASSUME HandlerInv', NEW h \in Handlers, handler'[h].pc = "applying"
  PROVE  handler'[h].change = NoChange
BY DEF HandlerInv

\* A commit of the only request: what it replaced is what it had read.
LEMMA SeenCommits ==
  ASSUME AllTypes, SeenInv, NEW h \in Handlers, HandlerCommits(h)
  PROVE  LET c == handler'[h].change IN
         /\ c.op = "source" => c.read = c.was /\ url'[c.id] = c.now
         /\ c.op = "relay" => c.read = c.was /\ slug'[c.id] = c.now
         /\ moved'[h] = {}
<1> DEFINE c == handler'[h].change
           G == /\ c.op = "source" => c.read = c.was /\ url'[c.id] = c.now
                /\ c.op = "relay" => c.read = c.was /\ slug'[c.id] = c.now
                /\ moved'[h] = {}
<1>0. /\ HandlerInv /\ DbTypes /\ handler[h].seen.url = url /\ moved[h] = {}
      /\ \A r \in Relays : handler[h].seen.slug[r] \in {None, slug[r]}
  BY CommitEnds DEF AllTypes, SeenInv
<1>a. \A rs : Moves(h, rs) => moved'[h] = {}
  BY <1>0 DEF Moves
<1>b. c = NoChange => c.op \notin {"source", "relay"}
  BY NoChangeFields
<1>1. ASSUME NEW s \in Sources, NEW u \in URLs, NEW on \in BOOLEAN, CreateEPGSource(h, s, u, on)
      PROVE  G
  <2> DEFINE d == [op |-> "created", id |-> s]
  <2>1. CommitFirst(h, d) /\ d \in Changes /\ d.op = "created" /\ UNCHANGED moved
    BY <1>1 DEF CreateEPGSource, Changes
  <2> HIDE DEF d
  <2>2. handler'[h].change = d
    BY <1>0, <1>1, <2>1, CommitFirstMoves DEF CreateEPGSource, Begun
  <2> QED BY <1>0, <2>1, <2>2
<1>2. ASSUME NEW s \in Sources, NEW u \in URLs, NEW on \in BOOLEAN, UpdateEPGSource(h, s, u, on)
      PROVE  G
  <2>1. /\ c.op = "source" /\ c.id = s /\ c.read = handler[h].seen.url[s] /\ c.was = url[s] /\ c.now = u
    BY <1>0, <1>2, CommitSource
  <2>2. url'[s] = u /\ UNCHANGED moved
    BY <1>0, <1>2 DEF UpdateEPGSource, DbTypes
  <2> QED BY <1>0, <2>1, <2>2
<1>3. ASSUME NEW s \in Sources, DeleteEPGSource(h, s) PROVE G
  <2>1. c = NoChange
    BY <1>0, <1>3, CommitDeleted, ApplyingOwesNothing
  <2> QED BY <1>0, <1>3, <1>b, <2>1 DEF DeleteEPGSource
<1>4. ASSUME NEW r \in Relays, NEW sl \in Slugs, UpdateRelay(h, r, sl) PROVE G
  <2>1. /\ c.op = "relay" /\ c.id = r /\ c.read = handler[h].seen.slug[r] /\ c.was = slug[r] /\ c.now = sl
    BY <1>0, <1>4, CommitRelay
  <2>2. slug'[r] = sl /\ UNCHANGED moved /\ handler[h].seen.slug[r] = slug[r]
    BY <1>0, <1>4 DEF UpdateRelay, DbTypes, Exists
  <2> QED BY <1>0, <2>1, <2>2
<1>5. ASSUME NEW r \in Relays, DeleteRelay(h, r) PROVE G
  <2>1. c = NoChange
    BY <1>0, <1>5, CommitNoRelay, ApplyingOwesNothing
  <2> QED BY <1>5, <1>a, <1>b, <2>1 DEF DeleteRelay
<1>6. ASSUME NEW r \in Relays, NEW ss \in SUBSET LiveSources, NEW rebuild \in BOOLEAN,
             ChangeMembership(h, r, ss, rebuild)
      PROVE  G
  <2>1. c = NoChange
    BY <1>0, <1>6, CommitMapping, ApplyingOwesNothing
  <2> QED BY <1>6, <1>a, <1>b, <2>1 DEF ChangeMembership
<1>7. ASSUME NEW rs \in SUBSET LiveRelays, NEW new \in [rs -> SUBSET LiveSources], UpdateChannel(h, rs, new)
      PROVE  G
  <2>1. c.op = "channel"
    BY <1>0, <1>7, CommitChannel
  <2> QED BY <1>7, <1>a, <2>1 DEF UpdateChannel
<1> QED BY <1>1, <1>2, <1>3, <1>4, <1>5, <1>6, <1>7 DEF HandlerCommits

\* Rows do not change under the only request.
LEMMA SeenStep ==
  ASSUME OneRequest, AllTypes, SeenInv, Next
  PROVE  SeenInv'
<1>0. HandlerInv /\ DbTypes
  BY DEF AllTypes
<1>a. \A g, h \in Handlers : g = h
  BY DEF OneRequest
<1>b. \A h \in Handlers : moved[h] = {}
  BY DEF SeenInv
<1>1. ASSUME NEW h \in Handlers, handler'[h].pc # "begun", moved'[h] = {},
             handler'[h].change.op = "source" =>
               handler'[h].change.read = handler'[h].change.was /\
               url'[handler'[h].change.id] = handler'[h].change.now,
             handler'[h].change.op = "relay" =>
               handler'[h].change.read = handler'[h].change.was /\
               slug'[handler'[h].change.id] = handler'[h].change.now
      PROVE  SeenInv'
  BY <1>a, <1>1 DEF SeenInv
<1>2. CASE UNCHANGED <<url, slug, handler, moved>>
  BY <1>2 DEF SeenInv
<1>3. ASSUME NEW h \in Handlers, HandlerCommits(h) PROVE SeenInv'
  <2>1. handler'[h].pc # "begun"
    BY <1>3, CommitEnds
  <2> QED BY <1>1, <1>3, <2>1, SeenCommits
<1>4. ASSUME NEW h \in Handlers, handler'[h].pc # "begun", handler'[h].change = NoChange,
             moved' = moved \/ moved' = [moved EXCEPT ![h] = {}]
      PROVE  SeenInv'
  <2>1. handler'[h].change.op \notin {"source", "relay"}
    BY <1>4, NoChangeFields
  <2>2. moved'[h] = {}
    BY <1>4, <1>b DEF AllTypes, HistoryTypes
  <2> QED BY <1>1, <1>4, <2>1, <2>2
<1>5. ASSUME NEW h \in Handlers, HandlerDerives(h) PROVE SeenInv'
  <2>1. PICK work, excused : Derive(h, work, excused)
    BY <1>5, DeriveDerives
  <2>2. HandlerInv' /\ handler'[h].pc = "applying"
    BY <1>0, <1>5, DeriveHandlers
  <2>3. handler'[h].change = NoChange
    BY <2>2, ApplyingOwesNothing
  <2>4. moved' = [moved EXCEPT ![h] = {}]
    BY <2>1 DEF Derive
  <2> QED BY <1>4, <2>2, <2>3, <2>4
<1>6. ASSUME NEW h \in Handlers, HandlerApplies(h) PROVE SeenInv'
  <2>1. (\E op \in {"invalidate", "delete", "refresh", "due", "rebuild", "cleanup"} : Apply(h, op)) \/ Finish(h)
    BY <1>6 DEF HandlerApplies, ApplyInvalidate, ApplyDelete, ApplyRefresh, ApplyDue, ApplyRebuild, ApplyCleanup
  <2>2. handler'[h].pc # "begun" /\ handler'[h].change = NoChange
    BY <1>0, <2>1, ApplyMoves, FinishMoves DEF IdleHandler
  <2> QED BY <1>4, <1>6, <2>2, ApplyKeeps
<1>7. CASE Other
  <2>1. UNCHANGED <<url, slug, moved>>
    BY <1>7, OtherKeeps DEF dbVars
  <2>2. ASSUME NEW h \in Handlers, NEW admit \in BOOLEAN, Begin(h, admit) PROVE SeenInv'
    <3>1. /\ handler'[h].seen = [url |-> url, enabled |-> enabled, slug |-> slug]
          /\ handler'[h].change = NoChange
      BY <1>0, <2>2, BeginMoves
    <3>2. /\ handler'[h].seen.url = url'
          /\ \A r \in Relays : handler'[h].seen.slug[r] \in {None, slug'[r]}
      BY <2>1, <3>1
    <3>3. handler'[h].change.op \notin {"source", "relay"} /\ moved'[h] = {}
      BY <1>b, <2>1, <3>1, NoChangeFields
    <3> QED BY <1>a, <3>2, <3>3 DEF SeenInv
  <2>3. CASE ~\E h \in Handlers, admit \in BOOLEAN : Begin(h, admit)
    <3>1. UNCHANGED handler
      BY <1>7, <2>3 DEF Other, RefreshRequest, CleanupRetryDue, BackoffOver, IntervalElapses, CloseAdmission,
                        threadVars
    <3> QED BY <1>2, <2>1, <3>1
  <2> QED BY <2>2, <2>3
<1>8. ASSUME NEW r \in Relays, NEW sl \in Slugs, CreateRelay(r, sl) PROVE SeenInv'
  <2>1. UNCHANGED <<url, moved, handler>> /\ slug[r] = None /\ slug' = [slug EXCEPT ![r] = sl]
    BY <1>8 DEF CreateRelay, threadVars
  <2>2. \A q \in Relays : slug[q] \in {None, slug'[q]} /\ (slug[q] # None => slug'[q] = slug[q])
    BY <1>0, <2>1 DEF DbTypes
  <2>3. ASSUME NEW h \in Handlers, handler[h].change.op = "relay"
        PROVE  /\ handler[h].change.read = handler[h].change.was
               /\ slug'[handler[h].change.id] = handler[h].change.now
    <3>1. /\ handler[h].change.read = handler[h].change.was
          /\ slug[handler[h].change.id] = handler[h].change.now
      BY <2>3 DEF SeenInv
    <3>2. handler[h].change.id \in Relays /\ handler[h].change.now \in Slugs
      BY <1>0, <2>3, HandlerFields DEF Changes, NoChange
    <3> QED BY <2>2, <3>1, <3>2, EpgAssumption
  <2>4. \A h \in Handlers : handler[h].pc = "begun" =>
          /\ handler[h].seen.url = url'
          /\ \A q \in Relays : handler[h].seen.slug[q] \in {None, slug'[q]}
    BY <2>1, <2>2 DEF SeenInv
  <2>5. \A h \in Handlers : handler[h].change.op = "source" =>
          /\ handler[h].change.read = handler[h].change.was
          /\ url'[handler[h].change.id] = handler[h].change.now
    BY <2>1 DEF SeenInv
  <2> QED BY <1>b, <2>1, <2>3, <2>4, <2>5 DEF SeenInv
<1>9. CASE WorkerStep
  BY <1>2, <1>9, WorkerKeepsRows
<1>10. CASE Restart
  <2>1. \A g \in Handlers : handler'[g] = IdleHandler /\ moved'[g] = {}
    BY <1>10, RestartMoves DEF Restart
  <2>2. IdleHandler.pc = "idle" /\ IdleHandler.change.op \notin {"source", "relay"}
    BY NoChangeFields DEF IdleHandler
  <2> QED BY <2>1, <2>2 DEF SeenInv
<1> QED BY <1>3, <1>5, <1>6, <1>7, <1>8, <1>9, <1>10, NextKinds

\* The request reads back what it has changed and derives its work.
ReadsBack(h) ==
  \/ DeriveCreated(h)
  \/ \E newInterval \in BOOLEAN : DeriveSourceWork(h, newInterval)
  \/ DeriveRelayWork(h)
  \/ \E ids \in SUBSET LiveRelays : DeriveOwnersWork(h, ids)

LEMMA ReadBackMarks ==
  ASSUME NEW h \in Handlers, ReadsBack(h), ~Outdated(h)
  PROVE  UNCHANGED <<unpurged, broken, leftover>>
<1>1. CASE DeriveCreated(h)
  BY <1>1 DEF DeriveCreated, Derive
<1>2. ASSUME NEW newInterval \in BOOLEAN, DeriveSourceWork(h, newInterval)
      PROVE  UNCHANGED <<unpurged, broken, leftover>>
  BY <1>2 DEF DeriveSourceWork, Committed, Derive, Outdated
<1>3. CASE DeriveRelayWork(h)
  BY <1>3 DEF DeriveRelayWork, Committed, Derive, Outdated
<1>4. ASSUME NEW ids \in SUBSET LiveRelays, DeriveOwnersWork(h, ids)
      PROVE  UNCHANGED <<unpurged, broken, leftover>>
  BY <1>4 DEF DeriveOwnersWork, Committed, Derive, Outdated
<1> QED BY <1>1, <1>2, <1>3, <1>4 DEF ReadsBack

\* The step misses nothing: a purge is lost only to a crash, a guide is not current
\* only after a failed write, and no slug is left behind, unless the step can only be
\* that of a request which cannot read back what it has committed (its client has left).
MissesNothing ==
  (\A h \in Handlers : ReadBackFails(h) => ReadsBack(h)) =>
    /\ ~Restart => unpurged' \subseteq unpurged
    /\ ~WriteFails => broken' \subseteq broken
    /\ leftover' \subseteq leftover

LEMMA OneRequestMissesNothing ==
  ASSUME AllTypes, SeenInv, Next
  PROVE  MissesNothing
<1>0. DbTypes /\ HandlerInv
  BY DEF AllTypes
<1>1. ASSUME NEW h \in Handlers, HandlerCommits(h) PROVE MissesNothing
  <2>0. /\ handler[h].seen.url = url /\ moved[h] = {}
        /\ \A r \in Relays : handler[h].seen.slug[r] \in {None, slug[r]}
    BY <1>1, CommitEnds DEF SeenInv
  <2>1. ASSUME NEW r \in Relays, DeleteRelay(h, r) PROVE leftover' \subseteq leftover /\ broken' = broken
    <3>1. handler[h].seen.slug[r] = slug[r]
      BY <2>0, <2>1 DEF DeleteRelay, Exists
    <3> QED BY <2>1, <3>1 DEF DeleteRelay
  <2>2. ASSUME NEW r \in Relays, NEW ss \in SUBSET LiveSources, NEW rebuild \in BOOLEAN,
               ChangeMembership(h, r, ss, rebuild)
        PROVE  UNCHANGED <<broken, leftover>>
    BY <2>0, <2>2 DEF ChangeMembership
  <2>3. ASSUME NEW s \in Sources, NEW u \in URLs, NEW on \in BOOLEAN,
               CreateEPGSource(h, s, u, on) \/ UpdateEPGSource(h, s, u, on)
        PROVE  UNCHANGED <<broken, leftover>>
    BY <2>3 DEF CreateEPGSource, UpdateEPGSource, CommitFirst
  <2>4. ASSUME NEW s \in Sources, DeleteEPGSource(h, s) PROVE UNCHANGED <<broken, leftover>>
    BY <2>4 DEF DeleteEPGSource
  <2>5. ASSUME NEW r \in Relays, NEW sl \in Slugs, UpdateRelay(h, r, sl) PROVE UNCHANGED <<broken, leftover>>
    BY <2>5 DEF UpdateRelay, CommitFirst
  <2>6. ASSUME NEW rs \in SUBSET LiveRelays, NEW new \in [rs -> SUBSET LiveSources], UpdateChannel(h, rs, new)
        PROVE  UNCHANGED <<broken, leftover>>
    BY <2>6 DEF UpdateChannel, CommitFirst
  <2>7. leftover' \subseteq leftover /\ broken' = broken
    BY <1>1, <2>1, <2>2, <2>3, <2>4, <2>5, <2>6 DEF HandlerCommits
  <2> QED BY <1>1, <2>7, CommitMarks DEF MissesNothing
<1>2. ASSUME NEW h \in Handlers, HandlerDerives(h) PROVE MissesNothing
  <2>1. ~Outdated(h)
    BY DEF Outdated, SeenInv
  <2>2. CASE ReadsBack(h)
    BY <2>1, <2>2, ReadBackMarks DEF MissesNothing
  <2>3. CASE ReadBackFails(h) /\ ~ReadsBack(h)
    BY <2>3 DEF MissesNothing
  <2> QED BY <1>2, <2>2, <2>3 DEF HandlerDerives, ReadsBack
<1>3. ASSUME NEW h \in Handlers, HandlerApplies(h) PROVE MissesNothing
  BY <1>3, ApplyKeeps DEF MissesNothing
<1>4. CASE Other
  BY <1>4, OtherKeeps DEF MissesNothing
<1>5. CASE \E r \in Relays, sl \in Slugs : CreateRelay(r, sl)
  BY <1>5 DEF CreateRelay, MissesNothing
<1>6. CASE Restart
  BY <1>6 DEF Restart, MissesNothing
<1>7. CASE WorkerStep
  <2> USE DEF historyVars, MissesNothing
  <2>1. CASE WorkerWakes \/ TimerFires \/ DrainPhase
    BY <2>1 DEF WorkerWakes, TimerFires, DrainPhase, PhaseOver
  <2>2. CASE \E s \in Sources : DeleteFiles(s) \/ TakeSource(s)
    BY <2>2 DEF DeleteFiles, TakeSource
  <2>3. CASE SourceMissing \/ SourceBackingOff \/ SourceRead \/ FetchFails \/ FetchSource
    BY <2>3 DEF SourceMissing, SourceBackingOff, SourceRead, FetchFails, FetchSource
  <2>4. CASE DiscardStale \/ WriteGeneration \/ WriteSourceFails \/ Recheck \/ PublishManifest \/ MarkRefresh
    BY <2>4 DEF DiscardStale, WriteGeneration, WriteSourceFails, Recheck, PublishManifest, MarkRefresh
  <2>5. CASE \E r \in Relays : TakeRelay(r) \/ TakeCleanup(r)
    BY <2>5 DEF TakeRelay, TakeCleanup
  <2>6. CASE (\E sl \in Slugs : CleanupSlug(sl)) \/ CleanupDone
    BY <2>6 DEF CleanupSlug, CleanupDone
  <2>7. CASE RelayIncomplete \/ RelayMerge \/ WriteRelayCache \/ WriteFails
    BY <2>7 DEF RelayIncomplete, RelayMerge, WriteRelayCache, WriteFails
  <2> QED BY <1>7, <2>1, <2>2, <2>3, <2>4, <2>5, <2>6, <2>7 DEF WorkerStep
<1> QED BY <1>1, <1>2, <1>3, <1>4, <1>5, <1>6, <1>7, NextKinds

\* With requests made one at a time, what reads differ by disappears from the
\* exceptions of the properties above: a source is exempt from purging, a guide from
\* being current and a slug from being cleaned up only when a request that has
\* committed cannot read back what it changed, a purge is lost to a crash, or a guide
\* cannot be written.
THEOREM OneAtATimeMissesNothing ==
  ASSUME OneRequest
  PROVE  Spec => [][MissesNothing]_vars
<1> DEFINE Inv == AllTypes /\ SeenInv
<1>1. Init => Inv
  <2> SUFFICES ASSUME Init PROVE Inv
    OBVIOUS
  <2>1. \A h \in Handlers : handler[h] = IdleHandler /\ moved[h] = {}
    BY DEF Init
  <2>2. IdleHandler.pc = "idle" /\ IdleHandler.change.op \notin {"source", "relay"}
    BY NoChangeFields DEF IdleHandler
  <2>3. SeenInv
    BY <2>1, <2>2 DEF SeenInv
  <2> QED BY <2>3, TypesInit
<1>2. Inv /\ [Next]_vars => Inv' /\ [MissesNothing]_vars
  <2>1. ASSUME Inv, Next PROVE Inv' /\ MissesNothing
    BY <2>1, OneRequestMissesNothing, TypesStep, SeenStep
  <2>2. ASSUME Inv, UNCHANGED vars PROVE Inv'
    <3>1. UNCHANGED <<url, slug, handler, moved>>
      BY <2>2 DEF vars, dbVars, threadVars, historyVars
    <3>2. SeenInv'
      BY <2>2, <3>1 DEF SeenInv
    <3> QED BY <2>2, <3>2, TypesStep
  <2> QED BY <2>1, <2>2
<1> HIDE DEF Inv
<1> QED BY <1>1, <1>2, PTL DEF Spec


=============================================================================
