----------------------------- MODULE EpgWorker -----------------------------
(***************************************************************************)
(* The EPG service (internal/core/epg) and the workflows that feed it      *)
(* (internal/core/workflows).  A workflow commits a change to the database *)
(* and then enqueues derived work; one worker drains the queues: it purges *)
(* and fetches sources, publishes their generations, and rebuilds or       *)
(* removes the XMLTV cache file of each relay.                             *)
(*                                                                         *)
(* Threads: the worker (drain is serialized by drainMu, whoever calls it), *)
(* the handlers of HTTP requests, and time.  Every database statement,     *)
(* section under s.mu and file rename is a step of its own, except where   *)
(* only the worker could tell the difference.                              *)
(*                                                                         *)
(* An XMLTV document is abstracted to where it came from: a generation to  *)
(* its number and URL, a relay's cache to the generations merged in it.    *)
(* The search index (s.indexes) is a cache keyed by generation and URL and *)
(* is left out.                                                            *)
(***************************************************************************)
EXTENDS Integers, Sequences, FiniteSets

CONSTANTS
  Sources, URLs,      \* EPG sources and the URLs they can have
  Relays, Slugs,      \* relays and the slugs they can have
  Handlers,           \* requests in progress
  None,               \* a row not created yet; no file
  Gone,               \* a deleted row: ids are AUTOINCREMENT, never given out again
  MaxRequests         \* bound on requests, shutdowns, restarts and elapsed intervals

ASSUME EpgAssumption ==
  /\ None # Gone
  /\ None \notin URLs \cup Slugs
  /\ Gone \notin URLs \cup Slugs
  /\ MaxRequests \in Nat

VARIABLES
  \* database
  url, enabled,       \* epg_sources: url (None or Gone without a row), enabled (FALSE without one)
  lastRefresh,        \* the sources whose last_refresh_at is set
  slug, mapping,      \* relays: slug, and the sources their channels are mapped to
  \* files
  manifest,           \* the published generation of each source
  cache,              \* the guide file of each slug
  gens,               \* generations published so far
  \* Service fields
  admitOpen, pendingSources, pendingRelays, pendingDeleteSources,
  cleanups, deferred, \* slugs to clean per relay; relays whose RetryAfter is ahead
  sourceRev,
  nextRetry,          \* "none", "waiting" (in the future) or "past"
  wake,
  \* threads
  worker, job, handler,
  \* time and history
  intervalUp,         \* sources whose refresh interval has elapsed since last_refresh_at
  published,          \* sources marked refreshed since they have their present URL
  skipped,            \* sources whose refresh was dropped because of a backoff
  moved,              \* per request, relays whose lineup others changed since its first read
  broken,             \* relays whose guide could not be written, or whose rebuild a request
                      \* did not derive because its read-back failed or the row had changed
  unpurged,           \* sources whose purge a crash took away, or was not derived likewise
  leftover,           \* slugs whose cleanup was not derived likewise
  requests

dbVars      == <<url, enabled, lastRefresh, slug, mapping>>
fileVars    == <<manifest, cache, gens>>
queueVars   == <<pendingSources, pendingRelays, pendingDeleteSources, cleanups, deferred, wake>>
serviceVars == <<admitOpen, queueVars, sourceRev, nextRetry>>
threadVars  == <<worker, job, handler>>
historyVars == <<intervalUp, published, skipped, moved, broken, unpurged, leftover, requests>>
vars == <<dbVars, fileVars, serviceVars, threadVars, historyVars>>

Exists(x) == x \notin {None, Gone}
LiveSources == {s \in Sources : Exists(url[s])}
LiveRelays == {r \in Relays : Exists(slug[r])}
Owners(sl) == {r \in Relays : slug[r] = sl}

NoJob == [id |-> None, rev |-> 0, url |-> None, slug |-> None, doc |-> None,
          slugs |-> {}]
IdleWorker == [pc |-> "idle", worked |-> FALSE]
NoChange == [op |-> "none"]
IdleHandler == [pc |-> "idle", held |-> FALSE, seen |-> None, change |-> NoChange, todo |-> <<>>]

\* New() on a database whose caches are gone (first start with it):
\* reconcileStartup enqueues every relay.
Init ==
  /\ url \in [Sources -> URLs \cup {None}]
  /\ enabled \in [Sources -> BOOLEAN]
  /\ \A s \in Sources : enabled[s] => Exists(url[s])
  /\ lastRefresh = {}
  /\ slug \in [Relays -> Slugs \cup {None}]
  /\ \A q, r \in LiveRelays : slug[q] = slug[r] => q = r
  /\ mapping \in [Relays -> SUBSET LiveSources]
  /\ \A r \in Relays : ~Exists(slug[r]) => mapping[r] = {}
  /\ manifest = [s \in Sources |-> None]
  /\ cache = [sl \in Slugs |-> None]
  /\ gens = 0
  /\ admitOpen = TRUE
  /\ pendingSources = {}
  /\ pendingRelays = LiveRelays
  /\ pendingDeleteSources = {}
  /\ cleanups = [r \in Relays |-> {}]
  /\ deferred = {}
  /\ sourceRev = [s \in Sources |-> 0]
  /\ nextRetry = [s \in Sources |-> "none"]
  /\ wake = (LiveRelays # {})
  /\ worker = IdleWorker
  /\ job = NoJob
  /\ handler = [h \in Handlers |-> IdleHandler]
  /\ intervalUp = {}
  /\ published = {}
  /\ skipped = {}
  /\ moved = [h \in Handlers |-> {}]
  /\ broken = {}
  /\ unpurged = {}
  /\ leftover = {}
  /\ requests = 0

-----------------------------------------------------------------------------
(***************************************************************************)
(* Queues.  Work is refused only when admission is closed and no admitted  *)
(* request is in progress; a relay cleanup is queued even then.            *)
(***************************************************************************)
Accepts == admitOpen \/ \E h \in Handlers : handler[h].held

\* Mutant: the worker is not woken.
EnqueueSourcesSilently(ss) ==
  /\ pendingSources' = IF Accepts THEN pendingSources \cup ss ELSE pendingSources
  /\ UNCHANGED <<wake, pendingRelays, pendingDeleteSources, cleanups, deferred>>

EnqueueSources(ss) ==
  /\ pendingSources' = IF Accepts THEN pendingSources \cup ss ELSE pendingSources
  /\ wake' = (wake \/ (Accepts /\ ss # {}))
  /\ UNCHANGED <<pendingRelays, pendingDeleteSources, cleanups, deferred>>

\* Mutant: the worker is not woken.
EnqueueRebuildSilently(rs) ==
  /\ pendingRelays' = IF Accepts THEN pendingRelays \cup rs ELSE pendingRelays
  /\ UNCHANGED <<wake, pendingSources, pendingDeleteSources, cleanups, deferred>>

EnqueueRebuildRelays(rs) ==
  /\ pendingRelays' = IF Accepts THEN pendingRelays \cup rs ELSE pendingRelays
  /\ wake' = (wake \/ (Accepts /\ rs # {}))
  /\ UNCHANGED <<pendingSources, pendingDeleteSources, cleanups, deferred>>

EnqueueRelayCleanup(r, sl) ==
  /\ cleanups' = [cleanups EXCEPT ![r] = @ \cup {sl}]
  /\ deferred' = deferred \ {r}
  /\ wake' = TRUE
  /\ UNCHANGED <<pendingSources, pendingRelays, pendingDeleteSources>>

EnqueueDeleteSourceFiles(s) ==
  /\ sourceRev' = [sourceRev EXCEPT ![s] = @ + 1]
  /\ pendingDeleteSources' = IF Accepts THEN pendingDeleteSources \cup {s} ELSE pendingDeleteSources
  /\ wake' = (wake \/ Accepts)
  /\ UNCHANGED <<pendingSources, pendingRelays, cleanups, deferred>>

\* The enabled sources EnqueueRefreshDue picks.
DueSources ==
  {s \in LiveSources : enabled[s] /\ (s \notin lastRefresh \/ s \in intervalUp)
                                  /\ nextRetry[s] # "waiting"}

-----------------------------------------------------------------------------
(***************************************************************************)
(* Handlers.  A workflow takes admission, reads the rows it changes        *)
(* ("seen"), commits, reads the row back (or looks for the relays of a     *)
(* channel), derives work by comparing the two reads, and applies it item  *)
(* by item.  All reads are made with the context of the request: when the  *)
(* client has left, or the row is gone, the work is not derived at all.    *)
(*                                                                         *)
(* What the change calls for and the request misses, because the read      *)
(* failed or because another request changed the row between its reads, is *)
(* recorded in broken, unpurged and leftover.                              *)
(***************************************************************************)
NextRequest == requests < MaxRequests /\ requests' = requests + 1

Begin(h, admit) ==
  /\ handler[h] = IdleHandler
  /\ admit => admitOpen
  /\ NextRequest
  /\ handler' = [handler EXCEPT ![h].pc = "begun", ![h].held = admit,
                                ![h].seen = [url |-> url, enabled |-> enabled, slug |-> slug]]
  /\ UNCHANGED <<dbVars, fileVars, serviceVars, worker, job, intervalUp, published, skipped, moved,
                 broken, unpurged, leftover>>

Begun(h, admit) == handler[h].pc = "begun" /\ handler[h].held = admit

\* The change is committed; the work was derived from what was read before.
Commit(h, work) ==
  /\ handler' = [handler EXCEPT ![h].pc = "applying", ![h].seen = None, ![h].todo = work]
  /\ UNCHANGED <<fileVars, serviceVars, worker, job, intervalUp, skipped, requests>>

\* The change is committed; its work is derived from another read.
CommitFirst(h, change) ==
  /\ handler' = [handler EXCEPT ![h].pc = "committed", ![h].seen = None, ![h].change = change]
  /\ UNCHANGED <<fileVars, serviceVars, worker, job, intervalUp, skipped,
                 broken, unpurged, leftover, requests>>

\* The lineups of the relays rs, or the mapping of a channel in them, change under
\* the other requests that have yet to compare what they read, or look for owners.
Moves(h, rs) ==
  moved' = [g \in Handlers |->
              IF handler'[g].pc = "begun" \/ handler'[g].change.op = "channel"
                THEN moved[g] \cup (IF g = h THEN {} ELSE rs) ELSE {}]

CreateEPGSource(h, s, u, on) ==
  /\ Begun(h, TRUE)
  /\ url[s] = None
  /\ url' = [url EXCEPT ![s] = u]
  /\ enabled' = [enabled EXCEPT ![s] = on]
  /\ CommitFirst(h, [op |-> "created", id |-> s])
  /\ UNCHANGED <<lastRefresh, slug, mapping, published, moved>>

\* "read" is the URL read first, "was" the one replaced, "now" the one written.
UpdateEPGSource(h, s, u, on) ==
  LET seen == handler[h].seen IN
  /\ Begun(h, TRUE)
  /\ Exists(seen.url[s])
  /\ Exists(url[s])
  /\ url' = [url EXCEPT ![s] = u]
  /\ enabled' = [enabled EXCEPT ![s] = on]
  /\ published' = IF url[s] = u THEN published ELSE published \ {s}
  /\ CommitFirst(h, [op |-> "source", id |-> s, wasOn |-> seen.enabled[s],
                     read |-> seen.url[s], was |-> url[s], now |-> u])
  /\ UNCHANGED <<lastRefresh, slug, mapping, moved>>

\* Mutant: mapped sources can be deleted.
UnmappedOrNot(s) == TRUE

\* No channel is mapped to the source.
Unmapped(s) == \A r \in Relays : s \notin mapping[r]

DeleteEPGSource(h, s) ==
  /\ Begun(h, TRUE)
  /\ Exists(url[s])
  /\ Unmapped(s)
  /\ url' = [url EXCEPT ![s] = Gone]
  /\ enabled' = [enabled EXCEPT ![s] = FALSE]
  /\ lastRefresh' = lastRefresh \ {s}
  /\ published' = published \ {s}
  /\ Commit(h, <<[op |-> "invalidate", id |-> s], [op |-> "delete", id |-> s]>>)
  /\ UNCHANGED <<slug, mapping, moved, broken, unpurged, leftover>>

UpdateRelay(h, r, sl) ==
  /\ Begun(h, TRUE)
  /\ Exists(handler[h].seen.slug[r])
  /\ Exists(slug[r])
  /\ Owners(sl) \subseteq {r}
  /\ slug' = [slug EXCEPT ![r] = sl]
  /\ CommitFirst(h, [op |-> "relay", id |-> r,
                     read |-> handler[h].seen.slug[r], was |-> slug[r], now |-> sl])
  /\ UNCHANGED <<url, enabled, lastRefresh, mapping, published, moved>>

\* Only the slug read first is cleaned up; another request may have changed it.
DeleteRelay(h, r) ==
  LET old == handler[h].seen.slug[r] IN
  /\ Begun(h, TRUE)
  /\ Exists(old)
  /\ Exists(slug[r])
  /\ slug' = [slug EXCEPT ![r] = Gone]
  /\ mapping' = [mapping EXCEPT ![r] = {}]
  /\ Commit(h, <<[op |-> "cleanup", id |-> r, slug |-> old]>>)
  /\ leftover' = leftover \cup ({slug[r]} \ {old})
  /\ Moves(h, {r})
  /\ UNCHANGED <<url, enabled, lastRefresh, published, broken, unpurged>>

\* AddMembership, UpdateMembership, DeleteMembership: the relay is rebuilt when
\* the membership's mapping is not the one read before; the sources of the relay
\* as a whole may be the same even then.  When another request has changed the
\* membership or its channel in between, the comparison says nothing.
ChangeMembership(h, r, ss, rebuild) ==
  LET missed == mapping[r] # ss /\ ~rebuild IN
  /\ Begun(h, TRUE)
  /\ Exists(slug[r])
  /\ missed => r \in moved[h]
  /\ mapping' = [mapping EXCEPT ![r] = ss]
  /\ Commit(h, IF rebuild THEN <<[op |-> "rebuild", ids |-> {r}]>> ELSE <<>>)
  /\ broken' = IF missed /\ r \in moved[h] THEN broken \cup {r} ELSE broken
  /\ Moves(h, {r})
  /\ UNCHANGED <<url, enabled, lastRefresh, slug, published, unpurged, leftover>>

\* A channel's own mapping changes, and with it that of the relays rs that have the
\* channel (they may map the same sources as before); no admission.
UpdateChannel(h, rs, new) ==
  /\ Begun(h, FALSE)
  /\ mapping' = [r \in Relays |-> IF r \in rs THEN new[r] ELSE mapping[r]]
  /\ CommitFirst(h, [op |-> "channel", changed |-> {r \in rs : new[r] # mapping[r]}])
  /\ Moves(h, rs)
  /\ UNCHANGED <<url, enabled, lastRefresh, slug, published>>

-----------------------------------------------------------------------------
(***************************************************************************)
(* What a committed change calls for, and what the request makes of it.    *)
(***************************************************************************)
CallsForPurge(c, s) == c.op = "source" /\ c.id = s /\ c.was # c.now

CallsForCleanup(c, sl) == c.op = "relay" /\ c.was = sl /\ c.now # sl

CallsForRebuild(c, r) ==
  \/ c.op = "relay" /\ c.id = r /\ c.was # c.now
  \/ c.op = "channel" /\ r \in c.changed

Todo(h) == {handler[h].todo[i] : i \in DOMAIN handler[h].todo}

Purging(s) ==
  \/ s \in pendingDeleteSources
  \/ \E h \in Handlers : [op |-> "delete", id |-> s] \in Todo(h) \/ CallsForPurge(handler[h].change, s)

\* Mutant: a refresh is not passed on to the relays.
ReferencedByNone(s) == {}

RelaysReferencingSource(s) == {r \in Relays : s \in mapping[r]}

\* The request goes on with this work.  If it is excused, what the change calls for
\* and the work leaves out is recorded; a source that is not purged can make the
\* guides of its relays outdated when it gets its former URL back.
Derive(h, work, excused) ==
  LET c == handler[h].change
      does(op) == {w \in {work[i] : i \in DOMAIN work} : w.op = op}
      sources == {s \in Sources : CallsForPurge(c, s) /\ \A w \in does("delete") : w.id # s}
      relays == {r \in Relays : CallsForRebuild(c, r) /\ \A w \in does("rebuild") : r \notin w.ids}
      slugs == {sl \in Slugs : CallsForCleanup(c, sl) /\ \A w \in does("cleanup") : w.slug # sl}
  IN /\ handler' = [handler EXCEPT ![h].pc = "applying", ![h].change = NoChange, ![h].todo = work]
     /\ IF excused
          THEN /\ unpurged' = unpurged \cup sources
               /\ broken' = broken \cup relays \cup UNION {RelaysReferencingSource(s) : s \in sources}
               /\ leftover' = leftover \cup slugs
          ELSE UNCHANGED <<unpurged, broken, leftover>>
     /\ moved' = [moved EXCEPT ![h] = {}]
     /\ UNCHANGED <<dbVars, fileVars, serviceVars, worker, job, intervalUp, published, skipped,
                    requests>>

Committed(h, op) == handler[h].pc = "committed" /\ handler[h].change.op = op

\* The row is gone or the client has left: the workflow returns the error, or
\* logs it, and derives nothing.
ReadBackFails(h) == handler[h].pc = "committed" /\ Derive(h, <<>>, TRUE)

DeriveCreated(h) ==
  LET s == handler[h].change.id IN
  /\ Committed(h, "created")
  /\ Exists(url[s])
  /\ Derive(h, IF enabled[s] THEN <<[op |-> "refresh", id |-> s]>> ELSE <<>>, FALSE)

\* Mutant: the generations of the former URL are not purged.
SourceWorkWithoutPurge(c, newInterval) ==
  LET s == c.id IN
  IF c.read # url[s]
    THEN <<[op |-> "invalidate", id |-> s]>>
         \o (IF enabled[s] THEN <<[op |-> "refresh", id |-> s]>> ELSE <<>>)
    ELSE IF enabled[s] /\ ~c.wasOn THEN <<[op |-> "refresh", id |-> s]>>
    ELSE IF enabled[s] /\ newInterval THEN <<[op |-> "due", id |-> s]>>
    ELSE <<>>

\* What UpdateEPGSource derives from the row it read first and the one read back.
SourceWork(c, newInterval) ==
  LET s == c.id IN
  IF c.read # url[s]
    THEN <<[op |-> "invalidate", id |-> s], [op |-> "delete", id |-> s]>>
         \o (IF enabled[s] THEN <<[op |-> "refresh", id |-> s]>> ELSE <<>>)
    ELSE IF enabled[s] /\ ~c.wasOn THEN <<[op |-> "refresh", id |-> s]>>
    ELSE IF enabled[s] /\ newInterval THEN <<[op |-> "due", id |-> s]>>
    ELSE <<>>

\* Excused when another request changed the URL before the commit or after it.
DeriveSourceWork(h, newInterval) ==
  LET c == handler[h].change IN
  /\ Committed(h, "source")
  /\ Exists(url[c.id])
  /\ Derive(h, SourceWork(c, newInterval), c.read # c.was \/ url[c.id] # c.now)

\* Mutant: the old file is not removed.
RenameWithoutCleanup(r, old, new) ==
  IF old = new THEN <<>> ELSE <<[op |-> "rebuild", ids |-> {r}]>>

RenameWork(r, old, new) ==
  IF old = new THEN <<>>
  ELSE <<[op |-> "rebuild", ids |-> {r}], [op |-> "cleanup", id |-> r, slug |-> old]>>

\* Excused when another request renamed the relay before the commit or after it.
DeriveRelayWork(h) ==
  LET c == handler[h].change IN
  /\ Committed(h, "relay")
  /\ Exists(slug[c.id])
  /\ Derive(h, RenameWork(c.id, c.read, slug[c.id]), c.read # c.was \/ slug[c.id] # c.now)

\* ChannelRelayIDs after the channel was read back: the relays that have the channel
\* now.  A relay can be missed only if another request changed its lineup, or the
\* channel once more, since this one's first read.
DeriveOwnersWork(h, ids) ==
  LET c == handler[h].change IN
  /\ Committed(h, "channel")
  /\ c.changed \ moved[h] \subseteq ids
  /\ Derive(h, <<[op |-> "rebuild", ids |-> ids]>>, c.changed \cap moved[h] # {})

Apply(h, op) ==
  /\ handler[h].todo # <<>>
  /\ Head(handler[h].todo).op = op
  /\ handler' = [handler EXCEPT ![h].todo = Tail(@)]
  /\ UNCHANGED <<dbVars, fileVars, admitOpen, nextRetry, worker, job, historyVars>>

Item(h) == Head(handler[h].todo)

ApplyInvalidate(h) ==
  /\ Apply(h, "invalidate")
  /\ sourceRev' = [sourceRev EXCEPT ![Item(h).id] = @ + 1]
  /\ UNCHANGED queueVars

ApplyDelete(h) == Apply(h, "delete") /\ EnqueueDeleteSourceFiles(Item(h).id)

ApplyRefresh(h) ==
  Apply(h, "refresh") /\ EnqueueSources({Item(h).id}) /\ UNCHANGED sourceRev

\* The sources are listed with the request's context: nothing when the client left.
ApplyDue(h) ==
  /\ Apply(h, "due")
  /\ EnqueueSources(DueSources) \/ UNCHANGED queueVars
  /\ UNCHANGED sourceRev

ApplyRebuild(h) ==
  Apply(h, "rebuild") /\ EnqueueRebuildRelays(Item(h).ids) /\ UNCHANGED sourceRev

ApplyCleanup(h) ==
  Apply(h, "cleanup") /\ EnqueueRelayCleanup(Item(h).id, Item(h).slug) /\ UNCHANGED sourceRev

\* The request ends (also without having changed anything) and releases admission.
Finish(h) ==
  /\ handler[h].pc \in {"begun", "applying"}
  /\ handler[h].todo = <<>>
  /\ handler' = [handler EXCEPT ![h] = IdleHandler]
  /\ moved' = [moved EXCEPT ![h] = {}]
  /\ UNCHANGED <<dbVars, fileVars, serviceVars, worker, job, intervalUp, published, skipped,
                 broken, unpurged, leftover, requests>>

\* handleCreateRelay writes the row and derives nothing.
CreateRelay(r, sl) ==
  /\ NextRequest
  /\ slug[r] = None
  /\ Owners(sl) = {}
  /\ slug' = [slug EXCEPT ![r] = sl]
  /\ UNCHANGED <<url, enabled, lastRefresh, mapping, fileVars, serviceVars, threadVars,
                 intervalUp, published, skipped, moved, broken, unpurged, leftover>>

\* handleRefreshEPGSource: any source; handleRefreshEPG: the enabled ones.
RefreshRequest(ss) ==
  /\ NextRequest
  /\ ss # {}
  /\ EnqueueSources(ss)
  /\ UNCHANGED <<dbVars, fileVars, admitOpen, sourceRev, nextRetry, threadVars,
                 intervalUp, published, skipped, moved, broken, unpurged, leftover>>

-----------------------------------------------------------------------------
(***************************************************************************)
(* The worker: loop and drain.  One pass goes through the four queues in   *)
(* order; drain ends after a pass that found nothing.                      *)
(***************************************************************************)
At(pc) == worker.pc = pc

\* The step done, the worker is at pc.
Goto(pc) == worker' = [worker EXCEPT !.pc = pc]

Took(pc) == worker' = [pc |-> pc, worked |-> TRUE]

WorkerWakes ==
  /\ At("idle")
  /\ wake
  /\ wake' = FALSE
  /\ Goto("delete")
  /\ UNCHANGED <<dbVars, fileVars, admitOpen, pendingSources, pendingRelays, pendingDeleteSources,
                 cleanups, deferred, sourceRev, nextRetry, job, handler, historyVars>>

ReadyCleanups == {r \in Relays : cleanups[r] # {} /\ r \notin deferred}

\* What nextDelay waits for, per enabled source: the retry of one that was never
\* refreshed or is overdue, else the end of the refresh interval.
Alarm(s) ==
  IF nextRetry[s] # "none" /\ (s \notin lastRefresh \/ s \in intervalUp)
    THEN nextRetry[s] = "past"
    ELSE s \in intervalUp

TimerFires ==
  /\ At("idle")
  /\ ReadyCleanups # {} \/ \E s \in LiveSources : enabled[s] /\ Alarm(s)
  /\ EnqueueSources(DueSources)
  /\ Goto("delete")
  /\ UNCHANGED <<dbVars, fileVars, admitOpen, sourceRev, nextRetry, job, handler, historyVars>>

\* A phase finds its queue empty.
PhaseOver(pc, queue, next) ==
  /\ At(pc)
  /\ queue = {}
  /\ worker' = next
  /\ UNCHANGED <<dbVars, fileVars, serviceVars, job, handler, historyVars>>

DrainPhase ==
  \/ PhaseOver("delete", pendingDeleteSources, [worker EXCEPT !.pc = "source"])
  \/ PhaseOver("source", pendingSources, [worker EXCEPT !.pc = "relay"])
  \/ PhaseOver("relay", pendingRelays, [worker EXCEPT !.pc = "cleanup"])
  \/ PhaseOver("cleanup", ReadyCleanups,
               [pc |-> IF worker.worked THEN "delete" ELSE "idle", worked |-> FALSE])

\* takePending("deleteSource") and deleteSourceFiles.
DeleteFiles(s) ==
  /\ At("delete")
  /\ s \in pendingDeleteSources
  /\ pendingDeleteSources' = pendingDeleteSources \ {s}
  /\ manifest' = [manifest EXCEPT ![s] = None]
  /\ Took("delete")
  /\ unpurged' = unpurged \ {s}
  /\ UNCHANGED <<dbVars, cache, gens, admitOpen, pendingSources, pendingRelays, cleanups, deferred,
                 wake, sourceRev, nextRetry, job, handler, intervalUp, published, skipped, moved, broken,
                 leftover, requests>>

(***************************************************************************)
(* processSource                                                           *)
(***************************************************************************)
TakeSource(s) ==
  /\ At("source")
  /\ s \in pendingSources
  /\ pendingSources' = pendingSources \ {s}
  /\ job' = [NoJob EXCEPT !.id = s, !.rev = sourceRev[s]]
  /\ Took("readSource")
  /\ UNCHANGED <<dbVars, fileVars, admitOpen, pendingRelays, pendingDeleteSources, cleanups, deferred,
                 wake, sourceRev, nextRetry, handler, historyVars>>

\* processSource returns.
SourceDone == Goto("source") /\ job' = NoJob

SourceMissing ==
  /\ At("readSource")
  /\ ~Exists(url[job.id])
  /\ manifest' = [manifest EXCEPT ![job.id] = None]
  /\ SourceDone
  /\ skipped' = skipped \ {job.id}
  /\ UNCHANGED <<dbVars, cache, gens, serviceVars, handler, intervalUp, published, moved,
                 broken, unpurged, leftover, requests>>

SourceBackingOff ==
  /\ At("readSource")
  /\ Exists(url[job.id])
  /\ nextRetry[job.id] = "waiting"
  /\ SourceDone
  /\ skipped' = skipped \cup {job.id}
  /\ UNCHANGED <<dbVars, fileVars, serviceVars, handler, intervalUp, published, moved,
                 broken, unpurged, leftover, requests>>

SourceRead ==
  /\ At("readSource")
  /\ Exists(url[job.id])
  /\ nextRetry[job.id] # "waiting"
  /\ job' = [job EXCEPT !.url = url[job.id]]
  /\ Goto("fetch")
  /\ skipped' = skipped \ {job.id}
  /\ UNCHANGED <<dbVars, fileVars, serviceVars, handler, intervalUp, published, moved,
                 broken, unpurged, leftover, requests>>

FetchFails ==
  /\ At("fetch")
  /\ nextRetry' = [nextRetry EXCEPT ![job.id] = "waiting"]
  /\ SourceDone
  /\ UNCHANGED <<dbVars, fileVars, admitOpen, queueVars, sourceRev, handler, historyVars>>

\* The document is fetched from job.url.
FetchSource ==
  /\ At("fetch")
  /\ Goto("check")
  /\ UNCHANGED <<dbVars, fileVars, serviceVars, job, handler, historyVars>>

Current == sourceRev[job.id] = job.rev /\ url[job.id] = job.url

\* The source changed or is gone: the work is dropped, at either check.
DiscardStale ==
  /\ worker.pc \in {"check", "recheck"}
  /\ ~Current
  /\ SourceDone
  /\ UNCHANGED <<dbVars, fileVars, serviceVars, handler, historyVars>>

\* writeSourceGenerationFiles: the files exist, nothing refers to them.
WriteGeneration ==
  /\ At("check")
  /\ Current
  /\ Goto("recheck")
  /\ UNCHANGED <<dbVars, fileVars, serviceVars, job, handler, historyVars>>

\* The generation's files or its manifest cannot be written: no backoff.
WriteSourceFails ==
  /\ worker.pc \in {"check", "publish"}
  /\ At("check") => Current
  /\ SourceDone
  /\ UNCHANGED <<dbVars, fileVars, serviceVars, handler, historyVars>>

Recheck ==
  /\ At("recheck")
  /\ Current
  /\ Goto("publish")
  /\ UNCHANGED <<dbVars, fileVars, serviceVars, job, handler, historyVars>>

\* writeSourceManifest and the index; the backoff is cleared.
PublishManifest ==
  /\ At("publish")
  /\ gens' = gens + 1
  /\ manifest' = [manifest EXCEPT ![job.id] = [gen |-> gens + 1, url |-> job.url]]
  /\ nextRetry' = [nextRetry EXCEPT ![job.id] = "none"]
  /\ Goto("mark")
  /\ unpurged' = IF url[job.id] = job.url THEN unpurged \ {job.id} ELSE unpurged
  /\ UNCHANGED <<dbVars, cache, admitOpen, queueVars, sourceRev, job, handler, intervalUp, published,
                 skipped, moved, broken, leftover, requests>>

\* MarkEPGSourceRefresh (no row, no effect), then the relays that use the source.
MarkRefresh ==
  LET s == job.id IN
  /\ At("mark")
  /\ lastRefresh' = IF Exists(url[s]) THEN lastRefresh \cup {s} ELSE lastRefresh
  /\ published' = IF url[s] = job.url THEN published \cup {s} ELSE published
  /\ intervalUp' = intervalUp \ {s}
  /\ EnqueueRebuildRelays(RelaysReferencingSource(s))
  /\ SourceDone
  /\ UNCHANGED <<url, enabled, slug, mapping, fileVars, admitOpen, sourceRev, nextRetry, handler,
                 skipped, moved, broken, unpurged, leftover, requests>>

(***************************************************************************)
(* processRelay                                                            *)
(***************************************************************************)
TakeRelay(r) ==
  /\ At("relay")
  /\ r \in pendingRelays
  /\ pendingRelays' = pendingRelays \ {r}
  /\ IF Exists(slug[r])
       THEN Took("merge") /\ job' = [NoJob EXCEPT !.id = r, !.slug = slug[r]]
       ELSE Took("relay") /\ UNCHANGED job
  /\ broken' = broken \ {r}
  /\ UNCHANGED <<dbVars, fileVars, admitOpen, pendingSources, pendingDeleteSources, cleanups, deferred,
                 wake, sourceRev, nextRetry, handler, intervalUp, published, skipped, moved,
                 unpurged, leftover, requests>>

\* eligibleSource: a published generation of the source's present URL.
Eligible(s) == Exists(url[s]) /\ manifest[s] # None /\ manifest[s].url = url[s]

Merged(r) == [relay |-> r, gens |-> [s \in mapping[r] |-> manifest[s].gen]]

RelayDone == Goto("relay") /\ job' = NoJob

\* A mapped source has no usable generation: the old file stays.
RelayIncomplete ==
  /\ At("merge")
  /\ \E s \in mapping[job.id] : ~Eligible(s)
  /\ RelayDone
  /\ UNCHANGED <<dbVars, fileVars, serviceVars, handler, historyVars>>

RelayMerge ==
  /\ At("merge")
  /\ \A s \in mapping[job.id] : Eligible(s)
  /\ job' = [job EXCEPT !.doc = Merged(job.id)]
  /\ Goto("write")
  /\ UNCHANGED <<dbVars, fileVars, serviceVars, handler, historyVars>>

WriteRelayCache ==
  /\ At("write")
  /\ cache' = [cache EXCEPT ![job.slug] = job.doc]
  /\ RelayDone
  /\ UNCHANGED <<dbVars, manifest, gens, serviceVars, handler, historyVars>>

\* The file cannot be written; nothing retries it.
WriteFails ==
  /\ At("write")
  /\ broken' = broken \cup {job.id}
  /\ RelayDone
  /\ UNCHANGED <<dbVars, fileVars, serviceVars, handler, intervalUp, published, skipped, moved,
                 unpurged, leftover, requests>>

(***************************************************************************)
(* processCleanup                                                          *)
(***************************************************************************)

\* takeCleanupReady, and GetRelay: the slug the relay has now, if it exists.
TakeCleanup(r) ==
  /\ At("cleanup")
  /\ r \in ReadyCleanups
  /\ cleanups' = [cleanups EXCEPT ![r] = {}]
  /\ job' = [NoJob EXCEPT !.id = r, !.slug = slug[r], !.slugs = cleanups[r]]
  /\ Took("sweep")
  /\ UNCHANGED <<dbVars, fileVars, admitOpen, pendingSources, pendingRelays, pendingDeleteSources,
                 deferred, wake, sourceRev, nextRetry, handler, historyVars>>

\* The file of slug sl is obsolete; it goes once the relay's own file is there.
Obsolete(sl) == Owners(sl) = {} /\ job.slug # sl

NewCacheReady == Exists(job.slug) => cache[job.slug] # None

\* One slug of the cleanup is done with: its file is removed or has an owner.
CleanupSlug(sl) ==
  /\ At("sweep")
  /\ sl \in job.slugs
  /\ Obsolete(sl) => NewCacheReady
  /\ cache' = IF Obsolete(sl) THEN [cache EXCEPT ![sl] = None] ELSE cache
  /\ job' = [job EXCEPT !.slugs = @ \ {sl}]
  /\ leftover' = IF Obsolete(sl) THEN leftover \ {sl} ELSE leftover
  /\ UNCHANGED <<dbVars, manifest, gens, serviceVars, worker, handler, intervalUp, published, skipped,
                 moved, broken, unpurged, requests>>

\* deferCleanup: what is left must wait for the new file (or a lookup or the
\* removal failed) and is tried again later, with whatever was queued since.
CleanupDone ==
  LET r == job.id IN
  /\ At("sweep")
  /\ cleanups' = [cleanups EXCEPT ![r] = @ \cup job.slugs]
  /\ deferred' = IF job.slugs = {} THEN deferred ELSE deferred \cup {r}
  /\ Goto("cleanup")
  /\ job' = NoJob
  /\ UNCHANGED <<dbVars, fileVars, admitOpen, pendingSources, pendingRelays, pendingDeleteSources,
                 wake, sourceRev, nextRetry, handler, historyVars>>

-----------------------------------------------------------------------------
(***************************************************************************)
(* Time, shutdown and restart                                              *)
(***************************************************************************)
CleanupRetryDue(r) ==
  /\ r \in deferred
  /\ deferred' = deferred \ {r}
  /\ UNCHANGED <<dbVars, fileVars, admitOpen, pendingSources, pendingRelays, pendingDeleteSources,
                 cleanups, wake, sourceRev, nextRetry, threadVars, historyVars>>

BackoffOver(s) ==
  /\ nextRetry[s] = "waiting"
  /\ nextRetry' = [nextRetry EXCEPT ![s] = "past"]
  /\ UNCHANGED <<dbVars, fileVars, admitOpen, queueVars, sourceRev, threadVars, historyVars>>

IntervalElapses(s) ==
  /\ NextRequest
  /\ s \in LiveSources \ intervalUp
  /\ intervalUp' = intervalUp \cup {s}
  /\ UNCHANGED <<dbVars, fileVars, serviceVars, threadVars, published, skipped, moved, broken,
                 unpurged, leftover>>

CloseAdmission ==
  /\ NextRequest
  /\ admitOpen
  /\ admitOpen' = FALSE
  /\ UNCHANGED <<dbVars, fileVars, queueVars, sourceRev, nextRetry, threadVars, intervalUp, published,
                 skipped, moved, broken, unpurged, leftover>>

\* The process ends, in the middle of anything, and New() runs again:
\* reconcileStartup enqueues every relay and sweeps files nobody owns.
Restart ==
  /\ NextRequest
  /\ manifest' = [s \in Sources |-> IF Exists(url[s]) THEN manifest[s] ELSE None]
  /\ cache' = [sl \in Slugs |-> IF Owners(sl) = {} THEN None ELSE cache[sl]]
  /\ admitOpen' = TRUE
  /\ pendingSources' = {}
  /\ pendingRelays' = LiveRelays
  /\ pendingDeleteSources' = {}
  /\ cleanups' = [r \in Relays |-> {}]
  /\ deferred' = {}
  /\ sourceRev' = [s \in Sources |-> 0]
  /\ nextRetry' = [s \in Sources |-> "none"]
  /\ wake' = (LiveRelays # {})
  /\ worker' = IdleWorker
  /\ job' = NoJob
  /\ handler' = [h \in Handlers |-> IdleHandler]
  /\ skipped' = {}
  /\ moved' = [h \in Handlers |-> {}]
  /\ unpurged' = unpurged \cup {s \in Sources : Purging(s)}
  /\ leftover' = {}
  /\ UNCHANGED <<dbVars, gens, intervalUp, published, broken>>

-----------------------------------------------------------------------------
HandlerCommits(h) ==
  \/ \E s \in Sources, u \in URLs, on \in BOOLEAN :
       CreateEPGSource(h, s, u, on) \/ UpdateEPGSource(h, s, u, on)
  \/ \E s \in Sources : DeleteEPGSource(h, s)
  \/ \E r \in Relays, sl \in Slugs : UpdateRelay(h, r, sl)
  \/ \E r \in Relays : DeleteRelay(h, r)
  \/ \E r \in Relays, ss \in SUBSET LiveSources, rebuild \in BOOLEAN :
       ChangeMembership(h, r, ss, rebuild)
  \/ \E rs \in SUBSET LiveRelays : \E new \in [rs -> SUBSET LiveSources] : UpdateChannel(h, rs, new)

HandlerDerives(h) ==
  \/ DeriveCreated(h)
  \/ \E newInterval \in BOOLEAN : DeriveSourceWork(h, newInterval)
  \/ DeriveRelayWork(h)
  \/ \E ids \in SUBSET LiveRelays : DeriveOwnersWork(h, ids)
  \/ ReadBackFails(h)

HandlerApplies(h) ==
  \/ ApplyInvalidate(h) \/ ApplyDelete(h) \/ ApplyRefresh(h) \/ ApplyDue(h)
  \/ ApplyRebuild(h) \/ ApplyCleanup(h) \/ Finish(h)

WorkerStep ==
  \/ WorkerWakes \/ TimerFires \/ DrainPhase
  \/ \E s \in Sources : DeleteFiles(s) \/ TakeSource(s)
  \/ SourceMissing \/ SourceBackingOff \/ SourceRead \/ FetchFails \/ FetchSource
  \/ DiscardStale \/ WriteGeneration \/ WriteSourceFails \/ Recheck \/ PublishManifest \/ MarkRefresh
  \/ \E r \in Relays : TakeRelay(r) \/ TakeCleanup(r)
  \/ \E sl \in Slugs : CleanupSlug(sl)
  \/ CleanupDone
  \/ RelayIncomplete \/ RelayMerge \/ WriteRelayCache \/ WriteFails

Next ==
  \/ \E h \in Handlers, admit \in BOOLEAN : Begin(h, admit)
  \/ \E h \in Handlers : HandlerCommits(h) \/ HandlerDerives(h) \/ HandlerApplies(h)
  \/ \E r \in Relays, sl \in Slugs : CreateRelay(r, sl)
  \/ \E s \in LiveSources : RefreshRequest({s})
  \/ RefreshRequest({s \in LiveSources : enabled[s]})
  \/ WorkerStep
  \/ \E r \in Relays : CleanupRetryDue(r)
  \/ \E s \in Sources : BackoffOver(s) \/ IntervalElapses(s)
  \/ CloseAdmission
  \/ Restart

Spec == Init /\ [][Next]_vars

(***************************************************************************)
(* Fairness: the worker and a request in progress go on (fetches have a    *)
(* timeout), backoffs and cleanup delays, of seconds to minutes, pass.     *)
(* A cleanup deferred in a cleanup phase is not due again in that phase:   *)
(* the delay (a second) is longer than a round of cleanups.  Only the      *)
(* liveness property rests on this; Spec lets a retry be due at any time.  *)
(* Nothing is assumed of requests to come, of restarts, or of the refresh  *)
(* interval, which may be as long as the operator likes.                   *)
(***************************************************************************)
RetryOutlastsRound == worker.pc \in {"cleanup", "sweep"} => \A r \in Relays : ~CleanupRetryDue(r)

FairSpec ==
  /\ Init /\ [][Next /\ RetryOutlastsRound]_vars
  /\ WF_vars(WorkerStep)
  /\ \A h \in Handlers : WF_vars(HandlerDerives(h) \/ HandlerApplies(h))
  /\ \A s \in Sources : WF_vars(BackoffOver(s))
  /\ \A r \in Relays : WF_vars(CleanupRetryDue(r) /\ RetryOutlastsRound)

-----------------------------------------------------------------------------
(***************************************************************************)
(* Properties                                                              *)
(***************************************************************************)
Docs == {None} \cup [relay : Relays, gens : UNION {[ss -> 1..gens] : ss \in SUBSET Sources}]

TypeOK ==
  /\ url \in [Sources -> URLs \cup {None, Gone}]
  /\ enabled \in [Sources -> BOOLEAN]
  /\ slug \in [Relays -> Slugs \cup {None, Gone}]
  /\ mapping \in [Relays -> SUBSET LiveSources]
  /\ lastRefresh \cup published \cup intervalUp \cup skipped \subseteq Sources
  /\ gens \in Nat
  /\ manifest \in [Sources -> {None} \cup [gen : 1..gens, url : URLs]]
  /\ cache \in [Slugs -> Docs]
  /\ pendingSources \cup pendingDeleteSources \subseteq Sources
  /\ pendingRelays \cup deferred \cup broken \subseteq Relays
  /\ unpurged \subseteq Sources /\ leftover \subseteq Slugs
  /\ moved \in [Handlers -> SUBSET Relays]
  /\ cleanups \in [Relays -> SUBSET Slugs]
  /\ sourceRev \in [Sources -> Nat]
  /\ nextRetry \in [Sources -> {"none", "waiting", "past"}]
  /\ wake \in BOOLEAN
  /\ admitOpen \in BOOLEAN
  /\ job.doc \in Docs

\* No work is left to do anywhere.
Quiet ==
  /\ worker.pc = "idle"
  /\ \A h \in Handlers : handler[h] = IdleHandler
  /\ pendingSources \cup pendingRelays \cup pendingDeleteSources = {}
  /\ \A r \in Relays : cleanups[r] = {}

\* When everything has settled, the guide of a relay that maps channels is the
\* merge of the newest generations of exactly the sources it maps, however the
\* renames, mapping changes, refreshes and restarts interleaved with the worker.
\* (Not while admission is closed: the rebuilds that follow a refresh are
\* refused then, and made up for at the next start.  And not for a relay in broken:
\* its guide could not be written, or a request left its rebuild out, because its
\* read-back after the commit failed or the rows were changed between its reads.)
RelayCacheCurrent ==
  Quiet /\ admitOpen =>
    \A r \in LiveRelays \ broken :
      mapping[r] # {} /\ (\A s \in mapping[r] : Eligible(s)) => cache[slug[r]] = Merged(r)

\* When everything has settled, every guide file on disk belongs to a relay, but for
\* a slug in leftover: the relay that had it was renamed or deleted by a request that
\* read it with another slug, or that could not read it back after the commit.
NoOrphanCache == Quiet => \A sl \in Slugs \ leftover : cache[sl] # None => Owners(sl) # {}

\* "Relays ... each generating its own M3U/EPG/stream URLs": when everything has
\* settled, the guide file under a relay's slug, if there is one, was built for it.
GuideIsOwn ==
  Quiet => \A r \in LiveRelays : cache[slug[r]] # None => cache[slug[r]].relay = r

\* When everything has settled, no generation of a deleted source or of a
\* source's former URL is left: a refresh that races the change of the URL never
\* publishes the old one for good.  (A purge is not made up for when a crash took
\* it away, or when a request left it out because its read-back after the commit
\* failed or the URL was changed between its reads: such a generation, of a source
\* in unpurged, stays on disk until the next purge or publication.)
StaleGenerationPurged ==
  Quiet => \A s \in Sources \ unpurged : manifest[s] # None => Eligible(s)

\* An idle worker has a wake-up pending whenever there is work queued, although
\* the wake channel holds one token and enqueueing never blocks.
NoLostWakeup ==
  worker.pc = "idle" /\ pendingSources \cup pendingRelays \cup pendingDeleteSources # {} => wake

\* "MarkEPGSourceRefresh records a successful EPG refresh publication": when
\* everything has settled, a source marked refreshed for its present URL has a
\* published generation of it.
RefreshedIsPublished == Quiet => \A s \in published : Eligible(s)

\* "Leave it out of pendingSources; nextDelay will wake when retry is due": once
\* the backoff that made the worker drop the refresh of an enabled source is over,
\* the timer of the idle worker is due.
RetryWakesWorker ==
  \A s \in skipped \cap LiveSources :
    worker.pc = "idle" /\ enabled[s] /\ nextRetry[s] = "past" => Alarm(s)

\* Whatever is queued is processed: no enqueued refresh, rebuild or deletion
\* waits for ever.
QueuesDrain ==
  /\ \A s \in Sources : s \in pendingSources ~> s \notin pendingSources
  /\ \A s \in Sources : s \in pendingDeleteSources ~> s \notin pendingDeleteSources
  /\ \A r \in Relays : r \in pendingRelays ~> r \notin pendingRelays

-----------------------------------------------------------------------------
(***************************************************************************)
(* The inductive invariant behind NoLostWakeup: what is queued for a phase *)
(* that a pass without work has already left has a wake-up pending.        *)
(***************************************************************************)
WorkerPC == {"idle", "delete", "source", "readSource", "fetch", "check", "recheck", "publish",
             "mark", "relay", "merge", "write", "cleanup", "sweep"}

Unserved ==
  (IF worker.pc = "delete" THEN {} ELSE pendingDeleteSources) \cup
  (IF worker.pc \in {"delete", "source"} THEN {} ELSE pendingSources) \cup
  (IF worker.pc \in {"delete", "source", "relay"} THEN {} ELSE pendingRelays)

WakeInv ==
  /\ wake \in BOOLEAN
  /\ worker \in [pc : WorkerPC, worked : BOOLEAN]
  /\ worker.pc \notin {"delete", "source", "relay", "cleanup", "idle"} => worker.worked
  /\ worker.pc = "idle" => ~worker.worked
  /\ ~worker.worked /\ Unserved # {} => wake


(***************************************************************************)
(* The types that TypeOK leaves out, and what the database guarantees.     *)
(***************************************************************************)
Rows == [url : [Sources -> URLs \cup {None, Gone}], enabled : [Sources -> BOOLEAN],
         slug : [Relays -> Slugs \cup {None, Gone}]]

Changes ==
  {NoChange} \cup [op : {"created"}, id : Sources] \cup
  [op : {"source"}, id : Sources, wasOn : BOOLEAN, read : URLs, was : URLs, now : URLs] \cup
  [op : {"relay"}, id : Relays, read : Slugs, was : Slugs, now : Slugs] \cup
  [op : {"channel"}, changed : SUBSET Relays]

Work ==
  [op : {"invalidate", "delete", "refresh", "due"}, id : Sources] \cup
  [op : {"rebuild"}, ids : SUBSET Relays] \cup
  [op : {"cleanup"}, id : Relays, slug : Slugs]

HandlerInv ==
  /\ handler \in [Handlers -> [pc : {"idle", "begun", "committed", "applying"}, held : BOOLEAN,
                               seen : {None} \cup Rows, change : Changes, todo : Seq(Work)]]
  /\ \A h \in Handlers :
       /\ handler[h].pc = "begun" => handler[h].seen \in Rows
       /\ handler[h].pc # "committed" => handler[h].change = NoChange
       /\ handler[h].pc # "applying" => handler[h].todo = <<>>
       /\ handler[h].change.op = "source" => handler[h].held
       /\ \A w \in Todo(h) : w.op = "delete" => handler[h].held

FetchPC == {"fetch", "check", "recheck", "publish", "mark"}

JobInv ==
  /\ job \in [id : Sources \cup Relays \cup {None}, rev : Nat, url : URLs \cup {None},
              slug : Slugs \cup {None, Gone}, doc : Docs, slugs : SUBSET Slugs]
  /\ worker.pc \in FetchPC \cup {"readSource"} => job.id \in Sources
  /\ worker.pc \in FetchPC => job.url \in URLs
  /\ worker.pc \in {"merge", "write"} => job.id \in Relays /\ job.slug \in Slugs
  /\ worker.pc = "sweep" => job.id \in Relays

DbInv ==
  /\ \A q, r \in LiveRelays : slug[q] = slug[r] => q = r
  /\ \A r \in Relays : ~Exists(slug[r]) => mapping[r] = {}

TypeInv == TypeOK /\ HandlerInv /\ JobInv /\ DbInv

(***************************************************************************)
(* What is under way: whatever is not as it should be is queued, or        *)
(* derived by a request, or in the hands of the worker, or was missed.     *)
(***************************************************************************)
Queued(r) ==
  \/ r \in pendingRelays
  \/ \E h \in Handlers : \/ \E w \in Todo(h) : w.op = "rebuild" /\ r \in w.ids
                         \/ CallsForRebuild(handler[h].change, r)

Sweeping(sl) ==
  \/ \E r \in Relays : sl \in cleanups[r]
  \/ \E h \in Handlers : \/ \E w \in Todo(h) : w.op = "cleanup" /\ w.slug = sl
                         \/ CallsForCleanup(handler[h].change, sl)

PurgeInv ==
  /\ \A s \in Sources \ unpurged : manifest[s] # None => Eligible(s) \/ Purging(s)
  /\ worker.pc = "publish" => url[job.id] = job.url \/ Purging(job.id) \/ job.id \in unpurged

FileInv ==
  /\ \A sl \in Slugs \ leftover : cache[sl] # None =>
       Owners(sl) # {} \/ Sweeping(sl) \/ (worker.pc = "sweep" /\ sl \in job.slugs)
  /\ worker.pc \in {"merge", "write", "sweep"} /\ job.slug \in Slugs \ leftover =>
       Owners(job.slug) # {} \/ Sweeping(job.slug)
  /\ worker.pc \in {"merge", "write"} => slug[job.id] # None

\* The guide of the relay can be built, and nothing is about to change that.
Demanded(r) ==
  Exists(slug[r]) /\ mapping[r] # {} /\ \A s \in mapping[r] : Eligible(s) /\ ~Purging(s)

GuideInv == admitOpen => \A r \in Relays \ broken : ~Queued(r) =>
  /\ Demanded(r) =>
       \/ cache[slug[r]] = Merged(r)
       \/ worker.pc = "mark" /\ job.id \in mapping[r]
       \/ worker.pc \in {"merge", "write"} /\ job.id = r
  /\ worker.pc = "merge" /\ job.id = r /\ Exists(slug[r]) => job.slug = slug[r]
  /\ worker.pc = "write" /\ job.id = r /\ Demanded(r) => job.slug = slug[r] /\ job.doc = Merged(r)
  /\ worker.pc \in {"merge", "write"} /\ job.slug = slug[r] /\ mapping[r] # {} => job.id = r

EpgInv == TypeInv /\ PurgeInv /\ FileInv /\ GuideInv

(***************************************************************************)
(* When requests are made one at a time, none of them misses anything: the *)
(* rows one has read are the present ones, but for new relays.             *)
(***************************************************************************)
OneRequest == \A g, h \in Handlers : g = h

SeenInv ==
  \A h \in Handlers :
    LET c == handler[h].change IN
    /\ handler[h].pc = "begun" =>
         /\ handler[h].seen.url = url
         /\ \A r \in Relays : handler[h].seen.slug[r] \in {None, slug[r]}
    /\ c.op = "source" => c.read = c.was /\ url[c.id] = c.now
    /\ c.op = "relay" => c.read = c.was /\ slug[c.id] = c.now
    /\ moved[h] = {}

=============================================================================
