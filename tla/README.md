# A TLA+ verification of tvr

tvr relays live TV: it keeps a library of channels and their upstream URLs,
publishes lineups of them ("relays") as M3U, EPG and stream URLs, shares one
upstream connection among all viewers of a channel, and builds each relay's
XMLTV guide from EPG sources it fetches in the background. This directory holds
TLA+ models of its concurrent core, the TLC runs that check them and TLAPS proofs
of every safety property those runs check. `PROJECT.json` maps every definition to the source
lines it models.

## 1. Inventory

| Component | State | Operations | Interacts with |
|---|---|---|---|
| Stream manager (`core/stream/manager.go`) | sessions, epochs, sticky errors, blocked channels, revisions, profile, closed; all under `m.mu` | Subscribe, PublishChannel, BlockChannel, ApplyProfile, Close, removeSession, rememberFinish, Status | HTTP handlers call it; sessions call back `onIdle`, `onFinish` |
| Session (`session.go`, `pump.go`) | viewers, state, readiness verdict, current upstream and candidate, attempts, cancel function, watchdog | run loop, addViewer, removeViewer, stop, markReady/failReady, beginPump, advance | one goroutine each, plus a watchdog timer and every thread that stops it |
| Pumps (`copy.go`, `pump_transcode.go`, `hls.go`) | read buffers, viewer queues, cached tables, keyframe flag, segments seen, ffmpeg process | read, observe, broadcast, drop slow viewers, walk a playlist | session |
| EPG service (`core/epg`) | four queues, admission, source revisions, backoffs, wake token; files: source generations, manifests, relay guides | Enqueue*, drain, processSource, processRelay, processCleanup, nextDelay, reconcileStartup | one worker goroutine, requests, the database, the file system |
| Workflows (`core/workflows`) | none | commit a change, apply the derived EPG work, under admission | store, EPG service |
| Store (`core/store`) | SQLite: channels, upstreams, proxies, relays, groups, memberships, EPG sources, settings | CRUD, renumbering, layout, import, backup | everything |
| HTTP API (`httpapi`) | `channelMu` | decode, call store or workflow, publish to the manager; serve streams, playlists, guides | everything |
| Others | - | MPEG-TS framing, ffmpeg arguments, M3U/text parsing, configuration, version, web UI | - |

What is hard here: sessions end by themselves while requests join, replace and
tear them down; the manager's lock is not held by `session.stop`; results of old
sessions arrive after new ones started; the EPG worker reads rows and files that
requests change under it; the queues are in memory while the database and the
files survive a crash; timers, backoffs and polls race each other. `PROJECT.json`
lists these under `hazards`, each at its line, with the properties aimed at it.

What makes each component correct:

- manager: no session is lost or joinable when it must not be; old sessions never
  disturb newer ones; every waiter is told, every torn-down session ends;
- session: all upstream URLs get their turn, the budget is exact, idle sessions end;
- EPG: when things settle, guides are current, files have owners, no stale
  generation is left; no queued work is forgotten;
- lineups: memberships stay in groups of their relay and numbered in lineup order;
- pumps: a viewer's stream has no holes and starts with its tables; HLS segments go out
  once, in order;
- library: cached URLs match what they are derived from, rows refer to rows that exist,
  a backup can be restored;
- publication: after a change is saved and published no viewer is served the old
  source, and no channel is left refusing viewers.

## 2. Modules

| Module | Models |
|---|---|
| `StreamManager` | manager and sessions with all their threads |
| `LiveManager` | what the manager promises its callers, one step per operation; `StreamManager` implements it |
| `LivePublish` | the handlers that change channels, the rows' revisions and the viewers, composed with `LiveManager` |
| `SessionPump` | one session's loop: walk, budget, backoff, idle wait |
| `SessionAttempts` | what a session promises the viewers that wait for it; `SessionPump` and every session of `StreamManager` implement it |
| `MediaFeed` | one session's data path: chunks, tables, keyframes, viewer queues, HLS playlists |
| `Library` | channels, upstreams and proxies in the store; export and restore |
| `RelayLayout` | relay lineups in the store: groups, memberships, numbering, layouts, import |
| `EpgWorker` | EPG service, its worker, the workflows that feed it, restart |
| `MC*` | TLC instances: source shapes, symmetry sets |
| `StreamManagerProofs`, `LivePublishProofs`, `SessionPumpProofs`, `MediaFeedProofs`, `LibraryProofs`, `RelayLayoutProofs`, `EpgWorkerProofs` (wake-ups), `EpgGuideProofs` (types, guides, files) | theorems and proofs |

`LiveManager` is the joint between the two halves: `StreamManager` shows that the
threads and locks of the manager keep its promise (`ImplementsLiveManager`), and
`LivePublish` uses the promise in place of the threads. The mapping is the identity on
the four maps they share: who is refused, which revision a channel is served at, which
session new viewers join. What the abstract manager leaves open it leaves to any
moment: sessions end by themselves (`Retire`), and whether a new session is started
beside a running one is the caller's choice (`Start`), because the manager decides it on
a stop that its callers cannot see. LivePublish restricts that choice by `Joinable`,
the kind of the session.

`SessionAttempts` is the joint between the two models of a session: attempts left, then
one verdict. `SessionPump` implements it with the number of URLs it has not tried
as the attempts left, `StreamManager` with the budget minus the attempts counted. So the
budget by which StreamManager stands for the walk is what the walk really spends, and what
the manager's threads do to a session breaks neither the count nor the single verdict.
A failure with attempts left is allowed only after the session's loop has ended, where
the deferred function of `run` reports one if nobody else has given a verdict.

**StreamManager.** Everything done under `m.mu` is one step, with one exception:
`session.stop` does not take `m.mu`, so Subscribe is two steps, up to the
`isStopped` test and `addViewer`, with the lock (`mu`) held in between. `stop` is
three steps (atomic swap; closing viewers and cancelling under `s.mu`; failReady)
and any thread may be inside one: `stop[t]`. `run[s]` is the program counter of the
session's goroutine, up to its deferred function (verdict, `finishStatus`, stop,
removeSession, rememberFinish, done). Between seeing a viewer and `beginPump`
("begin") an attempt cannot be cancelled, as in the code. An upstream is
abstracted to what an attempt does to the session: it delivers media (any
subset of viewers may turn out slow and be dropped), fails, is cut, or times out.
The walk over URLs is abstracted to its attempt budget. `made[s]` holds the fields
fixed by newSession, `sticky[c]` names the session whose error is kept, `retired`
is a history variable. Of the display state only "error" is kept (`errored`),
because finishStatus depends on it.

**SessionPump.** The part StreamManager abstracts: `currentIndex`,
`candidateIndex`, `attemptsBeforeReady`, the backoff and the idle timer, for one
session and arbitrary viewers. Time advances only in the idle wait, by 200 ms
polls. `failures` counts, per URL, the failed attempts handlePumpError saw.

**EpgWorker.** A workflow is: take admission and read the rows (`Begin`), commit
(one action per workflow), read the row back and derive the EPG work (`Derive*`), apply
it item by item (`Apply*`), finish. `handler[h]` is where a request stands: `seen` what it
has read, `change` the committed change whose work is still to be derived, `todo` the
work. CreateEPGSource, UpdateEPGSource and UpdateRelay end with a read of the row,
UpdateChannel with one of the channel and of its relays (ChannelRelayIDs), all with the
request's context and after the commit: between the two other requests may change or
delete the row, and the read may fail (`ReadBackFails`, at any moment: the client has
left, or the row is gone), after which no work is derived. DeleteEPGSource, DeleteRelay
and the membership requests read nothing back after their commit; their work follows from
what they read before it or in their transaction, and is set with the commit. So is
what follows once work is derived: the queues take it without the context, but for the
list of due sources (`ApplyDue`).

The worker is a program counter over drain's four phases and the stages of processSource,
processRelay and processCleanup; each database read, file rename and section
under `s.mu` is a step where another thread could tell. A generation is its
number and URL, a guide the relay it was built for and the generations merged in it.
`nextRetry` is none/waiting/past, `intervalUp` the sources whose interval has
elapsed. `Restart` may happen at any moment: queues, revisions and backoffs are
lost, database and files stay, reconcileStartup runs. Any number of requests may be in
progress at once. History variables: `published` and `skipped` (sources); `moved`, per
request, the relays whose lineup or mapping others have changed since its first read; and
what the code will not make up for by itself:

- `broken`: relays whose guide could not be written, or whose rebuild a request left out;
- `unpurged`: sources whose purge was lost in a crash, or left out by a request;
- `leftover`: slugs whose cleanup a request left out.

"Left out" is decided in one place, `Derive`, by comparing what the committed change
calls for (`CallsForPurge`, `CallsForCleanup`, `CallsForRebuild`: the row it replaced
against the row it wrote) with the work derived. It is marked only when the read-back
failed or another request changed the row between two reads of this one; a request
that leaves work out for any other reason is not excused, and the properties then fail.
(DeleteRelay and the membership requests have no read-back: a rename, or a change in
`moved`, since their first read is what excuses them, in their own actions.)
The next rebuild, purge or restart that does the work takes the mark away.

Assumed of SQLite and its driver, which are not part of the repository: a statement that
reports an error had no effect, and the worker's own statements, whose context is not a
request's, do not fail.

**RelayLayout.** The tables `channels`, `relays`, `groups` and `members` as functions
from ids to rows, with the AUTOINCREMENT counters. SQLite has one connection, so a
statement or a transaction is a step. CreateRelayGroup (MAX, then INSERT),
DeleteRelayGroup (COUNT, then DELETE with its cascade) and ReplaceRelayLayout (two
lists, then the transaction) are several steps; `req[t]` holds what such a request has
read. A layout is any that passes the code's validation against what was read; the
foreign key can still roll it back. `raced` is a history variable: relays whose
memberships changed between the reads and the write of such a request, until the next
renumbering. Names and slugs are left out; so is RestoreLibrary.

**LivePublish.** A row is its revision (`updated_at`), the transcode flag and one value
for everything its upstreams resolve to. `op[h]` is the program counter of a request
that changes channels, up to its last publication, with what it has read; `viewer[v]`
that of a stream request: first query of GetChannel, second query, Subscribe, retry.
`mu` is `channelMu`. Creating a channel publishes nothing, so it is one step. Every
tear-down of a running session may time out, every request may lose its client after
its commit; both leave channels in the history variable `owed` that the code will not
publish any more. The eighth stale answer of subscribeChannel is `GiveUp`, at any try.
`updated_at` is a counter: two commits within the clock's nanosecond are left out.

**Library.** A URL is a server and a link; a proxied upstream stores the link. Channel
ids stand for names. A request that is refused changes nothing and is no step; requests
that check and write in one transaction are one step, DeleteProxy and DeleteChannel two
(`deleting`). `backup` is the export under way, read table by table, and then the file;
`Restorable` repeats what RestoreLibrary validates. An imported list is one step per
row, although the code commits all of them at once: rows are independent but for the
order, and every prefix of the list is a list. The policies of a channel and of a proxy
are resolved as in `upstream/resolve.go`.

**MediaFeed.** A chunk is numbered and may hold tables and a keyframe. Reading and
observing a chunk, broadcasting it under `s.mu`, and markReady are three steps, between
which viewers come, read and go. `cancel` tells the cancel function taken under the lock
from its call after it. A viewer keeps what it has read (`read`), so that properties can
look at its whole stream. The HLS upstream is a sliding window whose packager may
restart with new numbers; each segment is one chunk. A segment counts as seen when it has
been handed out, after its fetch. An attempt may end at any point where the code can return
an error. A chunk is broadcast in one step under the lock: a full read with the carry of
the one before can be 33 packets, which broadcastFramed (copy.go:82) observes together and
hands out as two bursts of at most 32 with the lock released in between. To the model such
a read is one chunk; no property tells the two apart.

## 3. Runs

| Run | Result | What it shows | Bounds |
|---|---|---|---|
| `stream_manager` | pass | `TypeOK`, `StickyIsNewestFailure`, `NoLeakedSession`, `RefusedHasNoSession`, `JoinableRunsProfile`, `EvictsOnlyDeadSessions` | 1 channel, 2 sessions, 2 profiles, 1 viewer, 1 admin, epoch <= 3: an old and a new session overlap, are replaced and torn down |
| `stream_live` | pass | `WaitersUnblocked`, `RetiredSessionEnds`, `ImplementsLiveManager`, `ImplementsAttempts` | 1 session, 2 viewers, 2 revisions, epoch <= 2 |
| `stream_orphan` | violation | `ReaderServedOrDropped` | 1 session, 2 viewers |
| `epg_worker` | pass | `TypeOK`, `RelayCacheCurrent`, `StaleGenerationPurged`, `NoLostWakeup`, `NoOrphanCache` | 1 source, 2 URLs, 2 relays, 2 slugs, 2 requests, which may be in progress at once: a URL changes or the source goes while a relay is renamed into the other's slug, both requests update the same row, or one deletes the row the other is about to read back; any read-back may fail |
| `epg_live` | pass | `QueuesDrain` | 1 source, 1 relay, 2 requests |
| `epg_refreshed` | violation | `RefreshedIsPublished` | 2 URLs, 2 requests |
| `session_pump` | pass | `TypeOK`, `RoundRobin`, `GivesUpAfterAll`, `ImplementsAttempts` | 3 policies, 1-2 upstreams of 1-3 candidates, 5 failures per URL |
| `session_idle` | violation | `IdleEnds` | timeout of 3 polls |
| `relay_layout` | pass | `TypeOK`, `MembersInOwnGroups`, `NumbersFollowLineup` | 3 channels, 2 requests in progress, ids up to 2 relays, 2 groups, 3 memberships, imports of 2 entries: two groups of one relay with three members, where a stale layout can give one number twice, or two relays |
| `live_publish` | pass | `TypeOK`, `QuietServesCurrent`, `JoinsItsSource` | 2 channels, 2 values of upstreams, 2 handlers, 2 viewers, 3 revisions: two changes of one channel, or one of both, overlap with each other's publication and with a viewer's reads |
| `library` | pass | `TypeOK`, `PrimaryCurrent`, `NoDangling`, `QuietBackupRoundTrips` | 2 channels of up to 2 upstreams, 1 proxy of up to 2 servers, 2 servers, 1 link, 1 change while a backup is outstanding |
| `media_feed` | pass | `TypeOK`, `NoHoles`, `LateJoinerStartsClean`, `TablesBeforeMedia`, `SegmentsOnce`, `NoSegmentSkipped` | 2 viewers with queues of 2, 4 chunks, 2 attempts; playlists of 2 segments out of 4, 2 URIs remembered: queues overflow, URIs are forgotten, a late joiner meets the second attempt |

"Requests" counts requests, shutdowns of admission, restarts and elapsed intervals together
(`MaxRequests`). Bounds: `MaxEpoch` caps the number of starts and tear-downs of a
channel, `MaxBudget` the attempts, `MaxRequests` the outside events, `MaxFailures`
the failures per URL, `MaxRelays`, `MaxGroups` and `MaxMembers` the ids handed out and
`MaxEntries` the entries of a playlist. `MaxRev` caps the commits of LivePublish,
`MaxCommits` the changes during a backup, `MaxChunks`, `MaxAttempts` and `MaxSegments`
what an upstream sends. In `library` the policy "random" is left out: it resolves to the
first upstream and the first server, as "failover" does, except that a duplicate is
looked for at one server instead of all. Channels do not interact in the manager (all its maps are
keyed by channel, and Close and ApplyProfile treat each alike), so one is enough
for TLC; the proofs hold for any number. The symmetry sets permute viewers,
sessions and profiles, or URLs, relays, slugs and requests, or channels and requests, or
upstreams, handlers and servers, which no definition tells apart;
no run of a liveness property or of a refinement uses symmetry. Deadlock is checked in
the stream, layout, library and publication runs. The EPG, session and media runs may
stop: all requests are made and the worker sleeps, or the session is done.

A request can miss work in two ways. Its read-back can fail after the commit: the purge,
the rebuild or the cleanup that the committed row calls for is then never derived, and
nothing makes up for it. And it can compare rows that are not the ones before and after
its own commit, because another request was in between. `RelayCacheCurrent`,
`StaleGenerationPurged` and `NoOrphanCache` except the relays, sources and slugs whose work
was missed so, or by a failed write or a crash (`broken`, `unpurged`, `leftover`), and fail
without the exceptions. Behaviours of `epg_worker` that need them:

- UpdateEPGSource commits a new URL, the client leaves, GetEPGSource (store.go:879) fails
  and the workflow returns (workflows.go:113): the generation of the old URL is not purged;
- two requests update the same source from the same row: the second compares with a URL
  that is no longer there;
- one request renames a relay and commits, another deletes it, and the read-back of the
  first (relays.go:140) finds no row: the file of the first slug is never removed;
- UpdateChannel unbinds a channel, DeleteMembership reads it as unbound and removes it
  without a rebuild, and ChannelRelayIDs no longer finds the relay (workflows.go:208).

The first needs one request only, so it takes no concurrency to reach the exceptions.
`epg_worker` has two requests at once; `epg_live` and `epg_refreshed` have one at a time,
interleaved with the worker, the timers and restarts.

`NumbersFollowLineup` has an exception for `raced` relays. Without it TLC finds
counterexamples of a few steps: a membership added while a layout is between its
lists and its transaction ends up with the same channel number as another one, and one
deleted there leaves a gap, although ReplaceRelayLayout is described as atomic. The same variable marks a relay that
lost a membership because it came into a group that was being deleted. The numbers
are right again after the next membership request or layout.

`QuietServesCurrent` and `JoinsItsSource` have an exception for `owed` channels: those
after the first one whose tear-down timed out, and those whose client left between the
commit and the read that precedes the publication. Such a channel keeps its old session
until the next change of it, and once a viewer has recorded the old revision it refuses
viewers that read the new one.

### Disagreements found

- `stream_orphan`: a session ending between Subscribe's `isStopped` test and
  `addViewer` leaves a reader that is neither served nor closed.
- `epg_refreshed`: a URL change during the source phase of a drain publishes the new
  URL, marks it refreshed, and then wipes it.
- `session_idle`: the idle timeout never fires (every poll resets the timer), so an
  idle session stays for ever, although its upstream is closed at once.

Four more can be reproduced by naming the property in the run's cfg, or by the change
of a bound; they have no run of their own:

- `EpgWorker!RetryWakesWorker` (one relay, one URL, three requests): the retry that the
  comment in processSource relies on does not happen for a source that was refreshed
  before, because nextDelay ignores its backoff.
- `EpgWorker!GuideIsOwn` (in `epg_worker`): a new relay with the slug of one just
  deleted or renamed is served its predecessor's guide.
- `Library!EveryBackupRestores` (in `library`): an export is described as a snapshot,
  but its tables are read one after the other; a change in between can make a backup
  that RestoreLibrary refuses. So can an UpdateProxy that makes two upstreams of one
  channel resolve alike, which the code allows there and nowhere else.
- `MediaFeed!SegmentsOnce` with `Window = 3`: a playlist longer than the set of segments
  sent, starting at media sequence 0, has its first segment sent again at every reload,
  as `hls.go:125` trusts numbers greater than 0 only.

### Fairness

`StreamManager!FairSpec`: a runnable session goroutine moves; the watchdog of an
attempt that is not ready fires (it is a timer); a cancelled attempt returns (HTTP
requests carry the context, ffmpeg is killed); a backoff ends; threads inside stop or
with a verdict to read go on. removeSession and rememberFinish wait for `m.mu`,
which viewers take again and again: strong fairness, as Go's mutex does not starve a
waiter. Nothing is assumed of upstreams (a read that is not cancelled may block for
ever), viewers or administrators; the idle timeout is not assumed to fire.

`EpgWorker!FairSpec`: the worker moves (fetches have a timeout), a request that
has committed reads back (or fails to) and applies its work, backoffs and cleanup delays pass. A cleanup deferred in
a cleanup phase is not due again in the same phase (`RetryOutlastsRound`): the delay of
one second is longer than a round of cleanups. Without this assumption two relays
whose cleanups both wait for a file keep each other due, and the drain never returns
to its other queues; with it `QueuesDrain` also holds for two relays (checked without
sources, which is a run of seconds). The safety runs do not assume it. Refresh
intervals need never elapse.

## 4. Proofs

Every invariant, action property and refinement of a passing run is a theorem, for all
values of the constants that satisfy the module's assumptions. These say that "nothing"
(`None`, `Gone`) is no row, id or value, that thread ids of different kinds differ, and
that bounds are naturals, positive where the code needs one of a thing. The bounds are not
restricted otherwise: a theorem about a model with `MaxRev` holds for every `MaxRev`.
Two theorems about HLS and one about requests made one at a time have a hypothesis of
their own, named below.

A property is seldom inductive alone. The strengthening is a conjunction of named parts
at the end of the component's module, so that it can be named in a cfg; each was checked
by TLC on the run's instance before it was proved. A proof has one lemma per action, or
per group of actions that treat a part alike, and each part has a frame lemma for the
steps that leave its variables alone.

**StreamManagerProofs.** `Invariance`: `IInv` is inductive. `EpochInv` (epochs number the
sessions of a channel, retired ones are behind the counter) with `MapInv` and `StickyInv`
(what is in the map, or sticky, is the newest) is what makes a late finish harmless;
`StopInv` and `ClientInv` say what a thread inside stop or Subscribe has already done,
which `NoLeakedSession` needs when a session leaves the map; `MadeInv` bounds the
attempts. `TypeCorrect`, `NoLeak`, `Refused`, `ProfileInstalled` and `StickyNewest` follow
from it, and `EvictsOnlyDead` (an action property) from it and the steps.
`ManagerImplementsLive` is the refinement: under the identity mapping on the four shared
maps every step, from a state of `IInv`, is a step of `LiveManager` or leaves the maps
alone. `IInv` is needed where a session is started: it is in no channel's entry of the
map yet (`MapInv`), as the abstract `Start` demands.
`SessionsImplementAttempts` is the refinement of `SessionAttempts` by every session at once,
each under its own mapping (`EachSessionImplementsAttempts` restates it for one).
It needs more than `IInv`: a session told "stopped" was stopped, one told "failed" does
not pump any more (`VerdictInv`), and whoever is inside a stop holds a session that was
retired first (`CondemnedInv`), so none that is still to be made. `VerdictInvariance`
shows both.

**LivePublishProofs.** `PublishInv` says what each request still owes. While nobody has to
publish a channel its recorded revision is that of its row (`RevisionInv`); while nobody
has to retire its session the session is of its source, and so is one that any viewer
would start (`SourceInv`); a removed channel that nobody has to block has no session, and
viewers that still hold its row are refused (`GoneInv`). These need `HolderInv`: what the
request that holds `channelMu` has read is current, or an import, which commits without
the lock, has changed it and waits for the lock to publish it. `ViewerInv`, `ClockInv` and
`UsedInv` tie revisions to rows and keep new ids unknown to everyone. From it
`PublishTypes`, `QuietChannelsServeCurrent` and, with the steps, `ViewersJoinTheirSource`.

**SessionPumpProofs.** `SessionInv`: the session stands at a URL of its walk (`PlaceInv`);
for some round r every URL that had its turn in this round (`Before`) failed r + 1 times
and every other r times; before readiness r is 0 and the attempts made are as many as
`Before` has members (`TurnInv`). Because the budget is the number of URLs of the walk,
the session gives up exactly when the last of them has failed. `SessionTypes`,
`EveryUrlHasItsTurn` and `FailureMeansAllTried` follow, for lists of any length.
`WalkImplementsAttempts` shows that the walk implements `SessionAttempts`: before readiness a
failed attempt takes the URL the session stands at out of the untried ones, and the budget
that handlePumpError computes after each failure is the same each time. What
`attemptBudget` (session.go:154) adds up in a loop is the size of `Positions` in the
model, so no induction over the list is needed.

**MediaFeedProofs.** `MediaInv` is about the data path: what a viewer was given is
numbered without a gap, a viewer that does not wait has the tables of this attempt or is
about to get them (`GivenInv`), the upstream's window is contiguous (`ServerInv`) and the
walk stays within its playlist (`WalkInv`). It gives `MediaTypes`, `ServedWithoutHoles`,
`LateJoinersStartClean` and `TablesComeFirst`. `OrderInv` is about HLS: the playlist being
walked is a former window (`SnapshotInv`); a segment of it that is not in the list of
segments seen is newer than all of that list (`SeenInv`); what was fetched is in order
(`FetchedInv`); while the numbering lasts, numbers follow the broadcast (`NumberingInv`).
It gives `SegmentsSentOnce` and `SegmentsAllSent`, under the hypothesis
`Window <= MaxSeen`: the upstream lists at most maxSeenSegments (256) segments. Without it
they are false, as `SegmentsOnce` with `Window = 3` shows (section 3).

**LibraryProofs.** `LibraryInv`: types and fixed upstreams (`TablesInv`), the two
properties `PrimaryCurrent` and `NoDangling`, which are inductive given the types, the
unique indexes (`UniqueInv`), and `BackupInv`: a backup during which nothing was committed
equals the tables read so far. `LibraryTypes`, `PrimaryStaysCurrent`, `NothingDangles` and
`BackupRoundTrip` follow; the last one shows that tables of `LibraryInv` pass each check of
RestoreLibrary and that recomputing the cached URLs gives the stored ones.

**RelayLayoutProofs.** `LayoutInv` says what the stale lists of a layout still guarantee:
ids are never reused, so a listed group is a group of that relay or gone; the foreign key
excludes the second. With it `MembersStayInRelay`. `LineupInvariance` adds the types and
`NumbersFollowLineup`. The place of a membership is a cardinality, so most of its proof
is counting: renumbering is right by definition, a layout's entries are in bijection with
the memberships it writes, an append goes behind a maximum, an import numbers its groups
and entries as it creates them. `LayoutTypeCorrect` and `NumbersAreLineup` are its parts.

**EpgWorkerProofs** proves `WorkerNeverSleepsOnWork` (`NoLostWakeup`) for any number of
concurrent requests. `WakeInv` generalises it to the worker in the middle of a pass: what
is queued for a phase that a pass without work has already left has a wake-up pending;
a pass with work is followed by another.

**EpgGuideProofs** proves `EpgTypes` (`TypeInv`: types, unique slugs, what each stage of the
worker's job holds) and that `EpgInv` is inductive, and from it `GuidesAreCurrent`,
`FormerGenerationsArePurged` and `GuideFilesHaveOwners`, all for any number of concurrent
requests. `EpgInv` extends "when things have settled" to every moment: what is not as it
should be is queued, or called for by a committed change whose work is still to be
derived, or derived by a request in progress, or in the worker's hands, or marked as
missed. `PurgeInv` says so of generations (`Purging`), `FileInv` of guide files
(`Sweeping`), `GuideInv` of guides (`Queued`), with what the worker has read at each stage
of a rebuild. That a request passes its work on from one stage to the next, or has it
marked, is one lemma for all of them (`Keeps`), proved once per kind of step.

`OneAtATimeMissesNothing` shows how far the marks go: with requests made one at a time
(`OneRequest`), no step other than a failed read-back marks a slug, and none other than a
failed read-back or a restart a source, a failed read-back or a failed write a relay. It
rests on `SeenInv`: the rows a request has read are then still the present ones when it
commits, and the row it reads back the one it wrote. Failed read-backs are left to it as
they are to the code: a client that leaves after the commit is enough.

Only model-checked: liveness (`WaitersUnblocked`, `RetiredSessionEnds`, `QueuesDrain`),
which is out of the prover's reach, and the violated properties of section 3.

## 5. Not modelled

- ffmpeg's life cycle and command line, and the bytes of MPEG-TS: to MediaFeed an upstream
  yields chunks or ends.
- Variants of HLS master playlists, parsing and the reload delay.
- XMLTV and the guide (pure formatting), the search index, HTTP readers of guide files.
- The EPG work derived from an import or a restore; the restore of EPG sources, groups and
  numbers; the merge of playlist channels by name.
- Settings other than their effect on the manager, brand, text parsers, configuration,
  web UI, the order of the steps of a shutdown in `main`.
- Start-up of an older database: its migration is a hazard without a model.
- In StreamManager a watchdog ends with its attempt: a callback that runs late,
  during the next attempt, is one more failure of that attempt.

## 6. Plan

Done: the modules and runs above, the proofs of section 4. Left: imports and restores as
requests with many items of EPG work.
