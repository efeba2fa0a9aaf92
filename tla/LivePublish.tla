---------------------------- MODULE LivePublish ----------------------------
(***************************************************************************)
(* The HTTP handlers that change channels, the channel rows they commit,   *)
(* and the viewers that open streams, composed with the live manager       *)
(* (LiveManager).  A change is two writes in two places: the row with its  *)
(* new updated_at in the database, and the revision in the manager, which  *)
(* also retires the session of the old source.  channelMu serializes most  *)
(* handlers, but imports commit before they take it, viewers never do, and *)
(* a handler can give up between the two writes.                           *)
(*                                                                         *)
(* A channel's source is its transcode flag and its upstreams (rows,       *)
(* policy, headers and proxies together: one value of Upstreams).          *)
(* GetChannel is not atomic: it reads the channel row, then the upstreams. *)
(***************************************************************************)
EXTENDS Naturals, FiniteSets

CONSTANTS
  Channels,    \* channel ids
  Upstreams,   \* what a channel's upstreams resolve to
  Handlers,    \* requests that change channels
  Viewers,     \* requests for a channel's stream
  MaxRev,      \* bound on the values of updated_at
  None

ASSUME BoundsAssumption == MaxRev \in Nat \ {0}

VARIABLES
  closed, revisions, blocked, sessions,   \* the live manager
  rows,     \* the channels table: revision, transcode flag and upstreams
  clock,    \* the last updated_at written
  used,     \* channel ids ever given out: a new channel gets a fresh UUID
  mu,       \* the handler that holds channelMu, or None
  op,       \* each handler's request
  viewer,   \* each viewer's request
  owed      \* ghost: channels whose committed change no handler will publish

managerVars == <<closed, revisions, blocked, sessions>>
storeVars == <<rows, clock, used>>
vars == <<managerVars, storeVars, mu, op, viewer, owed>>

Sources == [transcode : BOOLEAN, ups : Upstreams]

\* A session object is named by its channel and the source it was started with.
Live == INSTANCE LiveManager
          WITH Revisions <- 1..MaxRev, NoRev <- 0, Sessions <- Channels \X Sources

Source(row) == [transcode |-> row.transcode, ups |-> row.ups]
Existing == {c \in Channels : rows[c] # None}
IdleOp == [pc |-> "idle"]
IdleViewer == [pc |-> "idle"]

Init ==
  /\ Live!LiveInit
  /\ \E c \in Channels, src \in Sources :
       rows = [d \in Channels |->
                 IF d = c THEN None
                 ELSE [rev |-> 1, transcode |-> src.transcode, ups |-> src.ups]]
  /\ clock = 1
  /\ used = Existing
  /\ mu = None
  /\ op = [h \in Handlers |-> IdleOp]
  /\ viewer = [v \in Viewers |-> IdleViewer]
  /\ owed = {}

(***************************************************************************)
(* Requests that do not publish.                                           *)
(***************************************************************************)
\* time.Now() as the updated_at of what the transaction writes.
Stamp == clock < MaxRev /\ clock' = clock + 1

Row(src) == [rev |-> clock + 1, transcode |-> src.transcode, ups |-> src.ups]

\* A new channel, from its form or from either import: nothing to publish.
CreateChannel(c, src) ==
  /\ c \notin used
  /\ Stamp
  /\ rows' = [rows EXCEPT ![c] = Row(src)]
  /\ used' = used \cup {c}
  /\ UNCHANGED <<managerVars, mu, op, viewer, owed>>

(***************************************************************************)
(* The handlers' requests.                                                 *)
(***************************************************************************)
Goto(h, request) == op' = [op EXCEPT ![h] = request]

\* Return with channelMu released.
Return(h) == Goto(h, IdleOp) /\ mu' = None

\* Go on with publishChannelIDs, or the loop of handleUpdateProxy, over todo.
PublishRest(h, kind, todo, invalidate) ==
  IF todo = {} THEN Return(h)
  ELSE /\ Goto(h, [pc |-> "load", kind |-> kind, todo |-> todo, invalidate |-> invalidate])
       /\ mu' = h

\* handleUpdateChannel takes channelMu; workflows.UpdateChannel reads the channel.
UpdateChannel(h, c) ==
  /\ op[h].pc = "idle" /\ mu = None /\ rows[c] # None
  /\ mu' = h
  /\ Goto(h, [pc |-> "commit", c |-> c, before |-> Source(rows[c])])
  /\ UNCHANGED <<managerVars, storeVars, viewer, owed>>

\* The request is refused, or its client leaves, before anything is committed.
UpdateRefused(h) ==
  /\ op[h].pc = "commit"
  /\ Return(h)
  /\ UNCHANGED <<managerVars, storeVars, viewer, owed>>

\* The transaction.  A field the request leaves out keeps the value that was
\* read before it began, so any source may result (Library says which).
UpdateCommits(h, src) ==
  /\ op[h].pc = "commit"
  /\ Stamp
  /\ rows' = [rows EXCEPT ![op[h].c] = Row(src)]
  /\ Goto(h, [pc |-> "after", c |-> op[h].c, before |-> op[h].before])
  /\ UNCHANGED <<managerVars, used, mu, viewer, owed>>

\* GetChannel returns the saved channel: its row, and then its upstreams.
UpdateReadsRow(h) ==
  LET row == rows[op[h].c] IN
  /\ op[h].pc = "after"
  /\ Goto(h, [pc |-> "upstreams", c |-> op[h].c, before |-> op[h].before,
              rev |-> row.rev, transcode |-> row.transcode])
  /\ UNCHANGED <<managerVars, storeVars, mu, viewer, owed>>

\* Mutant: ChannelRelayInvalidate does not compare transcode_enabled.
UpdateIgnoresTranscode(h) ==
  /\ op[h].pc = "upstreams"
  /\ Goto(h, [pc |-> "publish", kind |-> "update", c |-> op[h].c, rev |-> op[h].rev,
              invalidate |-> op[h].before.ups # rows[op[h].c].ups, todo |-> {}])
  /\ UNCHANGED <<managerVars, storeVars, mu, viewer, owed>>

UpdateReadsUpstreams(h) ==
  LET after == [transcode |-> op[h].transcode, ups |-> rows[op[h].c].ups] IN
  /\ op[h].pc = "upstreams"
  /\ Goto(h, [pc |-> "publish", kind |-> "update", c |-> op[h].c, rev |-> op[h].rev,
              invalidate |-> op[h].before # after, todo |-> {}])
  /\ UNCHANGED <<managerVars, storeVars, mu, viewer, owed>>

\* The channels a handler has committed and not yet published.
Pending(h) ==
  CASE op[h].pc \in {"after", "upstreams"} -> {op[h].c}
    [] op[h].pc \in {"saved", "lock", "load"} -> op[h].todo
    [] op[h].pc = "publish" -> op[h].todo \cup {op[h].c}
    [] op[h].pc = "block" -> op[h].todo \cup op[h].remove
    [] OTHER -> {}

\* The client is gone, so the read that follows the commit fails: not published.
ClientGone(h) ==
  /\ op[h].pc \in {"after", "upstreams", "saved"}
  /\ owed' = owed \cup Pending(h)
  /\ Return(h)
  /\ UNCHANGED <<managerVars, storeVars, viewer>>

\* The transaction of DeleteChannel, under channelMu.
DeleteChannel(h, c) ==
  /\ op[h].pc = "idle" /\ mu = None /\ rows[c] # None
  /\ mu' = h
  /\ rows' = [rows EXCEPT ![c] = None]
  /\ Goto(h, [pc |-> "block", remove |-> {c}, todo |-> {}])
  /\ UNCHANGED <<managerVars, clock, used, viewer, owed>>

\* UpdateProxy, under channelMu: every channel that uses the proxy gets a new
\* revision, and upstreams that resolve to something else.
UpdateProxy(h, cs, ups) ==
  /\ op[h].pc = "idle" /\ mu = None /\ cs # {}
  /\ mu' = h
  /\ Stamp
  /\ rows' = [c \in Channels |->
                IF c \in cs THEN Row([transcode |-> rows[c].transcode, ups |-> ups])
                ELSE rows[c]]
  /\ Goto(h, [pc |-> "saved", todo |-> cs])
  /\ UNCHANGED <<managerVars, used, viewer, owed>>

ProxySaved(h) ==
  /\ op[h].pc = "saved"
  /\ PublishRest(h, "proxy", op[h].todo, TRUE)
  /\ UNCHANGED <<managerVars, storeVars, viewer, owed>>

\* Both imports commit without channelMu.  ImportChannels appends upstreams to
\* channels; ImportRelay fills in the EPG pair of channels it reuses.
ImportChannels(h, cs, ups) ==
  /\ op[h].pc = "idle" /\ cs # {}
  /\ \A c \in cs : rows[c].ups # ups
  /\ Stamp
  /\ rows' = [c \in Channels |->
                IF c \in cs THEN Row([transcode |-> rows[c].transcode, ups |-> ups])
                ELSE rows[c]]
  /\ Goto(h, [pc |-> "lock", todo |-> cs, invalidate |-> TRUE])
  /\ UNCHANGED <<managerVars, used, mu, viewer, owed>>

ImportRelay(h, cs) ==
  /\ op[h].pc = "idle" /\ cs # {}
  /\ Stamp
  /\ rows' = [c \in Channels |-> IF c \in cs THEN Row(rows[c]) ELSE rows[c]]
  /\ Goto(h, [pc |-> "lock", todo |-> cs, invalidate |-> FALSE])
  /\ UNCHANGED <<managerVars, used, mu, viewer, owed>>

\* Mutant: the imported channels are published without waiting for channelMu.
ImportIgnoresLock(h) ==
  /\ op[h].pc = "lock"
  /\ PublishRest(h, "ids", op[h].todo, op[h].invalidate)
  /\ UNCHANGED <<managerVars, storeVars, viewer, owed>>

\* publishLockedChannelIDs.
ImportLocks(h) ==
  /\ op[h].pc = "lock" /\ mu = None
  /\ PublishRest(h, "ids", op[h].todo, op[h].invalidate)
  /\ UNCHANGED <<managerVars, storeVars, viewer, owed>>

\* RestoreLibrary, under channelMu: the backup's channels replace the rows, each
\* with its own id and a new revision.
RestoreLibrary(h, cs, src) ==
  /\ op[h].pc = "idle" /\ mu = None
  /\ Stamp
  /\ rows' = [c \in Channels |-> IF c \in cs THEN Row(src) ELSE None]
  /\ used' = used \cup cs
  /\ IF Existing \subseteq cs THEN PublishRest(h, "ids", cs, TRUE)
     ELSE Goto(h, [pc |-> "block", remove |-> Existing \ cs, todo |-> cs]) /\ mu' = h
  /\ UNCHANGED <<managerVars, viewer, owed>>

(***************************************************************************)
(* Telling the manager.  A tear-down that is waited for can time out.      *)
(***************************************************************************)
CanTimeOut(c) == sessions[c] # None

\* BlockChannel for a deleted channel, or for each one that a restore removed.
BlockRemoved(h, c) ==
  /\ op[h].pc = "block" /\ c \in op[h].remove
  /\ Live!Block(c)
  /\ IF op[h].remove = {c} THEN PublishRest(h, "ids", op[h].todo, TRUE)
     ELSE Goto(h, [op[h] EXCEPT !.remove = @ \ {c}]) /\ UNCHANGED mu
  /\ owed' = owed \ {c}
  /\ UNCHANGED <<storeVars, viewer>>

\* syncRestoredLive returns at the first error; so does handleDeleteChannel.
BlockTimesOut(h, c) ==
  /\ op[h].pc = "block" /\ c \in op[h].remove /\ CanTimeOut(c)
  /\ Live!Block(c)
  /\ owed' = (owed \cup Pending(h)) \ {c}
  /\ Return(h)
  /\ UNCHANGED <<storeVars, viewer>>

LoadChannel(h, c) ==
  /\ op[h].pc = "load" /\ c \in op[h].todo /\ rows[c] # None
  /\ Goto(h, [pc |-> "publish", kind |-> op[h].kind, c |-> c, rev |-> rows[c].rev,
              invalidate |-> op[h].invalidate, todo |-> op[h].todo \ {c}])
  /\ UNCHANGED <<managerVars, storeVars, mu, viewer, owed>>

\* publishChannelIDs stops at a channel that was deleted meanwhile.
ChannelNotFound(h, c) ==
  /\ op[h].pc = "load" /\ c \in op[h].todo /\ rows[c] = None
  /\ owed' = owed \cup (op[h].todo \ {c})
  /\ Return(h)
  /\ UNCHANGED <<managerVars, storeVars, viewer>>

\* PublishChannel.  A publication that retires the session settles the channel.
PublishChannel(h) ==
  /\ op[h].pc = "publish"
  /\ Live!Publish(op[h].c, op[h].rev, op[h].invalidate)
  /\ owed' = IF op[h].invalidate THEN owed \ {op[h].c} ELSE owed
  /\ PublishRest(h, op[h].kind, op[h].todo, op[h].invalidate)
  /\ UNCHANGED <<storeVars, viewer>>

\* publishChannelIDs also stops at a tear-down that times out.
PublishTimesOut(h) ==
  /\ op[h].pc = "publish" /\ op[h].kind = "ids"
  /\ op[h].invalidate /\ CanTimeOut(op[h].c)
  /\ Live!Publish(op[h].c, op[h].rev, TRUE)
  /\ owed' = (owed \cup op[h].todo) \ {op[h].c}
  /\ Return(h)
  /\ UNCHANGED <<storeVars, viewer>>

(***************************************************************************)
(* Viewers: handleChannelStream and the attempts of subscribeChannel.      *)
(***************************************************************************)
Becomes(v, request) == viewer' = [viewer EXCEPT ![v] = request]

\* GetChannel's first query, for the request or for another attempt.
ReadRow(v, c) ==
  /\ Becomes(v, IF rows[c] = None THEN IdleViewer
                ELSE [pc |-> "upstreams", c |-> c, row |-> rows[c]])
  /\ UNCHANGED <<managerVars, storeVars, mu, op, owed>>

OpenStream(v, c) == viewer[v].pc = "idle" /\ rows[c] # None /\ ReadRow(v, c)
Reread(v) == viewer[v].pc = "retry" /\ ReadRow(v, viewer[v].c)

\* Its second query.  With no upstreams left, the row's own URL is the source.
ReadUpstreams(v) ==
  LET c == viewer[v].c
      row == viewer[v].row
      ups == IF rows[c] = None THEN row.ups ELSE rows[c].ups
  IN /\ viewer[v].pc = "upstreams"
     /\ Becomes(v, [pc |-> "subscribe", c |-> c, row |-> [row EXCEPT !.ups = ups]])
     /\ UNCHANGED <<managerVars, storeVars, mu, op, owed>>

\* Subscribe joins the channel's session, or starts one when there is none or
\* it is of the other kind (pass-through or transcoded).  How long the viewer
\* stays does not matter here.
Joinable(c, src) == sessions[c] # None /\ sessions[c][2].transcode = src.transcode

Watch(v) ==
  LET c == viewer[v].c
      rev == viewer[v].row.rev
      src == Source(viewer[v].row)
  IN /\ viewer[v].pc = "subscribe"
     /\ IF Joinable(c, src) THEN Live!Join(c, rev) ELSE Live!Start(c, rev, <<c, src>>)
     /\ Becomes(v, IdleViewer)
     /\ UNCHANGED <<storeVars, mu, op, owed>>

\* ErrStaleRevision is retried, any other refusal is final.  The eighth stale
\* one is final too, or the client leaves: GiveUp.
Refused(v) ==
  LET c == viewer[v].c IN
  /\ viewer[v].pc = "subscribe"
  /\ ~Live!Admits(c, viewer[v].row.rev)
  /\ Becomes(v, IF c \in blocked THEN IdleViewer ELSE [pc |-> "retry", c |-> c])
  /\ UNCHANGED <<managerVars, storeVars, mu, op, owed>>

GiveUp(v) ==
  /\ viewer[v].pc = "retry"
  /\ Becomes(v, IdleViewer)
  /\ UNCHANGED <<managerVars, storeVars, mu, op, owed>>

\* A session ends by itself: its last viewer left, or its upstreams failed.
SessionEnds(c) ==
  /\ sessions[c] # None
  /\ Live!Retire({c})
  /\ UNCHANGED <<storeVars, mu, op, viewer, owed>>

\* ApplyProfile stops the transcoded sessions.
ApplyProfile ==
  /\ Live!Retire({c \in Channels : sessions[c] # None /\ sessions[c][2].transcode})
  /\ UNCHANGED <<storeVars, mu, op, viewer, owed>>

\* The process stops at any point and starts again: only the rows survive.
Restart ==
  /\ closed' = FALSE
  /\ revisions' = [c \in Channels |-> 0]
  /\ blocked' = {}
  /\ sessions' = [c \in Channels |-> None]
  /\ mu' = None
  /\ op' = [h \in Handlers |-> IdleOp]
  /\ viewer' = [v \in Viewers |-> IdleViewer]
  /\ owed' = {}
  /\ UNCHANGED storeVars

HandlerStep(h) ==
  \/ \E c \in Channels : UpdateChannel(h, c) \/ DeleteChannel(h, c)
  \/ UpdateRefused(h)
  \/ \E src \in Sources : UpdateCommits(h, src)
  \/ UpdateReadsRow(h)
  \/ UpdateReadsUpstreams(h)
  \/ ClientGone(h)
  \/ \E cs \in SUBSET Existing :
       \/ ImportRelay(h, cs)
       \/ \E ups \in Upstreams : UpdateProxy(h, cs, ups) \/ ImportChannels(h, cs, ups)
  \/ ProxySaved(h)
  \/ ImportLocks(h)
  \/ \E cs \in SUBSET Channels, src \in Sources : RestoreLibrary(h, cs, src)
  \/ \E c \in Channels :
       BlockRemoved(h, c) \/ BlockTimesOut(h, c) \/ LoadChannel(h, c) \/ ChannelNotFound(h, c)
  \/ PublishChannel(h)
  \/ PublishTimesOut(h)

ViewerStep(v) ==
  \/ \E c \in Channels : OpenStream(v, c)
  \/ Reread(v)
  \/ ReadUpstreams(v)
  \/ Watch(v)
  \/ Refused(v)
  \/ GiveUp(v)

Next ==
  \/ \E c \in Channels, src \in Sources : CreateChannel(c, src)
  \/ \E h \in Handlers : HandlerStep(h)
  \/ \E v \in Viewers : ViewerStep(v)
  \/ \E c \in Channels : SessionEnds(c)
  \/ ApplyProfile
  \/ Restart

Spec == Init /\ [][Next]_vars

(***************************************************************************)
(* Properties.                                                             *)
(***************************************************************************)
\* The manager's maps and the table hold what their types allow, and channelMu
\* is held exactly by a request that is past its lock and not yet back.
TypeOK ==
  /\ closed = FALSE
  /\ revisions \in [Channels -> 0..MaxRev]
  /\ blocked \subseteq Channels
  /\ sessions \in [Channels -> (Channels \X Sources) \cup {None}]
  /\ rows \in [Channels -> [rev : 1..MaxRev, transcode : BOOLEAN, ups : Upstreams] \cup {None}]
  /\ Existing \subseteq used /\ used \subseteq Channels
  /\ \A h \in Handlers : mu = h <=> op[h].pc \notin {"idle", "lock"}

\* When no request is in progress, a channel is served as its row says: the
\* revision that viewers read is the one Subscribe accepts, a running session
\* fetches the row's source, a removed channel has no session, and an existing
\* one is not blocked.  Channels whose publication was given up are excepted.
QuietServesCurrent ==
  (\A h \in Handlers : op[h].pc = "idle") =>
    \A c \in Channels \ owed :
      IF rows[c] = None THEN sessions[c] = None
      ELSE /\ revisions[c] \in {0, rows[c].rev}
           /\ c \notin blocked
           /\ sessions[c] \in {None, <<c, Source(rows[c])>>}

\* A viewer that Subscribe attaches to a session gets the source it read, except
\* while a committed change of the channel is still to be published, or given up.
JoinsItsSource ==
  [][\A v \in Viewers :
       LET c == viewer[v].c IN
       viewer[v].pc = "subscribe" /\ viewer'[v].pc = "idle" /\ sessions'[c] # None =>
         \/ c \in owed
         \/ \E h \in Handlers : c \in Pending(h)
         \/ sessions'[c] = <<c, Source(viewer[v].row)>>]_vars

-----------------------------------------------------------------------------
(***************************************************************************)
(* The inductive invariant behind the properties: who still has to do what *)
(* for a channel, and what holds of it when nobody has.                    *)
(***************************************************************************)
Rows == [rev : 1..MaxRev, transcode : BOOLEAN, ups : Upstreams]

\* None is no handler, no row and no session.
ASSUME NoneAssumption ==
  None \notin Handlers /\ None \notin Rows /\ None \notin Channels \X Sources

\* The requests in progress.
Ops ==
  {IdleOp}
  \cup [pc : {"commit", "after"}, c : Channels, before : Sources]
  \cup [pc : {"upstreams"}, c : Channels, before : Sources, rev : 1..MaxRev, transcode : BOOLEAN]
  \cup [pc : {"publish"}, kind : {"update"}, c : Channels, rev : 1..MaxRev,
        invalidate : BOOLEAN, todo : {{}}]
  \cup [pc : {"publish"}, kind : {"proxy", "ids"}, c : Channels, rev : 1..MaxRev,
        invalidate : BOOLEAN, todo : SUBSET Channels]
  \cup [pc : {"saved"}, todo : SUBSET Channels]
  \cup [pc : {"lock"}, todo : SUBSET Channels, invalidate : BOOLEAN]
  \cup [pc : {"load"}, kind : {"proxy", "ids"}, todo : SUBSET Channels, invalidate : BOOLEAN]
  \cup [pc : {"block"}, remove : SUBSET Channels, todo : SUBSET Channels]

Views ==
  {IdleViewer}
  \cup [pc : {"upstreams", "subscribe"}, c : Channels, row : Rows]
  \cup [pc : {"retry"}, c : Channels]

Holds(v, c) == viewer[v].pc \in {"upstreams", "subscribe"} /\ viewer[v].c = c

\* An import that has changed c and waits for channelMu; one that changed its source.
Queued(c) == \E h \in Handlers : op[h].pc = "lock" /\ c \in op[h].todo
QueuedChange(c) == \E h \in Handlers : op[h].pc = "lock" /\ c \in op[h].todo /\ op[h].invalidate

Unpublished(c) == \E h \in Handlers : c \in Pending(h)

\* h will retire the session of c.
Retires(h, c) ==
  \/ op[h].pc \in {"after", "upstreams"} /\ c = op[h].c /\ op[h].before # Source(rows[c])
  \/ op[h].pc = "saved" /\ c \in op[h].todo
  \/ op[h].pc \in {"lock", "load"} /\ c \in op[h].todo /\ op[h].invalidate
  \/ op[h].pc = "publish" /\ (c = op[h].c \/ c \in op[h].todo) /\ op[h].invalidate
  \/ op[h].pc = "block" /\ c \in op[h].todo

Retiring(c) == \E h \in Handlers : Retires(h, c)

Blocking(c) == \E h \in Handlers : op[h].pc = "block" /\ c \in op[h].remove

ShapeInv ==
  /\ TypeOK
  /\ clock \in 1..MaxRev
  /\ mu \in Handlers \cup {None}
  /\ op \in [Handlers -> Ops]
  /\ viewer \in [Viewers -> Views]
  /\ owed \subseteq Channels

\* Revisions are never in the future.  An id not given out yet is unknown to the
\* manager and to every request.
ClockInv ==
  /\ \A c \in Channels : rows[c] # None => rows[c].rev <= clock
  /\ \A v \in Viewers, c \in Channels : Holds(v, c) => viewer[v].row.rev <= clock

UsedInv ==
  \A c \in Channels \ used :
    /\ revisions[c] = 0 /\ c \notin blocked /\ sessions[c] = None
    /\ \A v \in Viewers : ~Holds(v, c)
    /\ \A h \in Handlers : op[h].pc = "block" => c \notin op[h].remove

\* What a request under channelMu has read is current, or an import has changed
\* it since and is queued.
HolderInv ==
  \A h \in Handlers :
    /\ op[h].pc \in {"commit", "after", "upstreams", "publish"} => rows[op[h].c] # None
    /\ op[h].pc = "commit" => op[h].before = Source(rows[op[h].c]) \/ QueuedChange(op[h].c)
    /\ op[h].pc = "upstreams" => op[h].transcode = rows[op[h].c].transcode
    /\ op[h].pc \in {"upstreams", "publish"} =>
         /\ op[h].rev = rows[op[h].c].rev \/ Queued(op[h].c)
         /\ \A v \in Viewers : Holds(v, op[h].c) /\ viewer[v].row.rev = op[h].rev =>
              Source(viewer[v].row) = Source(rows[op[h].c]) \/ QueuedChange(op[h].c)
    /\ op[h].pc = "block" => \A c \in op[h].remove : rows[c] = None

\* A viewer that read the current revision read the current row.
ViewerInv ==
  \A v \in Viewers, c \in Channels :
    Holds(v, c) /\ rows[c] # None /\ viewer[v].row.rev = rows[c].rev => viewer[v].row = rows[c]

\* A removed channel that nobody has still to block.
GoneInv ==
  \A c \in Channels \ owed : rows[c] = None /\ ~Blocking(c) =>
    /\ sessions[c] = None
    /\ \A v \in Viewers : Holds(v, c) => c \in blocked

\* A channel that nobody has still to publish.
RevisionInv ==
  \A c \in Channels \ owed : rows[c] # None /\ ~Unpublished(c) =>
    /\ revisions[c] \in {0, rows[c].rev}
    /\ c \notin blocked
    /\ \A v \in Viewers : Holds(v, c) => rows[c].rev \in {viewer[v].row.rev, revisions[c]}

\* A channel whose session nobody has still to retire: the session is of the
\* current source, and so is one that a viewer would start.
SourceInv ==
  \A c \in Channels \ owed : rows[c] # None /\ ~Retiring(c) =>
    /\ sessions[c] \in {None, <<c, Source(rows[c])>>}
    /\ \A v \in Viewers : Holds(v, c) =>
         \/ Source(viewer[v].row) = Source(rows[c])
         \/ revisions[c] \notin {0, viewer[v].row.rev}
         \/ c \in blocked

PublishInv ==
  /\ ShapeInv /\ ClockInv /\ UsedInv /\ HolderInv
  /\ ViewerInv /\ GoneInv /\ RevisionInv /\ SourceInv

=============================================================================
