--------------------------- MODULE StreamManager ---------------------------
(***************************************************************************)
(* The live-stream manager (internal/core/stream): one shared upstream     *)
(* session per channel, viewers that join and leave it, and the calls that *)
(* tear sessions down (PublishChannel, BlockChannel, ApplyProfile, Close). *)
(*                                                                         *)
(* Threads: every session has its run goroutine; a client is the goroutine *)
(* of one viewer request inside Manager.Subscribe or viewerReader; an      *)
(* admin is a goroutine inside one of the tear-down calls.  Everything the *)
(* manager does under m.mu is one step, except that Subscribe is two: a    *)
(* session's stop() does not take m.mu, so it can run between Subscribe's  *)
(* isStopped test and its addViewer call.  stop() is three steps: the      *)
(* atomic swap, the section under s.mu, and failReady.                     *)
(*                                                                         *)
(* Upstream bytes, the walk over upstream candidates and timers are        *)
(* abstracted to their effect on the session: an attempt delivers media,   *)
(* fails, or is cut off (by its context, or by the readiness watchdog).    *)
(***************************************************************************)
EXTENDS Integers, FiniteSets

CONSTANTS
  Channels,    \* channel ids
  Revisions,   \* values of a channel's updated_at
  NoRev,       \* "" : no revision given or recorded
  Profiles,    \* transcoder profiles
  Sources,     \* what a subscription asks for: [transcode, walk, budget]
  Clients,     \* viewer requests
  Admins,      \* goroutines inside a tear-down call
  Sessions,    \* session objects
  None,
  MaxEpoch,    \* bound on the per-channel epoch counter
  MaxBudget    \* bound on an attempt budget

\* A source that does not walk has one candidate, hence a budget of one attempt.
ASSUME ConstantsAssumption ==
  /\ NoRev \notin Revisions
  /\ None \notin Sessions \cup Clients
  /\ MaxEpoch \in Nat
  /\ MaxBudget \in Nat
  /\ Sources \subseteq [transcode : BOOLEAN, walk : BOOLEAN, budget : 1..MaxBudget]
  /\ \A src \in Sources : ~src.walk => src.budget = 1
  /\ Clients \cap Admins = {}
  /\ Clients \cap Sessions = {}
  /\ Admins \cap Sessions = {}

VARIABLES
  \* the manager's fields, guarded by m.mu
  closed, profile, revisions, blocked, sticky, epochs, sessions,
  mu,         \* the client that holds m.mu between the two steps of Subscribe
  \* the fields of each session; "made" holds those newSession fixes, "errored"
  \* the sessions whose state field is "error" (the other states are for display)
  made, stopped, viewers, ready, errored, ctxDone, timedOut, attempts,
  run,        \* where the run goroutine of each session is
  fin,        \* the state finishStatus captured
  \* threads
  stop,       \* the stop() call each thread is in: its next step, its session
  client,     \* where each client is and the session it is attached to
  admin,      \* the sessions each admin has to stop, and those it waits for
  retired     \* history: the sessions that retireSession detached

managerVars == <<closed, profile, revisions, blocked, sticky, epochs, sessions, mu>>
sessionVars == <<made, stopped, viewers, ready, errored, ctxDone, timedOut, attempts, run, fin>>
threadVars  == <<stop, client, admin, retired>>
vars == <<managerVars, sessionVars, threadVars>>

Threads == Clients \cup Admins \cup Sessions
MaybeSession == Sessions \cup {None}
MaybeRevision == Revisions \cup {NoRev}

Made == [channel : Channels, epoch : 0..MaxEpoch, src : Sources, profile : Profiles]

RunPC == {"new", "loop", "begin", "read", "backoff", "exit", "stopping", "remember", "done"}

Pumping == {"loop", "begin", "read", "backoff"}

StopState == [pc : {"none", "mark", "detach", "unblock"}, s : MaybeSession]
ClientState == [pc : {"out", "adding", "waiting", "reading"}, s : MaybeSession,
                stale : MaybeSession]
AdminState == [todo : SUBSET Sessions, wait : SUBSET Sessions]

NotStopping == [pc |-> "none", s |-> None]
Outside == [pc |-> "out", s |-> None, stale |-> None]
NotWaiting == [todo |-> {}, wait |-> {}]

Init ==
  /\ closed = FALSE
  /\ profile \in Profiles
  /\ revisions = [c \in Channels |-> NoRev]
  /\ blocked = {}
  /\ sticky = [c \in Channels |-> None]
  /\ epochs = [c \in Channels |-> 0]
  /\ sessions = [c \in Channels |-> None]
  /\ mu = None
  /\ made = [s \in Sessions |-> None]
  /\ stopped = {}
  /\ viewers = [s \in Sessions |-> {}]
  /\ ready = [s \in Sessions |-> "no"]
  /\ errored = {}
  /\ ctxDone = {}
  /\ timedOut = {}
  /\ attempts = [s \in Sessions |-> 0]
  /\ run = [s \in Sessions |-> "new"]
  /\ fin = [s \in Sessions |-> "none"]
  /\ stop = [t \in Threads |-> NotStopping]
  /\ client = [v \in Clients |-> Outside]
  /\ admin = [a \in Admins |-> NotWaiting]
  /\ retired = {}

-----------------------------------------------------------------------------
(***************************************************************************)
(* session.stop(): called by a run goroutine on its own session, by a      *)
(* client on the session its subscription replaced, and by an admin on     *)
(* each session it retired.                                                *)
(***************************************************************************)

\* pumpCancel: ends the context of the attempt in progress, if there is one.
CancelPump(s) == ctxDone' = IF run[s] = "read" THEN ctxDone \cup {s} ELSE ctxDone

StartStop(t, s) == stop' = [stop EXCEPT ![t] = [pc |-> "mark", s |-> s]]

\* Another thread already swapped the flag: stop() returns at once, even if
\* that thread has not yet closed the viewers.
StopAlready(t) ==
  /\ stop[t].pc = "mark"
  /\ stop[t].s \in stopped
  /\ stop' = [stop EXCEPT ![t] = NotStopping]
  /\ UNCHANGED <<managerVars, sessionVars, client, admin, retired>>

StopMark(t) ==
  /\ stop[t].pc = "mark"
  /\ stop[t].s \notin stopped
  /\ stopped' = stopped \cup {stop[t].s}
  /\ stop' = [stop EXCEPT ![t].pc = "detach"]
  /\ UNCHANGED <<managerVars, made, viewers, ready, errored, ctxDone, timedOut, attempts, run, fin,
                 client, admin, retired>>

StopDetach(t) ==
  LET s == stop[t].s IN
  /\ stop[t].pc = "detach"
  /\ viewers' = [viewers EXCEPT ![s] = {}]
  /\ errored' = errored \ {s}
  /\ CancelPump(s)
  /\ stop' = [stop EXCEPT ![t].pc = "unblock"]
  /\ UNCHANGED <<managerVars, made, stopped, ready, timedOut, attempts, run, fin, client, admin, retired>>

\* Mutant: the waiters are not told.
FailReadySilently(s, verdict) == UNCHANGED <<ready, errored>>

\* failReady under readyOnce: the first verdict on readiness is final.
FailReady(s, verdict) ==
  IF ready[s] = "no"
    THEN /\ ready' = [ready EXCEPT ![s] = verdict]
         /\ errored' = errored \cup {s}
    ELSE UNCHANGED <<ready, errored>>

StopUnblock(t) ==
  /\ stop[t].pc = "unblock"
  /\ FailReady(stop[t].s, "stopped")
  /\ stop' = [stop EXCEPT ![t] = NotStopping]
  /\ UNCHANGED <<managerVars, made, stopped, viewers, ctxDone, timedOut, attempts, run, fin,
                 client, admin, retired>>

StopStep(t) == StopAlready(t) \/ StopMark(t) \/ StopDetach(t) \/ StopUnblock(t)

-----------------------------------------------------------------------------
(***************************************************************************)
(* Manager.Subscribe and viewerReader.  The calls it refuses (ErrClosed,   *)
(* ErrChannelBlocked, ErrStaleRevision) change nothing.                    *)
(***************************************************************************)

\* Mutant: Subscribe does not look at the blocked channels.
AdmittedThoughBlocked(v, c, rev) ==
  client[v].pc = "out" /\ mu = None /\ ~closed /\ (rev = NoRev \/ revisions[c] \in {NoRev, rev})

Admitted(v, c, rev) ==
  /\ client[v].pc = "out"
  /\ mu = None
  /\ ~closed
  /\ c \notin blocked
  /\ rev = NoRev \/ revisions[c] \in {NoRev, rev}

\* Mutant: a caller without revision erases the one on record.
RecordAnyRevision(c, rev) == revisions' = [revisions EXCEPT ![c] = rev]

RecordRevision(c, rev) ==
  revisions' = IF rev = NoRev THEN revisions ELSE [revisions EXCEPT ![c] = rev]

\* Mutant: the replaced session is forgotten.
AttachForgetsStale(v, s, stale) ==
  /\ mu' = v
  /\ client' = [client EXCEPT ![v] = [pc |-> "adding", s |-> s, stale |-> None]]

Attach(v, s, stale) ==
  /\ mu' = v
  /\ client' = [client EXCEPT ![v] = [pc |-> "adding", s |-> s, stale |-> stale]]

\* Mutant: the error of the previous session stays.
StartSessionKeepsError(s, c, src, epoch) ==
  /\ run[s] = "new"
  /\ run' = [run EXCEPT ![s] = "loop"]
  /\ made' = [made EXCEPT ![s] = [channel |-> c, epoch |-> epoch, src |-> src,
                                  profile |-> profile]]
  /\ epochs' = [epochs EXCEPT ![c] = epoch]
  /\ sessions' = [sessions EXCEPT ![c] = s]
  /\ UNCHANGED sticky

\* startSession, on a session object not used before.
StartSession(s, c, src, epoch) ==
  /\ run[s] = "new"
  /\ run' = [run EXCEPT ![s] = "loop"]
  /\ made' = [made EXCEPT ![s] = [channel |-> c, epoch |-> epoch, src |-> src,
                                  profile |-> profile]]
  /\ sticky' = [sticky EXCEPT ![c] = None]
  /\ epochs' = [epochs EXCEPT ![c] = epoch]
  /\ sessions' = [sessions EXCEPT ![c] = s]

\* The channel has a session of the wanted kind.
SubscribeJoin(v, c, rev, src) ==
  /\ Admitted(v, c, rev)
  /\ sessions[c] # None
  /\ sessions[c] \notin stopped
  /\ made[sessions[c]].src.transcode = src.transcode
  /\ RecordRevision(c, rev)
  /\ Attach(v, sessions[c], None)
  /\ UNCHANGED <<closed, profile, blocked, sticky, epochs, sessions, sessionVars,
                 stop, admin, retired>>

\* The channel has no session, or a stopped one that is dropped from the map.
SubscribeStart(v, c, rev, src, s) ==
  /\ Admitted(v, c, rev)
  /\ sessions[c] = None \/ sessions[c] \in stopped
  /\ epochs[c] + 1 <= MaxEpoch
  /\ RecordRevision(c, rev)
  /\ StartSession(s, c, src, epochs[c] + 1)
  /\ Attach(v, s, None)
  /\ UNCHANGED <<closed, profile, blocked, stopped, viewers, ready, errored, ctxDone,
                 timedOut, attempts, fin, stop, admin, retired>>

\* The channel's session transcodes and should not, or the other way round:
\* it is retired, and stopped once m.mu is released.
SubscribeReplace(v, c, rev, src, s) ==
  /\ Admitted(v, c, rev)
  /\ sessions[c] # None
  /\ sessions[c] \notin stopped
  /\ made[sessions[c]].src.transcode # src.transcode
  /\ epochs[c] + 2 <= MaxEpoch
  /\ RecordRevision(c, rev)
  /\ StartSession(s, c, src, epochs[c] + 2)
  /\ Attach(v, s, sessions[c])
  /\ retired' = retired \cup {sessions[c]}
  /\ UNCHANGED <<closed, profile, blocked, stopped, viewers, ready, errored, ctxDone,
                 timedOut, attempts, fin, stop, admin>>

\* addViewer, then m.mu is released and the replaced session is stopped.
SubscribeAdd(v) ==
  LET s == client[v].s IN
  /\ client[v].pc = "adding"
  /\ viewers' = [viewers EXCEPT ![s] = @ \cup {v}]
  /\ mu' = None
  /\ IF client[v].stale = None THEN UNCHANGED stop ELSE StartStop(v, client[v].stale)
  /\ client' = [client EXCEPT ![v] = [pc |-> "waiting", s |-> s, stale |-> None]]
  /\ UNCHANGED <<closed, profile, revisions, blocked, sticky, epochs, sessions, made, stopped,
                 ready, errored, ctxDone, timedOut, attempts, run, fin, admin, retired>>

\* waitReady returns nil.
SubscribeReady(v) ==
  /\ client[v].pc = "waiting"
  /\ stop[v].pc = "none"
  /\ ready[client[v].s] = "yes"
  /\ client' = [client EXCEPT ![v].pc = "reading"]
  /\ UNCHANGED <<managerVars, sessionVars, stop, admin, retired>>

\* removeViewer: whoever finds the session empty idles it and cancels its pump.
RemoveViewer(v) ==
  LET s == client[v].s
      left == viewers[s] \ {v} IN
  /\ viewers' = [viewers EXCEPT ![s] = left]
  /\ errored' = IF left = {} THEN errored \ {s} ELSE errored
  /\ IF left = {} THEN CancelPump(s) ELSE UNCHANGED ctxDone
  /\ client' = [client EXCEPT ![v] = Outside]
  /\ UNCHANGED <<managerVars, made, stopped, ready, timedOut, attempts, run, fin, stop, admin, retired>>

\* waitReady returns the session's readiness error.
SubscribeFailed(v) ==
  /\ client[v].pc = "waiting"
  /\ stop[v].pc = "none"
  /\ ready[client[v].s] \in {"failed", "stopped"}
  /\ RemoveViewer(v)

\* The viewer's channel was closed and is drained.
ReaderEOF(v) ==
  /\ client[v].pc = "reading"
  /\ v \notin viewers[client[v].s]
  /\ RemoveViewer(v)

\* The request's context ends, or a write to the viewer fails.
ClientGone(v) ==
  /\ client[v].pc \in {"waiting", "reading"}
  /\ stop[v].pc = "none"
  /\ RemoveViewer(v)

-----------------------------------------------------------------------------
(***************************************************************************)
(* Tear-down: sessions are retired under m.mu, then stopped one by one,    *)
(* then waited for until they are done or the caller's context ends.       *)
(***************************************************************************)

Free(a) == mu = None /\ admin[a] = NotWaiting /\ stop[a].pc = "none"

\* retireSession on every channel of cs.
Retire(a, cs) ==
  LET stale == {sessions[c] : c \in cs} \ {None} IN
  /\ \A c \in cs : epochs[c] + 1 <= MaxEpoch
  /\ sticky' = [c \in Channels |-> IF c \in cs THEN None ELSE sticky[c]]
  /\ epochs' = [c \in Channels |-> IF c \in cs THEN epochs[c] + 1 ELSE epochs[c]]
  /\ sessions' = [c \in Channels |-> IF c \in cs THEN None ELSE sessions[c]]
  /\ retired' = retired \cup stale
  /\ admin' = [admin EXCEPT ![a] = [todo |-> stale, wait |-> stale]]

PublishChannel(a, c, rev, invalidate) ==
  /\ Free(a)
  /\ blocked' = blocked \ {c}
  /\ RecordRevision(c, rev)
  /\ Retire(a, IF invalidate THEN {c} ELSE {})
  /\ UNCHANGED <<closed, profile, mu, sessionVars, stop, client>>

BlockChannel(a, c) ==
  /\ Free(a)
  /\ blocked' = blocked \cup {c}
  /\ revisions' = [revisions EXCEPT ![c] = NoRev]
  /\ Retire(a, {c})
  /\ UNCHANGED <<closed, profile, mu, sessionVars, stop, client>>

\* Mutant: running transcoders are left alone.
ApplyProfileToNewOnly(a, p) ==
  /\ Free(a)
  /\ profile' = p
  /\ Retire(a, {})
  /\ UNCHANGED <<closed, revisions, blocked, mu, sessionVars, stop, client>>

ApplyProfile(a, p) ==
  /\ Free(a)
  /\ profile' = p
  /\ Retire(a, {c \in Channels : sessions[c] # None /\ made[sessions[c]].src.transcode})
  /\ UNCHANGED <<closed, revisions, blocked, mu, sessionVars, stop, client>>

Close(a) ==
  /\ Free(a)
  /\ closed' = TRUE
  /\ Retire(a, {c \in Channels : sessions[c] # None})
  /\ UNCHANGED <<profile, revisions, blocked, mu, sessionVars, stop, client>>

AdminStop(a, s) ==
  /\ stop[a].pc = "none"
  /\ s \in admin[a].todo
  /\ StartStop(a, s)
  /\ admin' = [admin EXCEPT ![a].todo = @ \ {s}]
  /\ UNCHANGED <<managerVars, sessionVars, client, retired>>

AdminReturn(a) ==
  /\ stop[a].pc = "none"
  /\ admin[a].todo = {}
  /\ admin[a].wait # {}
  /\ admin' = [admin EXCEPT ![a].wait = {}]
  /\ UNCHANGED <<managerVars, sessionVars, stop, client, retired>>

\* waitDone succeeds for every session.
AdminDone(a) == AdminReturn(a) /\ \A s \in admin[a].wait : run[s] = "done"

\* waitDone gives up because the caller's context ended.
AdminTimeout(a) == AdminReturn(a) /\ \E s \in admin[a].wait : run[s] # "done"

-----------------------------------------------------------------------------
(***************************************************************************)
(* session.run and what it calls.  "loop" is the head of its loop, "read"  *)
(* an attempt on the upstream, "backoff" the pause of handlePumpError.     *)
(***************************************************************************)

Goto(s, pc) == run' = [run EXCEPT ![s] = pc]

\* A step that only moves the run goroutine.
Jump(s, from, to) ==
  /\ run[s] = from
  /\ Goto(s, to)
  /\ UNCHANGED <<managerVars, made, stopped, viewers, ready, errored, ctxDone, timedOut,
                 attempts, fin, threadVars>>

\* Waiting for viewers: stopCh is closed, or the idle timer fires.
RunIdleStop(s) == viewers[s] = {} /\ s \in stopped /\ Jump(s, "loop", "exit")

RunIdleTimeout(s) == viewers[s] = {} /\ Jump(s, "loop", "exit")

\* run has seen a viewer and calls pumpOnce; nothing can be cancelled yet, so a
\* viewer that leaves now leaves the attempt without one.
RunPumps(s) == viewers[s] # {} /\ Jump(s, "loop", "begin")

\* beginPump installs a fresh context, armReadyWatch a fresh watchdog; the pump
\* sets "connecting".
BeginPump(s) ==
  /\ run[s] = "begin"
  /\ errored' = errored \ {s}
  /\ Goto(s, "read")
  /\ UNCHANGED <<managerVars, made, stopped, viewers, ready, ctxDone, timedOut, attempts, fin,
                 threadVars>>

\* The watchdog of an attempt: it notes the timeout and cancels the attempt.
\* Media may still arrive and make the session ready before the attempt ends.
WatchFires(s) ==
  /\ run[s] = "read"
  /\ ready[s] # "yes"
  /\ s \notin stopped
  /\ timedOut' = timedOut \cup {s}
  /\ ctxDone' = ctxDone \cup {s}
  /\ UNCHANGED <<managerVars, made, stopped, viewers, ready, errored, attempts, run, fin, threadVars>>

\* broadcast: viewers whose queue is full are dropped, and whoever drops the last
\* one cancels the attempt.
Broadcast(s, slow) ==
  /\ slow \subseteq viewers[s]
  /\ viewers' = [viewers EXCEPT ![s] = @ \ slow]
  /\ ctxDone' = IF viewers[s] \subseteq slow THEN ctxDone \cup {s} ELSE ctxDone

\* Media arrives: broadcast, setState("streaming"), markReady.  Data that a
\* cancelled read had already returned is still delivered.
PumpMedia(s, slow) ==
  /\ run[s] = "read"
  /\ Broadcast(s, slow)
  /\ errored' = errored \ {s}
  /\ ready' = [ready EXCEPT ![s] = IF @ = "no" THEN "yes" ELSE @]
  /\ UNCHANGED <<managerVars, made, stopped, timedOut, attempts, run, fin, threadVars>>

\* pumpOnce returns: the attempt's context and watchdog are gone.
EndPump(s, pc) ==
  /\ Goto(s, pc)
  /\ ctxDone' = ctxDone \ {s}
  /\ timedOut' = timedOut \ {s}

\* Mutant: beginPump does not watch stopCh.
CutByCancelOnly(s) == s \in ctxDone

\* Nothing but a cancelled context makes a blocked read return; an attempt that
\* lost its viewers without being cancelled notices at its next read.
Cut(s) == s \in stopped \cup ctxDone \/ viewers[s] = {}

\* classifyPumpErr turns the end of an attempt that timed out into an error.
TimedOut(s) == s \in timedOut /\ ready[s] # "yes" /\ s \notin stopped /\ viewers[s] # {}

\* The attempt is cut off and returns nil; run looks at the stopped flag.
PumpCut(s) ==
  /\ run[s] = "read"
  /\ Cut(s)
  /\ ~TimedOut(s)
  /\ EndPump(s, IF s \in stopped THEN "exit" ELSE "loop")
  /\ UNCHANGED <<managerVars, made, stopped, viewers, ready, errored, attempts, fin, threadVars>>

\* The attempt fails (before readiness also with ErrReadyTimeout) and somebody
\* still watches: handlePumpError decides.
Fails(s) == run[s] = "read" /\ s \notin stopped /\ viewers[s] # {}

\* Mutant: one attempt too many.
RetryOnceMore(s) ==
  /\ Fails(s)
  /\ ready[s] # "yes"
  /\ made[s].src.walk
  /\ attempts[s] < made[s].src.budget + 1
  /\ attempts' = [attempts EXCEPT ![s] = @ + 1]
  /\ EndPump(s, "loop")
  /\ UNCHANGED <<managerVars, made, stopped, viewers, ready, errored, fin, threadVars>>

RetryBeforeReady(s) ==
  /\ Fails(s)
  /\ ready[s] # "yes"
  /\ made[s].src.walk
  /\ attempts[s] + 1 < made[s].src.budget
  /\ attempts' = [attempts EXCEPT ![s] = @ + 1]
  /\ EndPump(s, "loop")
  /\ UNCHANGED <<managerVars, made, stopped, viewers, ready, errored, fin, threadVars>>

FailBeforeReady(s) ==
  /\ Fails(s)
  /\ ready[s] # "yes"
  /\ made[s].src.walk => attempts[s] + 1 >= made[s].src.budget
  /\ attempts' = IF made[s].src.walk THEN [attempts EXCEPT ![s] = @ + 1] ELSE attempts
  /\ FailReady(s, "failed")
  /\ EndPump(s, "exit")
  /\ UNCHANGED <<managerVars, made, stopped, viewers, fin, threadVars>>

\* After readiness a finished playlist ends the session when there is nothing
\* to walk to; anything else is retried after a backoff.
StreamEnded(s) ==
  /\ Fails(s)
  /\ ready[s] = "yes"
  /\ ~made[s].src.walk
  /\ EndPump(s, "exit")
  /\ UNCHANGED <<managerVars, made, stopped, viewers, ready, errored, attempts, fin, threadVars>>

BackOff(s) ==
  /\ Fails(s)
  /\ ready[s] = "yes"
  /\ errored' = errored \cup {s}
  /\ EndPump(s, "backoff")
  /\ UNCHANGED <<managerVars, made, stopped, viewers, ready, attempts, fin, threadVars>>

BackoffStop(s) == s \in stopped /\ Jump(s, "backoff", "exit")

BackoffOver(s) == Jump(s, "backoff", "loop")

\* The deferred function of run: failReady, finishStatus, then stop().
RunExit(s) ==
  /\ run[s] = "exit"
  /\ FailReady(s, "failed")
  /\ fin' = [fin EXCEPT ![s] =
       IF ready'[s] # "stopped" /\ (ready'[s] = "failed" \/ s \in errored')
         THEN "error" ELSE "idle"]
  /\ StartStop(s, s)
  /\ Goto(s, "stopping")
  /\ UNCHANGED <<managerVars, made, stopped, viewers, ctxDone, timedOut, attempts, client, admin, retired>>

\* Mutant: whatever session the channel has is removed.
RemoveAnySession(s) ==
  /\ run[s] = "stopping"
  /\ stop[s].pc = "none"
  /\ mu = None
  /\ sessions' = [sessions EXCEPT ![made[s].channel] = None]
  /\ Goto(s, "remember")
  /\ UNCHANGED <<closed, profile, revisions, blocked, sticky, epochs, mu, made, stopped, viewers,
                 ready, errored, ctxDone, timedOut, attempts, fin, threadVars>>

\* onIdle = removeSession
RemoveSession(s) ==
  /\ run[s] = "stopping"
  /\ stop[s].pc = "none"
  /\ mu = None
  /\ sessions' = [sessions EXCEPT ![made[s].channel] = IF @ = s THEN None ELSE @]
  /\ Goto(s, "remember")
  /\ UNCHANGED <<closed, profile, revisions, blocked, sticky, epochs, mu, made, stopped, viewers,
                 ready, errored, ctxDone, timedOut, attempts, fin, threadVars>>

\* onFinish = rememberFinish; then doneCh is closed.
RememberFinish(s) ==
  LET c == made[s].channel IN
  /\ run[s] = "remember"
  /\ mu = None
  /\ sticky' = IF epochs[c] = made[s].epoch /\ sessions[c] = None
                 THEN [sticky EXCEPT ![c] = IF fin[s] = "error" THEN s ELSE None]
                 ELSE sticky
  /\ Goto(s, "done")
  /\ UNCHANGED <<closed, profile, revisions, blocked, epochs, sessions, mu, made, stopped, viewers,
                 ready, errored, ctxDone, timedOut, attempts, fin, threadVars>>

-----------------------------------------------------------------------------
ClientStep(v) ==
  \/ \E c \in Channels, rev \in MaybeRevision, src \in Sources :
       \/ SubscribeJoin(v, c, rev, src)
       \/ \E s \in Sessions : SubscribeStart(v, c, rev, src, s)
       \/ \E s \in Sessions : SubscribeReplace(v, c, rev, src, s)
  \/ SubscribeAdd(v)
  \/ SubscribeReady(v)
  \/ SubscribeFailed(v)
  \/ ReaderEOF(v)
  \/ ClientGone(v)

AdminStep(a) ==
  \/ \E c \in Channels, rev \in MaybeRevision, invalidate \in BOOLEAN :
       PublishChannel(a, c, rev, invalidate)
  \/ \E c \in Channels : BlockChannel(a, c)
  \/ \E p \in Profiles : ApplyProfile(a, p)
  \/ Close(a)
  \/ \E s \in Sessions : AdminStop(a, s)
  \/ AdminDone(a)
  \/ AdminTimeout(a)

RunStep(s) ==
  \/ RunIdleStop(s)
  \/ RunIdleTimeout(s)
  \/ RunPumps(s)
  \/ BeginPump(s)
  \/ WatchFires(s)
  \/ PumpCut(s)
  \/ \E slow \in SUBSET Clients : PumpMedia(s, slow)
  \/ RetryBeforeReady(s)
  \/ FailBeforeReady(s)
  \/ StreamEnded(s)
  \/ BackOff(s)
  \/ BackoffStop(s)
  \/ BackoffOver(s)
  \/ RunExit(s)
  \/ RemoveSession(s)
  \/ RememberFinish(s)

Next ==
  \/ \E v \in Clients : ClientStep(v)
  \/ \E a \in Admins : AdminStep(a)
  \/ \E s \in Sessions : RunStep(s)
  \/ \E t \in Threads : StopStep(t)

(***************************************************************************)
(* Fairness: a runnable goroutine runs, the watchdog of an attempt that is *)
(* not ready fires, a cancelled attempt returns, a backoff ends.  Nothing  *)
(* is assumed of clients (they may stay for ever), of admins (no call need *)
(* be made) or of upstreams (a read that is not cancelled may block for    *)
(* ever, with or without viewers).                                         *)
(***************************************************************************)
RunMoves(s) ==
  \/ RunIdleStop(s) \/ RunPumps(s) \/ BeginPump(s) \/ BackoffStop(s) \/ BackoffOver(s) \/ RunExit(s)
  \/ s \notin timedOut /\ WatchFires(s)
  \/ s \in stopped \cup ctxDone /\ PumpCut(s)
  \/ s \in timedOut /\ (RetryBeforeReady(s) \/ FailBeforeReady(s))

Fairness ==
  /\ \A s \in Sessions :
       /\ WF_vars(RunMoves(s))
       /\ SF_vars(RemoveSession(s))
       /\ SF_vars(RememberFinish(s))
  /\ \A t \in Threads : WF_vars(StopStep(t))
  /\ \A v \in Clients :
       WF_vars(SubscribeAdd(v) \/ SubscribeReady(v) \/ SubscribeFailed(v) \/ ReaderEOF(v))
  /\ \A a \in Admins : WF_vars((\E s \in Sessions : AdminStop(a, s)) \/ AdminDone(a))

Spec == Init /\ [][Next]_vars

FairSpec == Spec /\ Fairness

-----------------------------------------------------------------------------
(***************************************************************************)
(* Properties                                                              *)
(***************************************************************************)

TypeOK ==
  /\ closed \in BOOLEAN
  /\ profile \in Profiles
  /\ revisions \in [Channels -> MaybeRevision]
  /\ blocked \subseteq Channels
  /\ sticky \in [Channels -> MaybeSession]
  /\ epochs \in [Channels -> 0..MaxEpoch]
  /\ sessions \in [Channels -> MaybeSession]
  /\ mu \in Clients \cup {None}
  /\ made \in [Sessions -> Made \cup {None}]
  /\ stopped \subseteq Sessions
  /\ viewers \in [Sessions -> SUBSET Clients]
  /\ ready \in [Sessions -> {"no", "yes", "failed", "stopped"}]
  /\ errored \subseteq Sessions
  /\ ctxDone \subseteq Sessions
  /\ timedOut \subseteq Sessions
  /\ attempts \in [Sessions -> 0..MaxBudget]
  /\ run \in [Sessions -> RunPC]
  /\ fin \in [Sessions -> {"none", "idle", "error"}]
  /\ stop \in [Threads -> StopState]
  /\ client \in [Clients -> ClientState]
  /\ admin \in [Admins -> AdminState]
  /\ retired \subseteq Sessions

\* Manager.Status shows a leftover ("sticky") error only of a session that
\* ended by itself and is the newest its channel ever had: never of one that
\* an update, a delete, a profile change or a shutdown tore down, whichever
\* way its finish races the tear-down and the sessions started after it.
StickyIsNewestFailure ==
  \A c \in Channels : sticky[c] # None =>
    /\ sticky[c] \notin retired
    /\ \A s \in Sessions : run[s] # "new" /\ made[s].channel = c /\ s # sticky[c] =>
         made[s].epoch < made[sticky[c]].epoch

\* Whoever will stop session s: a thread that holds it in its hands.
Condemned(s) ==
  \/ \E t \in Threads : stop[t].pc # "none" /\ stop[t].s = s
  \/ \E v \in Clients : client[v].stale = s
  \/ \E a \in Admins : s \in admin[a].todo

\* No session is lost: one whose goroutine still pumps is either the one the
\* manager hands to new viewers, or stopped, or some thread is about to stop
\* it.  (A lost one would pull its upstream until the process ends.)
NoLeakedSession ==
  \A s \in Sessions :
    run[s] \in Pumping =>
      \/ sessions[made[s].channel] = s
      \/ s \in stopped
      \/ Condemned(s)

\* A deleted channel, and every channel once the manager is closed, has no
\* session a new viewer could join, although Subscribe calls race BlockChannel
\* and Close.
RefusedHasNoSession ==
  \A c \in Channels : closed \/ c \in blocked => sessions[c] = None

\* A transcoding session that viewers can join runs the installed profile:
\* ApplyProfile leaves no session of the old profile behind.
JoinableRunsProfile ==
  \A c \in Channels :
    sessions[c] # None /\ made[sessions[c]].src.transcode =>
      made[sessions[c]].profile = profile

\* A session leaves the manager's map only when it is stopped or deliberately
\* retired: the late removeSession of an older session never evicts a newer one.
EvictsOnlyDeadSessions ==
  [][\A c \in Channels :
       sessions[c] # None /\ sessions'[c] # sessions[c] =>
         sessions[c] \in stopped' \cup retired']_vars

\* What the comment of Subscribe promises: the reader it returned yields bytes
\* until the viewer's context is cancelled or the viewer is dropped.  A viewer
\* still attached to a session that has no goroutine, and that no thread is
\* stopping, is neither served nor dropped.
ReaderServedOrDropped ==
  \A v \in Clients :
    client[v].pc = "reading" /\ v \in viewers[client[v].s] =>
      run[client[v].s] # "done" \/ Condemned(client[v].s)

\* The manager keeps its promise to the handlers (LiveManager) under every
\* interleaving of Subscribe's two steps, tear-downs and sessions that end: only
\* an admitted Subscribe puts a session where viewers join it, never one that is
\* or was there; the revision a channel is served at changes only when one is
\* published or a first viewer brings it; a deleted channel is forgotten.
Live == INSTANCE LiveManager
          WITH closed <- closed, revisions <- revisions, blocked <- blocked, sessions <- sessions
ImplementsLiveManager == Live!LiveSpec

\* Whoever stops a session and whoever watches it, its waiting viewers get what
\* SessionAttempts promises: one verdict, which is not a failure while attempts
\* of its budget are left, unless the session ended for another reason.
Attempts(s) == INSTANCE SessionAttempts
                 WITH phase <- IF run[s] = "new" THEN "new"
                               ELSE IF run[s] \in Pumping THEN "on" ELSE "over",
                      left <- IF run[s] = "new" \/ ready[s] # "no" THEN 0
                              ELSE made[s].src.budget - attempts[s],
                      verdict <- ready[s]
ImplementsAttempts ==
  /\ \A s \in Sessions : Attempts(s)!New
  /\ [][\A s \in Sessions : [Attempts(s)!AttemptNext]_(Attempts(s)!attemptVars)]_vars

\* Subscribe never blocks for ever: every waiter learns that the session is
\* ready, failed or was stopped.
WaitersUnblocked ==
  \A v \in Clients : client[v].pc = "waiting" ~> client[v].pc # "waiting"

\* A session torn down ends, whatever its upstream does.
RetiredSessionEnds ==
  \A s \in Sessions : s \in retired ~> run[s] = "done"

-----------------------------------------------------------------------------
(***************************************************************************)
(* The inductive invariant behind the safety properties.                   *)
(***************************************************************************)

\* A started session has its fixed fields, and attempts left while it pumps.
MadeInv ==
  \A s \in Sessions : run[s] # "new" =>
    /\ made[s] \in Made
    /\ run[s] \in Pumping => attempts[s] < made[s].src.budget

FreshInv == \A s \in Sessions : run[s] = "new" => attempts[s] = 0

\* Epochs number the sessions of a channel in the order of their start, and a
\* retired one is behind the channel's counter.
EpochInv ==
  /\ \A s \in Sessions : run[s] # "new" => made[s].epoch <= epochs[made[s].channel]
  /\ \A s, t \in Sessions :
       /\ run[s] # "new"
       /\ run[t] # "new"
       /\ made[s].channel = made[t].channel
       /\ made[s].epoch = made[t].epoch
       => s = t
  /\ \A s \in retired : run[s] # "new" /\ made[s].epoch < epochs[made[s].channel]

\* s is the newest session of c and nobody retired it.
Newest(s, c) ==
  /\ run[s] # "new"
  /\ made[s].channel = c
  /\ made[s].epoch = epochs[c]

MapInv ==
  \A c \in Channels : sessions[c] # None =>
    Newest(sessions[c], c) /\ run[sessions[c]] \notin {"remember", "done"}

StickyInv ==
  \A c \in Channels : sticky[c] # None => Newest(sticky[c], c) /\ sessions[c] = None

\* What a stop() call in progress implies, per kind of thread.
StopInv ==
  /\ \A t \in Threads : stop[t].pc # "none" => stop[t].s \in Sessions
  /\ \A t \in Threads : stop[t].pc \in {"detach", "unblock"} => stop[t].s \in stopped
  /\ \A s \in Sessions : stop[s].pc # "none" => run[s] = "stopping" /\ stop[s].s = s
  /\ \A s \in Sessions : run[s] = "stopping" /\ stop[s].pc = "none" => s \in stopped
  /\ \A s \in Sessions : run[s] \in {"remember", "done"} => s \in stopped

ClientInv ==
  \A v \in Clients :
    /\ client[v].pc # "out" => client[v].s \in Sessions
    /\ client[v].pc # "adding" => client[v].stale = None
    /\ client[v].pc # "waiting" => stop[v].pc = "none"

\* What a client or an admin stops, now or soon, was retired first.
CondemnedInv ==
  /\ \A v \in Clients : client[v].stale # None => client[v].stale \in retired
  /\ \A a \in Admins : admin[a].todo \subseteq retired
  /\ \A t \in Clients \cup Admins : stop[t].pc # "none" => stop[t].s \in retired

\* What the verdict on readiness says about the session.
VerdictInv ==
  \A s \in Sessions :
    /\ run[s] = "new" => ready[s] = "no"
    /\ ready[s] = "stopped" => s \in stopped
    /\ ready[s] = "failed" => run[s] \notin Pumping

IInv ==
  /\ TypeOK
  /\ MadeInv
  /\ FreshInv
  /\ EpochInv
  /\ MapInv
  /\ StickyInv
  /\ StopInv
  /\ ClientInv
  /\ NoLeakedSession
  /\ RefusedHasNoSession
  /\ JoinableRunsProfile

=============================================================================
