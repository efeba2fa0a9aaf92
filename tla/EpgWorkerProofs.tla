-------------------------- MODULE EpgWorkerProofs --------------------------
(***************************************************************************)
(* The EPG worker never sleeps on queued work.  WakeInv says what a        *)
(* pending wake-up covers at each phase of a drain; every step keeps it    *)
(* for one of four reasons: it enqueues and wakes, it takes work, it       *)
(* leaves a phase whose queue is empty, or it touches neither the queues   *)
(* nor the phase.                                                          *)
(***************************************************************************)
EXTENDS EpgWorker, TLAPS

\* A step that changes neither the worker's phase nor what is queued for it.
LEMMA WakeFrame ==
  ASSUME WakeInv, UNCHANGED <<worker, wake, pendingSources, pendingRelays, pendingDeleteSources>>
  PROVE  WakeInv'
BY DEF WakeInv, Unserved

\* Enqueueing wakes the worker: whoever adds an item leaves a wake-up pending.
LEMMA WakeSources ==
  ASSUME WakeInv, NEW ss, EnqueueSources(ss), UNCHANGED worker
  PROVE  WakeInv'
<1>1. wake' \in BOOLEAN /\ (wake => wake')
  BY Zenon DEF EnqueueSources
<1>2. wake' \/ (pendingSources' = pendingSources /\ pendingRelays' = pendingRelays
                /\ pendingDeleteSources' = pendingDeleteSources)
  BY DEF EnqueueSources
<1> QED
  BY <1>1, <1>2 DEF WakeInv, Unserved

\* The same for rebuilds.
LEMMA WakeRelays ==
  ASSUME WakeInv, NEW rs, EnqueueRebuildRelays(rs), UNCHANGED worker
  PROVE  WakeInv'
<1>1. wake' \in BOOLEAN /\ (wake => wake')
  BY Zenon DEF EnqueueRebuildRelays
<1>2. wake' \/ (pendingSources' = pendingSources /\ pendingRelays' = pendingRelays
                /\ pendingDeleteSources' = pendingDeleteSources)
  BY DEF EnqueueRebuildRelays
<1> QED
  BY <1>1, <1>2 DEF WakeInv, Unserved

\* The same for purges.
LEMMA WakeDelete ==
  ASSUME WakeInv, NEW s, EnqueueDeleteSourceFiles(s), UNCHANGED worker
  PROVE  WakeInv'
<1>1. wake' \in BOOLEAN /\ (wake => wake')
  BY Zenon DEF EnqueueDeleteSourceFiles
<1>2. wake' \/ (pendingSources' = pendingSources /\ pendingRelays' = pendingRelays
                /\ pendingDeleteSources' = pendingDeleteSources)
  BY DEF EnqueueDeleteSourceFiles
<1> QED
  BY <1>1, <1>2 DEF WakeInv, Unserved

\* A step that takes an item: the pass has worked, so another one follows.
LEMMA WakeTook ==
  ASSUME WakeInv, NEW pc \in WorkerPC \ {"idle"}, Took(pc), wake' \in BOOLEAN
  PROVE  WakeInv'
BY DEF WakeInv, Took

\* A step in the middle of an item: the pass has worked already.
LEMMA WakeMoves ==
  ASSUME WakeInv, worker.pc \notin {"delete", "source", "relay", "cleanup", "idle"},
         NEW pc \in WorkerPC \ {"idle"}, Goto(pc), wake' \in BOOLEAN
  PROVE  WakeInv'
BY DEF WakeInv, Goto

\* A pass leaves a phase only when its queue is empty, and drain ends only
\* after a pass without work.
LEMMA WakePhases ==
  ASSUME WakeInv, DrainPhase
  PROVE  WakeInv'
<1>1. CASE PhaseOver("delete", pendingDeleteSources, [worker EXCEPT !.pc = "source"])
  BY <1>1 DEF PhaseOver, At, WakeInv, Unserved, WorkerPC, serviceVars, queueVars
<1>2. CASE PhaseOver("source", pendingSources, [worker EXCEPT !.pc = "relay"])
  BY <1>2 DEF PhaseOver, At, WakeInv, Unserved, WorkerPC, serviceVars, queueVars
<1>3. CASE PhaseOver("relay", pendingRelays, [worker EXCEPT !.pc = "cleanup"])
  BY <1>3 DEF PhaseOver, At, WakeInv, Unserved, WorkerPC, serviceVars, queueVars
<1>4. CASE PhaseOver("cleanup", ReadyCleanups,
             [pc |-> IF worker.worked THEN "delete" ELSE "idle", worked |-> FALSE])
  BY <1>4 DEF PhaseOver, At, WakeInv, Unserved, WorkerPC, serviceVars, queueVars
<1> QED
  BY <1>1, <1>2, <1>3, <1>4 DEF DrainPhase

\* The idle worker starts a drain.
LEMMA WakeStarts ==
  ASSUME WakeInv, WorkerWakes \/ TimerFires
  PROVE  WakeInv'
<1>1. wake' \in BOOLEAN
  BY Zenon DEF WorkerWakes, TimerFires, EnqueueSources
<1>2. worker.pc = "idle" /\ Goto("delete")
  BY DEF WorkerWakes, TimerFires, At
<1>3. worker' = [worker EXCEPT !.pc = "delete"]
  BY <1>2 DEF Goto
<1> QED
  BY <1>1, <1>2, <1>3 DEF WakeInv, Unserved, WorkerPC

\* Every step of the worker, the processing of one item included.
LEMMA WakeWorker ==
  ASSUME WakeInv, WorkerStep
  PROVE  WakeInv'
<1> USE DEF serviceVars, queueVars, At
<1>0. wake \in BOOLEAN
  BY DEF WakeInv
<1>1. ASSUME NEW s \in Sources, DeleteFiles(s) PROVE WakeInv'
  BY <1>0, <1>1, WakeTook DEF DeleteFiles, WorkerPC
<1>2. ASSUME NEW s \in Sources, TakeSource(s) PROVE WakeInv'
  BY <1>0, <1>2, WakeTook DEF TakeSource, WorkerPC
<1>3. CASE SourceMissing \/ SourceBackingOff \/ SourceRead
  BY <1>0, <1>3, WakeMoves DEF SourceMissing, SourceBackingOff, SourceRead, SourceDone, WorkerPC
<1>4. CASE FetchFails \/ FetchSource \/ DiscardStale \/ WriteGeneration
  BY <1>0, <1>4, WakeMoves
  DEF FetchFails, FetchSource, DiscardStale, WriteGeneration, SourceDone, WorkerPC
<1>5. CASE WriteSourceFails \/ Recheck \/ PublishManifest
  BY <1>0, <1>5, WakeMoves DEF WriteSourceFails, Recheck, PublishManifest, SourceDone, WorkerPC
<1>6. CASE MarkRefresh
  <2>1. wake' \in BOOLEAN
    BY <1>6, Zenon DEF MarkRefresh, EnqueueRebuildRelays
  <2> QED
    BY <1>6, <2>1, WakeMoves DEF MarkRefresh, SourceDone, WorkerPC
<1>7. ASSUME NEW r \in Relays, TakeRelay(r) PROVE WakeInv'
  <2>1. wake' \in BOOLEAN
    BY <1>0, <1>7 DEF TakeRelay
  <2>2. Took("merge") \/ Took("relay")
    BY <1>7 DEF TakeRelay
  <2> QED
    BY <2>1, <2>2, WakeTook DEF WorkerPC
<1>8. ASSUME NEW r \in Relays, TakeCleanup(r) PROVE WakeInv'
  BY <1>0, <1>8, WakeTook DEF TakeCleanup, WorkerPC
<1>9. ASSUME NEW sl \in Slugs, CleanupSlug(sl) PROVE WakeInv'
  BY <1>9, WakeFrame DEF CleanupSlug
<1>10. CASE CleanupDone
  BY <1>0, <1>10, WakeMoves DEF CleanupDone, WorkerPC
<1>11. CASE RelayIncomplete \/ RelayMerge \/ WriteRelayCache \/ WriteFails
  BY <1>0, <1>11, WakeMoves
  DEF RelayIncomplete, RelayMerge, WriteRelayCache, WriteFails, RelayDone, WorkerPC
<1> QED
  BY <1>1, <1>2, <1>3, <1>4, <1>5, <1>6, <1>7, <1>8, <1>9, <1>10, <1>11, WakePhases, WakeStarts
  DEF WorkerStep

\* Every commit leaves its derived work to be applied, or to be derived first.
LEMMA CommitCommits ==
  ASSUME NEW h \in Handlers, HandlerCommits(h)
  PROVE  (\E work : Commit(h, work)) \/ \E change : CommitFirst(h, change)
<1> DEFINE G == (\E work : Commit(h, work)) \/ \E change : CommitFirst(h, change)
<1>1. ASSUME NEW s \in Sources, NEW u \in URLs, NEW on \in BOOLEAN,
             CreateEPGSource(h, s, u, on) \/ UpdateEPGSource(h, s, u, on)
      PROVE  G
  BY <1>1 DEF CreateEPGSource, UpdateEPGSource
<1>2. ASSUME NEW s \in Sources, DeleteEPGSource(h, s) PROVE G
  BY <1>2 DEF DeleteEPGSource
<1>3. ASSUME NEW r \in Relays, (\E sl \in Slugs : UpdateRelay(h, r, sl)) \/ DeleteRelay(h, r)
      PROVE  G
  BY <1>3 DEF UpdateRelay, DeleteRelay
<1>4. ASSUME NEW r \in Relays, NEW ss \in SUBSET LiveSources, NEW rebuild \in BOOLEAN,
             ChangeMembership(h, r, ss, rebuild)
      PROVE  G
  BY <1>4 DEF ChangeMembership
<1>5. ASSUME NEW rs \in SUBSET LiveRelays, NEW new \in [rs -> SUBSET LiveSources],
             UpdateChannel(h, rs, new)
      PROVE  G
  BY <1>5 DEF UpdateChannel
<1> HIDE DEF G
<1>6. G
  BY <1>1, <1>2, <1>3, <1>4, <1>5, Zenon DEF HandlerCommits
<1> QED BY <1>6 DEF G

\* A commit touches neither the files, nor the service, nor the worker.
LEMMA CommitKeeps ==
  ASSUME NEW h \in Handlers, HandlerCommits(h)
  PROVE  UNCHANGED <<fileVars, serviceVars, worker, job, intervalUp, skipped, requests>>
<1>1. ASSUME NEW work, Commit(h, work)
      PROVE  UNCHANGED <<fileVars, serviceVars, worker, job, intervalUp, skipped, requests>>
  BY <1>1 DEF Commit
<1>2. ASSUME NEW change, CommitFirst(h, change)
      PROVE  UNCHANGED <<fileVars, serviceVars, worker, job, intervalUp, skipped, requests>>
  BY <1>2 DEF CommitFirst
<1> QED BY <1>1, <1>2, CommitCommits

\* Work is derived in five ways; whether what is left out is recorded depends on what
\* the request has read.
LEMMA DeriveDerives ==
  ASSUME NEW h \in Handlers, HandlerDerives(h)
  PROVE  \E work, excused : Derive(h, work, excused)
<1>1. CASE DeriveCreated(h)
  BY <1>1 DEF DeriveCreated
<1>2. ASSUME NEW newInterval \in BOOLEAN, DeriveSourceWork(h, newInterval)
      PROVE  \E work, excused : Derive(h, work, excused)
  BY <1>2 DEF DeriveSourceWork
<1>3. CASE DeriveRelayWork(h)
  BY <1>3 DEF DeriveRelayWork
<1>4. ASSUME NEW ids \in SUBSET LiveRelays, DeriveOwnersWork(h, ids)
      PROVE  \E work, excused : Derive(h, work, excused)
  BY <1>4 DEF DeriveOwnersWork
<1>5. CASE ReadBackFails(h)
  BY <1>5 DEF ReadBackFails
<1> QED BY <1>1, <1>2, <1>3, <1>4, <1>5 DEF HandlerDerives

\* Deriving work only reads.
LEMMA DeriveKeeps ==
  ASSUME NEW h \in Handlers, HandlerDerives(h)
  PROVE  UNCHANGED <<dbVars, fileVars, serviceVars, worker, job, intervalUp, published, skipped, requests>>
<1>1. ASSUME NEW work, NEW excused, Derive(h, work, excused)
      PROVE  UNCHANGED <<dbVars, fileVars, serviceVars, worker, job, intervalUp, published, skipped, requests>>
  BY <1>1 DEF Derive
<1> QED BY <1>1, DeriveDerives

\* Every step of a request: it enqueues only when it applies the work derived.
LEMMA WakeHandlers ==
  ASSUME WakeInv, NEW h \in Handlers, HandlerCommits(h) \/ HandlerDerives(h) \/ HandlerApplies(h)
  PROVE  WakeInv'
<1> USE DEF serviceVars, queueVars
<1>1. CASE HandlerCommits(h)
  BY <1>1, CommitKeeps, WakeFrame
<1>2. CASE ApplyInvalidate(h) \/ Finish(h)
  BY <1>2, WakeFrame DEF ApplyInvalidate, Apply, Finish
<1>3. CASE ApplyDelete(h)
  BY <1>3, WakeDelete DEF ApplyDelete, Apply
<1>4. CASE ApplyRefresh(h) \/ ApplyDue(h)
  BY <1>4, WakeSources, WakeFrame DEF ApplyRefresh, ApplyDue, Apply
<1>5. CASE ApplyRebuild(h)
  BY <1>5, WakeRelays DEF ApplyRebuild, Apply
<1>6. CASE ApplyCleanup(h)
  BY <1>6 DEF ApplyCleanup, EnqueueRelayCleanup, Apply, WakeInv, Unserved
<1>7. CASE HandlerDerives(h)
  BY <1>7, DeriveKeeps, WakeFrame
<1> QED
  BY <1>1, <1>2, <1>3, <1>4, <1>5, <1>6, <1>7 DEF HandlerApplies

\* Every step.
LEMMA WakeOthers ==
  ASSUME WakeInv, Next
  PROVE  WakeInv'
<1> USE DEF serviceVars, queueVars, threadVars
<1>1. ASSUME NEW h \in Handlers, NEW admit \in BOOLEAN, Begin(h, admit) PROVE WakeInv'
  BY <1>1, WakeFrame DEF Begin
<1>2. ASSUME NEW r \in Relays, NEW sl \in Slugs, CreateRelay(r, sl) PROVE WakeInv'
  BY <1>2, WakeFrame DEF CreateRelay
<1>3. ASSUME NEW ss, RefreshRequest(ss) PROVE WakeInv'
  BY <1>3, WakeSources DEF RefreshRequest
<1>4. ASSUME NEW r \in Relays, CleanupRetryDue(r) PROVE WakeInv'
  BY <1>4, WakeFrame DEF CleanupRetryDue
<1>5. ASSUME NEW s \in Sources, BackoffOver(s) \/ IntervalElapses(s) PROVE WakeInv'
  BY <1>5, WakeFrame DEF BackoffOver, IntervalElapses
<1>6. CASE CloseAdmission
  BY <1>6, WakeFrame DEF CloseAdmission
<1>7. CASE Restart
  <2>1. wake' \in BOOLEAN /\ (wake' <=> LiveRelays # {})
    BY <1>7, Zenon DEF Restart
  <2>2. /\ worker' = IdleWorker
        /\ pendingSources' = {} /\ pendingRelays' = LiveRelays /\ pendingDeleteSources' = {}
    BY <1>7 DEF Restart
  <2> QED
    BY <2>1, <2>2 DEF IdleWorker, WakeInv, Unserved, WorkerPC
<1> QED
  BY <1>1, <1>2, <1>3, <1>4, <1>5, <1>6, <1>7, WakeHandlers, WakeWorker DEF Next

\* For any number of sources, relays and concurrent requests: an idle worker with
\* work in its queues has a wake-up pending.
THEOREM WorkerNeverSleepsOnWork == Spec => []NoLostWakeup
<1>1. Init => WakeInv
  <2>1. SUFFICES ASSUME Init PROVE WakeInv
    OBVIOUS
  <2>2. wake \in BOOLEAN /\ (wake <=> LiveRelays # {})
    BY <2>1, Zenon DEF Init
  <2>3. /\ worker = IdleWorker
        /\ pendingSources = {} /\ pendingRelays = LiveRelays /\ pendingDeleteSources = {}
    BY <2>1 DEF Init
  <2> QED
    BY <2>2, <2>3 DEF IdleWorker, WakeInv, Unserved, WorkerPC
<1>2. WakeInv /\ [Next]_vars => WakeInv'
  <2>1. ASSUME WakeInv, UNCHANGED vars PROVE WakeInv'
    BY <2>1, WakeFrame DEF vars, serviceVars, queueVars, threadVars
  <2> QED
    BY <2>1, WakeOthers
<1>3. WakeInv => NoLostWakeup
  BY DEF WakeInv, Unserved, NoLostWakeup
<1> QED
  BY <1>1, <1>2, <1>3, PTL DEF Spec

=============================================================================
