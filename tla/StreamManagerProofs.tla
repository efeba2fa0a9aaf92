------------------------ MODULE StreamManagerProofs ------------------------
(***************************************************************************)
(* Proofs about StreamManager, for any number of channels, sessions,       *)
(* clients and admins.  IInv is inductive: one lemma per kind of step      *)
(* shows it preserved, the lemmas about types first because every other    *)
(* one needs them.                                                         *)
(***************************************************************************)
EXTENDS StreamManager, TLAPS

(***************************************************************************)
(* What the pump may do: everything its steps leave alone, in one formula, *)
(* so that the invariants that do not look inside an attempt are shown     *)
(* preserved by all of them at once.                                       *)
(***************************************************************************)
PumpStep(s) ==
  \/ RunIdleStop(s)
  \/ RunIdleTimeout(s)
  \/ RunPumps(s)
  \/ BeginPump(s)
  \/ WatchFires(s)
  \/ PumpCut(s)
  \/ \E slow \in SUBSET Clients : PumpMedia(s, slow)
  \/ RetryBeforeReady(s)
  \/ FailBeforeReady(s)
  \/ StreamEnded(s)
  \/ BackOff(s)
  \/ BackoffStop(s)
  \/ BackoffOver(s)

PumpFrame(s) ==
  /\ run[s] \in Pumping
  /\ \E pc \in Pumping \cup {"exit"} : run' = [run EXCEPT ![s] = pc]
  /\ UNCHANGED <<managerVars, made, stopped, fin, threadVars>>

\* Every step of an attempt stays within that frame.
LEMMA PumpFrameLemma ==
  ASSUME TypeOK, NEW s \in Sessions, PumpStep(s)
  PROVE  PumpFrame(s)
<1> USE DEF PumpFrame, Pumping, Goto
<1>1. CASE RunIdleStop(s) \/ RunIdleTimeout(s) \/ RunPumps(s) \/ BackoffStop(s) \/ BackoffOver(s)
  BY <1>1 DEF RunIdleStop, RunIdleTimeout, RunPumps, BackoffStop, BackoffOver, Jump
<1>2. CASE BeginPump(s)
  BY <1>2 DEF BeginPump
<1>3. CASE PumpCut(s)
  BY <1>3 DEF PumpCut, EndPump
<1>4. ASSUME NEW slow \in SUBSET Clients, PumpMedia(s, slow)
      PROVE  PumpFrame(s)
  <2>1. run' = [run EXCEPT ![s] = "read"]
    BY <1>4 DEF PumpMedia, Broadcast, TypeOK
  <2> QED
    BY <1>4, <2>1 DEF PumpMedia, Broadcast
<1>5. CASE WatchFires(s)
  <2>1. run' = [run EXCEPT ![s] = "read"]
    BY <1>5 DEF WatchFires, TypeOK
  <2> QED
    BY <1>5, <2>1 DEF WatchFires
<1>6. CASE RetryBeforeReady(s) \/ FailBeforeReady(s)
  BY <1>6 DEF RetryBeforeReady, FailBeforeReady, EndPump, Fails
<1>7. CASE StreamEnded(s) \/ BackOff(s)
  BY <1>7 DEF StreamEnded, BackOff, EndPump, Fails
<1> QED
  BY <1>1, <1>2, <1>3, <1>4, <1>5, <1>6, <1>7 DEF PumpStep

\* An attempt keeps the types, and its attempt counter below the budget while
\* it goes on.
LEMMA PumpTypes ==
  ASSUME TypeOK, MadeInv, FreshInv, NEW s \in Sessions, PumpStep(s)
  PROVE  TypeOK' /\ MadeInv' /\ FreshInv'
<1> USE DEF TypeOK, RunPC, Pumping, managerVars, threadVars
<1>0. PumpFrame(s)
  BY PumpFrameLemma
<1>1. made[s] \in Made /\ attempts[s] < made[s].src.budget
  BY <1>0 DEF PumpFrame, MadeInv
<1>2. made[s].src.budget \in Nat /\ made[s].src.budget <= MaxBudget
  BY <1>1, ConstantsAssumption DEF Made
<1>3. attempts' \in [Sessions -> 0..MaxBudget]
  <2>1. CASE RetryBeforeReady(s)
    BY <2>1, <1>1, <1>2, ConstantsAssumption DEF RetryBeforeReady
  <2>2. CASE FailBeforeReady(s)
    BY <2>2, <1>1, <1>2, ConstantsAssumption DEF FailBeforeReady
  <2>3. CASE UNCHANGED attempts
    BY <2>3
  <2> QED
    BY <2>1, <2>2, <2>3 DEF PumpStep, RunIdleStop, RunIdleTimeout, RunPumps, WatchFires, BackoffStop, BackoffOver, Jump,
       BeginPump, PumpCut, PumpMedia, Broadcast, StreamEnded, BackOff
<1>4. viewers' \in [Sessions -> SUBSET Clients]
  BY DEF PumpStep, RunIdleStop, RunIdleTimeout, RunPumps, WatchFires, BackoffStop, BackoffOver, Jump,
     BeginPump, PumpCut, PumpMedia, Broadcast, StreamEnded, BackOff, RetryBeforeReady, FailBeforeReady
<1>5. ready' \in [Sessions -> {"no", "yes", "failed", "stopped"}] /\ errored' \subseteq Sessions
  <2>1. CASE FailBeforeReady(s)
    BY <2>1 DEF FailBeforeReady, FailReady
  <2>2. ASSUME NEW slow \in SUBSET Clients, PumpMedia(s, slow)
        PROVE  /\ ready' \in [Sessions -> {"no", "yes", "failed", "stopped"}]
               /\ errored' \subseteq Sessions
    BY <2>2 DEF PumpMedia, Broadcast
  <2>3. CASE UNCHANGED ready /\ errored' \subseteq Sessions
    BY <2>3
  <2> QED
    BY <2>1, <2>2, <2>3 DEF PumpStep, RunIdleStop, RunIdleTimeout, RunPumps, WatchFires, BackoffStop, BackoffOver, Jump,
       BeginPump, PumpCut, StreamEnded, BackOff, RetryBeforeReady
<1>6. ctxDone' \subseteq Sessions /\ timedOut' \subseteq Sessions
  BY DEF PumpStep, RunIdleStop, RunIdleTimeout, RunPumps, WatchFires, BackoffStop, BackoffOver, Jump, EndPump,
     BeginPump, PumpCut, PumpMedia, Broadcast, StreamEnded, BackOff, RetryBeforeReady, FailBeforeReady
<1>7. TypeOK'
  <2>1. run' \in [Sessions -> RunPC]
    BY <1>0 DEF PumpFrame
  <2>2. UNCHANGED <<managerVars, made, stopped, fin, threadVars>>
    BY <1>0 DEF PumpFrame
  <2> QED
    BY <2>1, <2>2, <1>3, <1>4, <1>5, <1>6
<1>8. \A x \in Sessions : x # s => run'[x] = run[x] /\ attempts'[x] = attempts[x] /\ made'[x] = made[x]
  BY <1>0 DEF PumpFrame, PumpStep, RunIdleStop, RunIdleTimeout, RunPumps, WatchFires, BackoffStop, BackoffOver, Jump,
     BeginPump, PumpCut, PumpMedia, Broadcast, StreamEnded, BackOff, RetryBeforeReady, FailBeforeReady
<1>9. run'[s] \in Pumping => attempts'[s] < made[s].src.budget
  <2>1. CASE RetryBeforeReady(s)
    BY <2>1, <1>1, <1>2 DEF RetryBeforeReady
  <2>2. CASE FailBeforeReady(s)
    BY <2>2 DEF FailBeforeReady, EndPump, Goto
  <2>3. CASE UNCHANGED attempts
    BY <2>3, <1>1
  <2> QED
    BY <2>1, <2>2, <2>3 DEF PumpStep, RunIdleStop, RunIdleTimeout, RunPumps, WatchFires, BackoffStop, BackoffOver, Jump,
       BeginPump, PumpCut, PumpMedia, Broadcast, StreamEnded, BackOff
<1>10. MadeInv'
  BY <1>0, <1>1, <1>8, <1>9 DEF PumpFrame, MadeInv
<1>11. FreshInv'
  BY <1>0, <1>8 DEF PumpFrame, FreshInv
<1> QED
  BY <1>7, <1>10, <1>11

\* The deferred part of run keeps the types.
LEMMA ExitTypes ==
  ASSUME TypeOK, MadeInv, FreshInv, NEW s \in Sessions,
         RunExit(s) \/ RemoveSession(s) \/ RememberFinish(s)
  PROVE  TypeOK' /\ MadeInv' /\ FreshInv'
<1> USE DEF TypeOK, RunPC, Goto
<1>1. CASE RunExit(s)
  <2> USE <1>1 DEF RunExit
  <2>1. ready' \in [Sessions -> {"no", "yes", "failed", "stopped"}] /\ errored' \subseteq Sessions
    BY DEF FailReady
  <2>2. stop' \in [Threads -> StopState]
    BY DEF StartStop, StopState, MaybeSession
  <2>3. fin' \in [Sessions -> {"none", "idle", "error"}]
    OBVIOUS
  <2>4. run' = [run EXCEPT ![s] = "stopping"] /\ run[s] = "exit"
    OBVIOUS
  <2>5. UNCHANGED <<managerVars, made, stopped, viewers, ctxDone, timedOut, attempts, client, admin, retired>>
    OBVIOUS
  <2>6. TypeOK'
    BY <2>1, <2>2, <2>3, <2>4, <2>5 DEF managerVars
  <2>7. MadeInv' /\ FreshInv'
    BY <2>4, <2>5 DEF MadeInv, FreshInv, Pumping
  <2> QED
    BY <2>6, <2>7
<1>2. CASE RemoveSession(s)
  <2> USE <1>2 DEF RemoveSession
  <2>1. sessions' \in [Channels -> MaybeSession]
    BY DEF MaybeSession
  <2>2. run' = [run EXCEPT ![s] = "remember"] /\ run[s] = "stopping"
    OBVIOUS
  <2>3. TypeOK'
    BY <2>1, <2>2 DEF threadVars
  <2>4. MadeInv' /\ FreshInv'
    BY <2>2 DEF MadeInv, FreshInv, Pumping
  <2> QED
    BY <2>3, <2>4
<1>3. CASE RememberFinish(s)
  <2> USE <1>3 DEF RememberFinish
  <2>1. sticky' \in [Channels -> MaybeSession]
    BY DEF MaybeSession
  <2>2. run' = [run EXCEPT ![s] = "done"] /\ run[s] = "remember"
    OBVIOUS
  <2>3. TypeOK'
    BY <2>1, <2>2 DEF threadVars
  <2>4. MadeInv' /\ FreshInv'
    BY <2>2 DEF MadeInv, FreshInv, Pumping
  <2> QED
    BY <2>3, <2>4
<1> QED
  BY <1>1, <1>2, <1>3

\* stop() keeps the types.
LEMMA StopTypes ==
  ASSUME TypeOK, StopInv, NEW t \in Threads, StopStep(t)
  PROVE  TypeOK'
<1> USE DEF TypeOK, managerVars, sessionVars
<1>0. stop[t].pc # "none" => stop[t].s \in Sessions
  BY DEF StopInv
<1>1. CASE StopAlready(t)
  <2>1. stop' \in [Threads -> StopState]
    BY <1>1 DEF StopAlready, StopState, NotStopping, MaybeSession
  <2> QED
    BY <1>1, <2>1 DEF StopAlready
<1>2. CASE StopMark(t)
  <2>1. stop' \in [Threads -> StopState] /\ stopped' \subseteq Sessions
    BY <1>0, <1>2 DEF StopMark, StopState, MaybeSession
  <2> QED
    BY <1>2, <2>1 DEF StopMark
<1>3. CASE StopDetach(t)
  <2>1. stop' \in [Threads -> StopState]
    BY <1>3 DEF StopDetach, StopState, MaybeSession
  <2>2. viewers' \in [Sessions -> SUBSET Clients]
    BY <1>0, <1>3 DEF StopDetach
  <2>3. errored' \subseteq Sessions /\ ctxDone' \subseteq Sessions
    BY <1>0, <1>3 DEF StopDetach, CancelPump
  <2> QED
    BY <1>3, <2>1, <2>2, <2>3 DEF StopDetach
<1>4. CASE StopUnblock(t)
  <2>1. stop' \in [Threads -> StopState]
    BY <1>4 DEF StopUnblock, StopState, NotStopping, MaybeSession
  <2>2. /\ ready' \in [Sessions -> {"no", "yes", "failed", "stopped"}]
        /\ errored' \subseteq Sessions
    BY <1>0, <1>4 DEF StopUnblock, FailReady
  <2> QED
    BY <1>4, <2>1, <2>2 DEF StopUnblock
<1> QED
  BY <1>1, <1>2, <1>3, <1>4 DEF StopStep

\* A subscription that starts a session, with or without retiring another.
Starts(v, c, rev, src, s) == SubscribeStart(v, c, rev, src, s) \/ SubscribeReplace(v, c, rev, src, s)

\* Starting a session keeps the types and gives the new session its fields.
LEMMA StartTypes ==
  ASSUME TypeOK, MadeInv, FreshInv, NEW v \in Clients, NEW c \in Channels,
         NEW rev \in MaybeRevision, NEW src \in Sources, NEW s \in Sessions,
         Starts(v, c, rev, src, s)
  PROVE  TypeOK' /\ MadeInv' /\ FreshInv'
<1> USE DEF TypeOK
<1>1. PICK e \in 0..MaxEpoch : StartSession(s, c, src, e)
  BY ConstantsAssumption DEF Starts, SubscribeStart, SubscribeReplace
<1>2. /\ revisions' \in [Channels -> MaybeRevision]
      /\ retired' \subseteq Sessions
      /\ UNCHANGED <<closed, profile, blocked, stopped, viewers, ready, errored, ctxDone, timedOut,
                     attempts, fin, stop, admin>>
  BY DEF Starts, SubscribeStart, SubscribeReplace, RecordRevision, MaybeSession
<1>3. mu' \in Clients \cup {None} /\ client' \in [Clients -> ClientState]
  BY DEF Starts, SubscribeStart, SubscribeReplace, Attach, ClientState, MaybeSession
<1>4. /\ run' = [run EXCEPT ![s] = "loop"]
      /\ made' = [made EXCEPT ![s] = [channel |-> c, epoch |-> e, src |-> src, profile |-> profile]]
      /\ run[s] = "new"
  BY <1>1 DEF StartSession
<1>5. made' \in [Sessions -> Made \cup {None}] /\ made'[s] \in Made /\ made'[s].src = src
  BY <1>4 DEF Made
<1>6. /\ sticky' \in [Channels -> MaybeSession]
      /\ epochs' \in [Channels -> 0..MaxEpoch]
      /\ sessions' \in [Channels -> MaybeSession]
      /\ run' \in [Sessions -> RunPC]
  BY <1>1 DEF StartSession, MaybeSession, RunPC
<1>7. TypeOK'
  BY <1>2, <1>3, <1>5, <1>6
<1>8. attempts[s] = 0 /\ src.budget \in Nat /\ src.budget > 0
  BY <1>4, ConstantsAssumption DEF FreshInv
<1>9. MadeInv' /\ FreshInv'
  BY <1>2, <1>4, <1>5, <1>8 DEF MadeInv, FreshInv, Pumping
<1> QED
  BY <1>7, <1>9

\* The other steps of a client keep the types.
LEMMA ClientTypes ==
  ASSUME TypeOK, ClientInv, MapInv, NEW v \in Clients
  PROVE  /\ \A c \in Channels, rev \in MaybeRevision, src \in Sources :
              SubscribeJoin(v, c, rev, src) => TypeOK'
         /\ SubscribeAdd(v) => TypeOK'
         /\ SubscribeReady(v) => TypeOK'
         /\ client[v].pc # "out" /\ RemoveViewer(v) => TypeOK'
<1> USE DEF TypeOK
<1>1. ASSUME NEW c \in Channels, NEW rev \in MaybeRevision, NEW src \in Sources,
             SubscribeJoin(v, c, rev, src)
      PROVE  TypeOK'
  <2>1. revisions' \in [Channels -> MaybeRevision]
    BY <1>1 DEF SubscribeJoin, RecordRevision
  <2>2. mu' \in Clients \cup {None} /\ client' \in [Clients -> ClientState]
    BY <1>1 DEF SubscribeJoin, Attach, ClientState, MaybeSession
  <2> QED
    BY <1>1, <2>1, <2>2 DEF SubscribeJoin, sessionVars
<1>2. ASSUME SubscribeAdd(v) PROVE TypeOK'
  <2>1. client[v].s \in Sessions
    BY <1>2 DEF SubscribeAdd, ClientInv
  <2>2. client' \in [Clients -> ClientState]
    BY <1>2 DEF SubscribeAdd, ClientState, MaybeSession
  <2>3. stop' \in [Threads -> StopState]
    <3>1. client[v].stale \in MaybeSession /\ v \in Threads
      BY DEF ClientState, Threads
    <3>2. [pc |-> "mark", s |-> client[v].stale] \in StopState
      BY <3>1 DEF StopState
    <3> QED
      BY <1>2, <3>1, <3>2 DEF SubscribeAdd, StartStop
  <2>4. viewers' \in [Sessions -> SUBSET Clients]
    BY <1>2, <2>1 DEF SubscribeAdd
  <2> QED
    BY <1>2, <2>2, <2>3, <2>4 DEF SubscribeAdd
<1>3. ASSUME SubscribeReady(v) PROVE TypeOK'
  <2>1. client' \in [Clients -> ClientState]
    BY <1>3 DEF SubscribeReady, ClientState
  <2> QED
    BY <1>3, <2>1 DEF SubscribeReady, managerVars, sessionVars
<1>4. ASSUME client[v].pc # "out", RemoveViewer(v) PROVE TypeOK'
  <2>1. client[v].s \in Sessions
    BY <1>4 DEF ClientInv
  <2>2. client' \in [Clients -> ClientState]
    BY <1>4 DEF RemoveViewer, ClientState, Outside, MaybeSession
  <2>3. viewers' \in [Sessions -> SUBSET Clients]
    BY <1>4, <2>1 DEF RemoveViewer
  <2>4. errored' \subseteq Sessions /\ ctxDone' \subseteq Sessions
    BY <1>4, <2>1 DEF RemoveViewer, CancelPump
  <2> QED
    BY <1>4, <2>2, <2>3, <2>4 DEF RemoveViewer, managerVars
<1> QED
  BY <1>1, <1>2, <1>3, <1>4

(***************************************************************************)
(* What the four tear-down calls have in common.                           *)
(***************************************************************************)
Tears(a) ==
  \/ \E c \in Channels, rev \in MaybeRevision, invalidate \in BOOLEAN :
       PublishChannel(a, c, rev, invalidate)
  \/ \E c \in Channels : BlockChannel(a, c)
  \/ \E p \in Profiles : ApplyProfile(a, p)
  \/ Close(a)

TearFrame(a, cs) ==
  /\ admin[a] = NotWaiting
  /\ Retire(a, cs)
  /\ UNCHANGED <<mu, sessionVars, stop, client>>

\* Each of them retires some set of channels and starts no session.
LEMMA TearFrameLemma ==
  ASSUME TypeOK, NEW a \in Admins, Tears(a)
  PROVE  /\ \E cs \in SUBSET Channels : TearFrame(a, cs)
         /\ closed' \in BOOLEAN
         /\ profile' \in Profiles
         /\ revisions' \in [Channels -> MaybeRevision]
         /\ blocked' \subseteq Channels
<1> USE DEF TypeOK, TearFrame, Free
<1> DEFINE Goal == /\ \E cs \in SUBSET Channels : TearFrame(a, cs)
                   /\ closed' \in BOOLEAN
                   /\ profile' \in Profiles
                   /\ revisions' \in [Channels -> MaybeRevision]
                   /\ blocked' \subseteq Channels
<1>1. ASSUME NEW c \in Channels, NEW rev \in MaybeRevision, NEW invalidate \in BOOLEAN,
             PublishChannel(a, c, rev, invalidate)
      PROVE  Goal
  <2>1. (IF invalidate THEN {c} ELSE {}) \in SUBSET Channels
    OBVIOUS
  <2> QED
    BY <1>1, <2>1 DEF PublishChannel, RecordRevision
<1>2. ASSUME NEW c \in Channels, BlockChannel(a, c)
      PROVE  Goal
  BY <1>2 DEF BlockChannel, MaybeRevision
<1>3. ASSUME NEW p \in Profiles, ApplyProfile(a, p)
      PROVE  Goal
  BY <1>3 DEF ApplyProfile
<1>4. ASSUME Close(a)
      PROVE  Goal
  BY <1>4 DEF Close
<1> QED
  BY <1>1, <1>2, <1>3, <1>4 DEF Tears

\* The steps of an admin keep the types.
LEMMA AdminTypes ==
  ASSUME TypeOK, NEW a \in Admins
  PROVE  /\ Tears(a) => TypeOK'
         /\ \A s \in Sessions : AdminStop(a, s) => TypeOK'
         /\ AdminReturn(a) => TypeOK'
<1> USE DEF TypeOK
<1>1. ASSUME Tears(a) PROVE TypeOK'
  <2>1. PICK cs \in SUBSET Channels : TearFrame(a, cs)
    BY <1>1, TearFrameLemma
  <2>2. /\ closed' \in BOOLEAN
        /\ profile' \in Profiles
        /\ revisions' \in [Channels -> MaybeRevision]
        /\ blocked' \subseteq Channels
    BY <1>1, TearFrameLemma
  <2>3. /\ sticky' \in [Channels -> MaybeSession]
        /\ epochs' \in [Channels -> 0..MaxEpoch]
        /\ sessions' \in [Channels -> MaybeSession]
    BY <2>1, ConstantsAssumption DEF TearFrame, Retire, MaybeSession
  <2>4. retired' \subseteq Sessions /\ admin' \in [Admins -> AdminState]
    BY <2>1 DEF TearFrame, Retire, MaybeSession, AdminState
  <2> QED
    BY <2>1, <2>2, <2>3, <2>4 DEF TearFrame, sessionVars
<1>2. ASSUME NEW s \in Sessions, AdminStop(a, s) PROVE TypeOK'
  <2>1. stop' \in [Threads -> StopState]
    BY <1>2 DEF AdminStop, StartStop, StopState, MaybeSession
  <2>2. admin' \in [Admins -> AdminState]
    BY <1>2 DEF AdminStop, AdminState
  <2> QED
    BY <1>2, <2>1, <2>2 DEF AdminStop, managerVars, sessionVars
<1>3. ASSUME AdminReturn(a) PROVE TypeOK'
  <2>1. admin' \in [Admins -> AdminState]
    BY <1>3 DEF AdminReturn, AdminState
  <2> QED
    BY <1>3, <2>1 DEF AdminReturn, managerVars, sessionVars
<1> QED
  BY <1>1, <1>2, <1>3

-----------------------------------------------------------------------------
(***************************************************************************)
(* The invariants about the manager's maps.                                *)
(***************************************************************************)
ManagerInv == EpochInv /\ MapInv /\ StickyInv /\ RefusedHasNoSession /\ JoinableRunsProfile

\* A step that leaves the maps alone, starts no session and finishes none
\* keeps them.
LEMMA ManagerFrame ==
  ASSUME ManagerInv,
         UNCHANGED <<closed, profile, blocked, sticky, epochs, sessions, made, retired>>,
         \A x \in Sessions : run'[x] = "new" <=> run[x] = "new",
         \A x \in Sessions : run'[x] \in {"remember", "done"} => run[x] \in {"remember", "done"},
         TypeOK
  PROVE  ManagerInv'
<1> USE DEF ManagerInv
<1>1. EpochInv'
  BY DEF EpochInv, TypeOK
<1>2. MapInv'
  BY DEF MapInv, Newest, TypeOK, MaybeSession
<1>3. StickyInv'
  BY DEF StickyInv, Newest, TypeOK, MaybeSession
<1>4. RefusedHasNoSession' /\ JoinableRunsProfile'
  BY DEF RefusedHasNoSession, JoinableRunsProfile
<1> QED
  BY <1>1, <1>2, <1>3, <1>4

\* removeSession and rememberFinish.  The session that leaves the map is the
\* one that finishes; the epoch test of rememberFinish makes it the newest.
LEMMA ExitManager ==
  ASSUME TypeOK, MadeInv, ManagerInv, NEW s \in Sessions,
         RemoveSession(s) \/ RememberFinish(s)
  PROVE  ManagerInv'
<1> USE DEF ManagerInv, Goto
<1>0. run[s] # "new" /\ made[s] \in Made /\ made[s].channel \in Channels
  BY DEF RemoveSession, RememberFinish, MadeInv, Made
<1>1. CASE RemoveSession(s)
  <2> DEFINE c0 == made[s].channel
  <2>1. /\ UNCHANGED <<closed, profile, blocked, sticky, epochs, made, retired>>
        /\ run' = [run EXCEPT ![s] = "remember"]
    BY <1>1 DEF RemoveSession, threadVars
  <2>2. \A x \in Sessions : run'[x] = "new" <=> run[x] = "new"
    BY <2>1, <1>0 DEF TypeOK
  <2>3. \A c \in Channels : sessions'[c] # None => sessions'[c] = sessions[c] /\ sessions'[c] # s
    <3>1. sessions' = [sessions EXCEPT ![c0] = IF @ = s THEN None ELSE @]
      BY <1>1 DEF RemoveSession
    <3>2. \A c \in Channels : sessions[c] = s => c = c0
      BY ConstantsAssumption DEF MapInv, Newest
    <3> QED
      BY <3>1, <3>2, <1>0 DEF TypeOK
  <2>4. EpochInv'
    BY <2>1, <2>2 DEF EpochInv, TypeOK
  <2>5. MapInv'
    BY <2>1, <2>2, <2>3 DEF MapInv, Newest, TypeOK, MaybeSession
  <2>6. StickyInv'
    BY <2>1, <2>2, <2>3 DEF StickyInv, Newest, TypeOK, MaybeSession
  <2>7. RefusedHasNoSession' /\ JoinableRunsProfile'
    BY <2>1, <2>3 DEF RefusedHasNoSession, JoinableRunsProfile
  <2> QED
    BY <2>4, <2>5, <2>6, <2>7
<1>2. CASE RememberFinish(s)
  <2> DEFINE c0 == made[s].channel
  <2>1. /\ UNCHANGED <<closed, profile, blocked, sessions, epochs, made, retired>>
        /\ run' = [run EXCEPT ![s] = "done"]
        /\ run[s] = "remember"
    BY <1>2 DEF RememberFinish, threadVars
  <2>2. \A x \in Sessions : run'[x] = "new" <=> run[x] = "new"
    BY <2>1, <1>0 DEF TypeOK
  <2>3. \A c \in Channels : sessions[c] # s
    BY <2>1, ConstantsAssumption DEF MapInv
  <2>4. EpochInv'
    BY <2>1, <2>2 DEF EpochInv, TypeOK
  <2>5. MapInv'
    BY <2>1, <2>2, <2>3 DEF MapInv, Newest, TypeOK, MaybeSession
  <2>6. StickyInv'
    <3>1. \A c \in Channels : sticky'[c] # None =>
            \/ sticky'[c] = sticky[c]
            \/ sticky'[c] = s /\ c = c0 /\ epochs[c] = made[s].epoch /\ sessions[c] = None
      BY <1>2, <1>0 DEF RememberFinish, TypeOK
    <3> QED
      BY <3>1, <2>1, <2>2, <1>0 DEF StickyInv, Newest, TypeOK, MaybeSession
  <2>7. RefusedHasNoSession' /\ JoinableRunsProfile'
    BY <2>1 DEF RefusedHasNoSession, JoinableRunsProfile
  <2> QED
    BY <2>4, <2>5, <2>6, <2>7
<1> QED
  BY <1>1, <1>2

\* A subscription that starts a session: its epoch is above every earlier one
\* of the channel, and above the epoch of the session it retires.
LEMMA StartManager ==
  ASSUME TypeOK, MadeInv, ManagerInv, NEW v \in Clients, NEW c \in Channels,
         NEW rev \in MaybeRevision, NEW src \in Sources, NEW s \in Sessions,
         Starts(v, c, rev, src, s)
  PROVE  ManagerInv'
<1> USE DEF ManagerInv
<1>1. PICK e \in 0..MaxEpoch : StartSession(s, c, src, e) /\ e > epochs[c]
  BY ConstantsAssumption DEF Starts, SubscribeStart, SubscribeReplace, TypeOK
<1>2. /\ UNCHANGED <<closed, profile, blocked>>
      /\ ~closed
      /\ c \notin blocked
      /\ retired' \subseteq retired \cup {sessions[c]} /\ (sessions[c] = None => retired' = retired)
  BY DEF Starts, SubscribeStart, SubscribeReplace, Admitted
<1>3. /\ run' = [run EXCEPT ![s] = "loop"]
      /\ made' = [made EXCEPT ![s] = [channel |-> c, epoch |-> e, src |-> src, profile |-> profile]]
      /\ run[s] = "new"
      /\ sticky' = [sticky EXCEPT ![c] = None]
      /\ epochs' = [epochs EXCEPT ![c] = e]
      /\ sessions' = [sessions EXCEPT ![c] = s]
  BY <1>1 DEF StartSession
<1>4. \A x \in Sessions : x # s => run'[x] = run[x] /\ made'[x] = made[x]
  BY <1>3 DEF TypeOK
<1>5. /\ run'[s] = "loop"
      /\ made'[s].channel = c
      /\ made'[s].epoch = e
      /\ made'[s].profile = profile
  BY <1>3 DEF TypeOK
<1>6. \A d \in Channels : epochs'[d] = (IF d = c THEN e ELSE epochs[d])
  BY <1>3 DEF TypeOK
<1>7. \A x \in Sessions : x # s /\ run[x] # "new" =>
        /\ made[x].channel \in Channels
        /\ made[x].epoch \in Nat
        /\ made[x].channel = c => made[x].epoch < e
  BY <1>1, ConstantsAssumption DEF MadeInv, Made, EpochInv, TypeOK
<1>8. EpochInv'
  <2>1. \A x \in Sessions : run'[x] # "new" => made'[x].epoch <= epochs'[made'[x].channel]
    BY <1>1, <1>4, <1>5, <1>6, <1>7 DEF EpochInv, TypeOK
  <2>2. ASSUME NEW x \in Sessions, NEW y \in Sessions, run'[x] # "new", run'[y] # "new",
               made'[x].channel = made'[y].channel, made'[x].epoch = made'[y].epoch
        PROVE  x = y
    BY <2>2, <1>1, <1>4, <1>5, <1>7 DEF EpochInv
  <2>3. ASSUME NEW x \in retired'
        PROVE  run'[x] # "new" /\ made'[x].epoch < epochs'[made'[x].channel]
    <3>1. CASE x \in retired
      BY <3>1, <1>1, <1>3, <1>4, <1>6, <1>7 DEF EpochInv, TypeOK
    <3>2. CASE x \notin retired
      <4>1. x = sessions[c] /\ sessions[c] # None
        BY <3>2, <2>3, <1>2
      <4> QED
        BY <4>1, <1>1, <1>3, <1>4, <1>6, <1>7 DEF MapInv, Newest, TypeOK, MaybeSession
    <3> QED
      BY <3>1, <3>2
  <2> QED
    BY <2>1, <2>2, <2>3 DEF EpochInv
<1>9. \A d \in Channels : d # c => sessions'[d] = sessions[d] /\ sticky'[d] = sticky[d]
  BY <1>3 DEF TypeOK
<1>10. sessions'[c] = s /\ sticky'[c] = None
  BY <1>3 DEF TypeOK
<1>11. MapInv'
  BY <1>3, <1>4, <1>5, <1>6, <1>9, <1>10 DEF MapInv, Newest, TypeOK, MaybeSession
<1>12. StickyInv'
  BY <1>3, <1>4, <1>5, <1>6, <1>9, <1>10 DEF StickyInv, Newest, TypeOK, MaybeSession
<1>13. RefusedHasNoSession'
  BY <1>2, <1>9 DEF RefusedHasNoSession
<1>14. JoinableRunsProfile'
  <2>1. ASSUME NEW d \in Channels, d # c, sessions[d] # None
        PROVE  made'[sessions[d]] = made[sessions[d]]
    BY <2>1, <1>3, <1>4 DEF MapInv, Newest, TypeOK, MaybeSession
  <2> QED
    BY <2>1, <1>2, <1>5, <1>9, <1>10 DEF JoinableRunsProfile
<1> QED
  BY <1>8, <1>11, <1>12, <1>13, <1>14

\* The tear-down calls: a retired session falls behind its channel's epoch, and
\* nothing is left to join on a channel that was refused or re-profiled.
LEMMA TearManager ==
  ASSUME TypeOK, MadeInv, ManagerInv, NEW a \in Admins, Tears(a)
  PROVE  ManagerInv'
<1> USE DEF ManagerInv
<1>1. PICK cs \in SUBSET Channels : TearFrame(a, cs)
  BY TearFrameLemma
<1>2. UNCHANGED <<run, made>>
  BY <1>1 DEF TearFrame, sessionVars
<1>3. \A c \in Channels :
        /\ sessions'[c] = IF c \in cs THEN None ELSE sessions[c]
        /\ sticky'[c] = IF c \in cs THEN None ELSE sticky[c]
        /\ epochs'[c] = IF c \in cs THEN epochs[c] + 1 ELSE epochs[c]
  BY <1>1 DEF TearFrame, Retire
<1>4. \A x \in retired' : x \in retired \/ \E c \in cs : x = sessions[c] /\ sessions[c] # None
  BY <1>1 DEF TearFrame, Retire
<1>5. \A x \in Sessions : run[x] # "new" => made[x].channel \in Channels /\ made[x].epoch \in Nat
  BY ConstantsAssumption DEF MadeInv, Made
<1>6. EpochInv'
  <2>1. \A x \in Sessions : run'[x] # "new" => made'[x].epoch <= epochs'[made'[x].channel]
    BY <1>2, <1>3, <1>5 DEF EpochInv, TypeOK
  <2>2. ASSUME NEW x \in retired'
        PROVE  run'[x] # "new" /\ made'[x].epoch < epochs'[made'[x].channel]
    <3>1. CASE x \in retired
      BY <3>1, <1>2, <1>3, <1>5 DEF EpochInv, TypeOK
    <3>2. ASSUME NEW c \in cs, x = sessions[c], sessions[c] # None
          PROVE  run'[x] # "new" /\ made'[x].epoch < epochs'[made'[x].channel]
      BY <3>2, <1>2, <1>3 DEF MapInv, Newest, TypeOK, MaybeSession
    <3> QED
      BY <3>1, <3>2, <1>4
  <2> QED
    BY <2>1, <2>2, <1>2 DEF EpochInv
<1>7. MapInv'
  BY <1>2, <1>3 DEF MapInv, Newest
<1>8. StickyInv'
  BY <1>2, <1>3 DEF StickyInv, Newest
<1>9. RefusedHasNoSession' /\ JoinableRunsProfile'
  <2>1. ASSUME NEW c \in Channels, NEW rev \in MaybeRevision, NEW invalidate \in BOOLEAN,
               PublishChannel(a, c, rev, invalidate)
        PROVE  RefusedHasNoSession' /\ JoinableRunsProfile'
    <3>1. UNCHANGED <<closed, profile>> /\ blocked' \subseteq blocked
      BY <2>1 DEF PublishChannel
    <3> QED
      BY <3>1, <1>2, <1>3 DEF RefusedHasNoSession, JoinableRunsProfile
  <2>2. ASSUME NEW c \in Channels, BlockChannel(a, c)
        PROVE  RefusedHasNoSession' /\ JoinableRunsProfile'
    <3>1. UNCHANGED <<closed, profile>> /\ blocked' = blocked \cup {c}
      BY <2>2 DEF BlockChannel
    <3>2. sessions'[c] = None
      BY <2>2 DEF BlockChannel, Retire
    <3> QED
      BY <3>1, <3>2, <1>2, <1>3 DEF RefusedHasNoSession, JoinableRunsProfile
  <2>3. ASSUME NEW p \in Profiles, ApplyProfile(a, p)
        PROVE  RefusedHasNoSession' /\ JoinableRunsProfile'
    <3>1. UNCHANGED <<closed, blocked>>
      BY <2>3 DEF ApplyProfile
    <3>2. \A c \in Channels : sessions'[c] # None =>
            sessions'[c] = sessions[c] /\ ~made[sessions[c]].src.transcode
      BY <2>3 DEF ApplyProfile, Retire
    <3> QED
      BY <3>1, <3>2, <1>2, <1>3 DEF RefusedHasNoSession, JoinableRunsProfile
  <2>4. ASSUME Close(a)
        PROVE  RefusedHasNoSession' /\ JoinableRunsProfile'
    <3>1. \A c \in Channels : sessions'[c] = None
      BY <2>4 DEF Close, Retire
    <3> QED
      BY <3>1 DEF RefusedHasNoSession, JoinableRunsProfile
  <2> QED
    BY <2>1, <2>2, <2>3, <2>4 DEF Tears
<1> QED
  BY <1>6, <1>7, <1>8, <1>9

-----------------------------------------------------------------------------
(***************************************************************************)
(* The invariants about the threads that stop sessions.                    *)
(***************************************************************************)
ThreadInv == StopInv /\ ClientInv /\ NoLeakedSession

\* An attempt touches no thread, and leaves its session where it was.
LEMMA PumpThreads ==
  ASSUME TypeOK, ThreadInv, NEW s \in Sessions, PumpFrame(s)
  PROVE  ThreadInv'
<1> USE DEF ThreadInv
<1>1. UNCHANGED <<sessions, made, stopped, stop, client, admin>>
  BY DEF PumpFrame, managerVars, threadVars
<1>2. \A x \in Sessions : run'[x] # run[x] => run[x] \in Pumping /\ run'[x] \in Pumping \cup {"exit"}
  BY DEF PumpFrame, TypeOK
<1>3. StopInv'
  BY <1>1, <1>2 DEF StopInv, Pumping
<1>4. ClientInv'
  BY <1>1 DEF ClientInv
<1>5. NoLeakedSession'
  BY <1>1, <1>2 DEF NoLeakedSession, Condemned
<1> QED
  BY <1>3, <1>4, <1>5

\* The end of run: it stops its own session before it takes it off the map.
LEMMA ExitThreads ==
  ASSUME TypeOK, MadeInv, ThreadInv, NEW s \in Sessions,
         RunExit(s) \/ RemoveSession(s) \/ RememberFinish(s)
  PROVE  ThreadInv'
<1> USE DEF ThreadInv, Goto
<1>1. CASE RunExit(s)
  <2>1. /\ UNCHANGED <<sessions, made, stopped, client, admin>>
        /\ run[s] = "exit"
        /\ run' = [run EXCEPT ![s] = "stopping"]
        /\ stop' = [stop EXCEPT ![s] = [pc |-> "mark", s |-> s]]
    BY <1>1 DEF RunExit, StartStop, managerVars
  <2>2. s \in Threads /\ stop'[s].pc = "mark" /\ stop'[s].s = s
    BY <2>1 DEF TypeOK, Threads
  <2>3. \A t \in Threads : t # s => stop'[t] = stop[t]
    BY <2>1 DEF TypeOK
  <2>4. \A x \in Sessions : x # s => run'[x] = run[x]
    BY <2>1 DEF TypeOK
  <2>5. run'[s] = "stopping"
    BY <2>1 DEF TypeOK
  <2>6. StopInv'
    BY <2>1, <2>2, <2>3, <2>4, <2>5 DEF StopInv, Threads
  <2>7. ClientInv'
    BY <2>1, <2>3, ConstantsAssumption DEF ClientInv, Threads
  <2>8. NoLeakedSession'
    <3>1. stop[s].pc = "none"
      BY <2>1 DEF StopInv
    <3>2. ASSUME NEW x \in Sessions, x # s, Condemned(x)
          PROVE  Condemned(x)'
      BY <3>1, <3>2, <2>1, <2>3 DEF Condemned
    <3> QED
      BY <3>2, <2>1, <2>4, <2>5 DEF NoLeakedSession, Pumping
  <2> QED
    BY <2>6, <2>7, <2>8
<1>2. CASE RemoveSession(s) \/ RememberFinish(s)
  <2>1. /\ UNCHANGED <<made, stopped, stop, client, admin>>
        /\ run[s] \in {"stopping", "remember"}
        /\ run[s] = "stopping" => stop[s].pc = "none"
        /\ run' = [run EXCEPT ![s] = IF run[s] = "stopping" THEN "remember" ELSE "done"]
    BY <1>2 DEF RemoveSession, RememberFinish, threadVars
  <2>2. \A x \in Sessions : x # s => run'[x] = run[x]
    BY <2>1 DEF TypeOK
  <2>3. run'[s] \in {"remember", "done"}
    BY <2>1 DEF TypeOK
  <2>4. stop[s].pc = "none" /\ s \in stopped
    BY <2>1 DEF StopInv
  <2>5. StopInv'
    BY <2>1, <2>2, <2>3, <2>4 DEF StopInv
  <2>6. ClientInv'
    BY <2>1 DEF ClientInv
  <2>7. ASSUME NEW x \in Sessions, x # s, run[x] \in Pumping, sessions[made[x].channel] = x
        PROVE  sessions'[made[x].channel] = x
    <3>1. made[x].channel \in Channels
      BY <2>7 DEF MadeInv, Made, Pumping
    <3> QED
      BY <2>7, <3>1, <1>2 DEF RemoveSession, RememberFinish, TypeOK
  <2>8. NoLeakedSession'
    BY <2>1, <2>2, <2>3, <2>7 DEF NoLeakedSession, Condemned, Pumping
  <2> QED
    BY <2>5, <2>6, <2>8
<1> QED
  BY <1>1, <1>2

\* stop(): whoever gives up a session leaves it stopped.
LEMMA StopThreads ==
  ASSUME TypeOK, ThreadInv, NEW t \in Threads, StopStep(t)
  PROVE  ThreadInv'
<1> USE DEF ThreadInv
<1>1. /\ UNCHANGED <<sessions, made, run, client, admin>>
      /\ stop[t].pc # "none"
      /\ stopped \subseteq stopped'
  BY DEF StopStep, StopAlready, StopMark, StopDetach, StopUnblock, managerVars, sessionVars
<1>2. stop[t].s \in Sessions
  BY <1>1 DEF StopInv
<1>3. \A u \in Threads : u # t => stop'[u] = stop[u]
  BY DEF StopStep, StopAlready, StopMark, StopDetach, StopUnblock, TypeOK
<1>4. stop[t].s \in stopped'
  <2>1. CASE stop[t].pc = "mark"
    BY <2>1, <1>1 DEF StopStep, StopAlready, StopMark, StopDetach, StopUnblock
  <2>2. CASE stop[t].pc # "mark"
    BY <2>2, <1>1 DEF StopInv, TypeOK, StopState
  <2> QED
    BY <2>1, <2>2
<1>5. stop'[t].pc = "none" \/ stop'[t].s = stop[t].s
  BY DEF StopStep, StopAlready, StopMark, StopDetach, StopUnblock, TypeOK, NotStopping, StopState
<1>6. StopInv'
  BY <1>1, <1>2, <1>3, <1>4, <1>5 DEF StopInv, Threads
<1>7. ClientInv'
  BY <1>1, <1>3 DEF ClientInv, Threads
<1>8. NoLeakedSession'
  <2>1. ASSUME NEW x \in Sessions, Condemned(x), x # stop[t].s
        PROVE  Condemned(x)'
    BY <2>1, <1>1, <1>3 DEF Condemned
  <2> QED
    BY <2>1, <1>1, <1>4 DEF NoLeakedSession
<1> QED
  BY <1>6, <1>7, <1>8

\* A subscription that starts a session: the one it replaces stays in its hands.
LEMMA StartThreads ==
  ASSUME TypeOK, MadeInv, ManagerInv, ThreadInv, NEW v \in Clients, NEW c \in Channels,
         NEW rev \in MaybeRevision, NEW src \in Sources, NEW s \in Sessions,
         Starts(v, c, rev, src, s)
  PROVE  ThreadInv'
<1> USE DEF ThreadInv
<1>1. PICK e \in 0..MaxEpoch : StartSession(s, c, src, e)
  BY ConstantsAssumption DEF Starts, SubscribeStart, SubscribeReplace, TypeOK
<1>2. /\ UNCHANGED <<stopped, stop, admin>>
      /\ client[v].pc = "out"
      /\ \E stale \in {None, sessions[c]} :
           /\ client' = [client EXCEPT ![v] = [pc |-> "adding", s |-> s, stale |-> stale]]
           /\ sessions[c] \in stopped \cup {None, stale}
  BY DEF Starts, SubscribeStart, SubscribeReplace, Admitted, Attach
<1>3. /\ run[s] = "new"
      /\ run'[s] = "loop"
      /\ made'[s].channel = c
      /\ sessions'[c] = s
      /\ \A x \in Sessions : x # s => run'[x] = run[x] /\ made'[x] = made[x]
      /\ \A d \in Channels : d # c => sessions'[d] = sessions[d]
  BY <1>1 DEF StartSession, TypeOK
<1>4. StopInv'
  BY <1>2, <1>3 DEF StopInv
<1>5. ClientInv'
  <2>1. \A w \in Clients : w # v => client'[w] = client[w]
    BY <1>2 DEF TypeOK
  <2>2. client'[v].pc = "adding" /\ client'[v].s = s
    BY <1>2 DEF TypeOK
  <2> QED
    BY <1>2, <2>1, <2>2 DEF ClientInv
<1>6. NoLeakedSession'
  <2>1. \A w \in Clients : w # v => client'[w] = client[w]
    BY <1>2 DEF TypeOK
  <2>2. client[v].stale = None
    BY <1>2 DEF ClientInv
  <2>3. ASSUME NEW x \in Sessions, Condemned(x)
        PROVE  Condemned(x)'
    BY <2>1, <2>2, <2>3, <1>2, ConstantsAssumption DEF Condemned
  <2>4. ASSUME NEW x \in Sessions, run'[x] \in Pumping, x # s
        PROVE  sessions'[made'[x].channel] = x \/ x \in stopped' \/ Condemned(x)'
    <3>1. made'[x] = made[x] /\ run[x] \in Pumping /\ made[x].channel \in Channels
      BY <2>4, <1>3 DEF MadeInv, Made, Pumping
    <3>2. CASE sessions[made[x].channel] = x
      <4>1. CASE made[x].channel = c
        <5>1. x \in stopped \/ client'[v].stale = x
          BY <1>2, <3>2, <4>1, ConstantsAssumption DEF TypeOK
        <5> QED
          BY <5>1, <1>2 DEF Condemned
      <4>2. CASE made[x].channel # c
        BY <4>2, <3>1, <3>2, <1>3
      <4> QED
        BY <4>1, <4>2
    <3>3. CASE x \in stopped \/ Condemned(x)
      BY <3>3, <2>3, <1>2
    <3> QED
      BY <3>1, <3>2, <3>3 DEF NoLeakedSession
  <2> QED
    BY <2>4, <1>3 DEF NoLeakedSession
<1> QED
  BY <1>4, <1>5, <1>6

\* The other steps of a client: joining, adding the viewer and starting to stop
\* the replaced session, and leaving.
LEMMA ClientThreads ==
  ASSUME TypeOK, MapInv, ThreadInv, NEW v \in Clients
  PROVE  /\ \A c \in Channels, rev \in MaybeRevision, src \in Sources :
              SubscribeJoin(v, c, rev, src) => ThreadInv'
         /\ SubscribeAdd(v) => ThreadInv'
         /\ SubscribeReady(v) => ThreadInv'
         /\ client[v].pc \in {"waiting", "reading"} /\ stop[v].pc = "none" /\ RemoveViewer(v) => ThreadInv'
<1> USE DEF ThreadInv
<1>1. ASSUME UNCHANGED <<sessions, made, stopped, run, stop, admin>>,
             \E new \in ClientState :
               /\ client' = [client EXCEPT ![v] = new]
               /\ new.stale = client[v].stale
               /\ new.pc # "out" => new.s \in Sessions
               /\ new.pc # "adding" => new.stale = None
               /\ new.pc # "waiting" => stop[v].pc = "none"
      PROVE  ThreadInv'
  <2>1. \A w \in Clients : client'[w].stale = client[w].stale
    BY <1>1 DEF TypeOK
  <2>2. StopInv'
    BY <1>1 DEF StopInv
  <2>3. ClientInv'
    BY <1>1 DEF ClientInv, TypeOK
  <2>4. NoLeakedSession'
    BY <2>1, <1>1 DEF NoLeakedSession, Condemned
  <2> QED
    BY <2>2, <2>3, <2>4
<1>2. ASSUME NEW c \in Channels, NEW rev \in MaybeRevision, NEW src \in Sources,
             SubscribeJoin(v, c, rev, src)
      PROVE  ThreadInv'
  <2> DEFINE new == [pc |-> "adding", s |-> sessions[c], stale |-> None]
  <2>1. /\ UNCHANGED <<sessions, made, stopped, run, stop, admin>>
        /\ client' = [client EXCEPT ![v] = new]
        /\ client[v].pc = "out"
        /\ sessions[c] # None
    BY <1>2 DEF SubscribeJoin, Admitted, Attach, sessionVars
  <2>2. new \in ClientState /\ new.s \in Sessions
    BY <2>1 DEF TypeOK, ClientState, MaybeSession
  <2>3. client[v].stale = None /\ stop[v].pc = "none"
    BY <2>1 DEF ClientInv
  <2> QED
    BY <2>1, <2>2, <2>3, <1>1
<1>3. ASSUME SubscribeReady(v) PROVE ThreadInv'
  <2> DEFINE new == [client[v] EXCEPT !.pc = "reading"]
  <2>1. /\ UNCHANGED <<sessions, made, stopped, run, stop, admin>>
        /\ client' = [client EXCEPT ![v] = new]
        /\ client[v].pc = "waiting"
        /\ stop[v].pc = "none"
    BY <1>3 DEF SubscribeReady, managerVars, sessionVars
  <2>2. new \in ClientState /\ new.stale = client[v].stale /\ new.s = client[v].s /\ new.pc = "reading"
    BY <2>1 DEF TypeOK, ClientState
  <2>3. client[v].stale = None /\ client[v].s \in Sessions
    BY <2>1 DEF ClientInv
  <2> QED
    BY <2>1, <2>2, <2>3, <1>1
<1>4. ASSUME client[v].pc \in {"waiting", "reading"}, stop[v].pc = "none", RemoveViewer(v) PROVE ThreadInv'
  <2>1. /\ UNCHANGED <<sessions, made, stopped, run, stop, admin>>
        /\ client' = [client EXCEPT ![v] = Outside]
    BY <1>4 DEF RemoveViewer, managerVars
  <2>2. Outside \in ClientState
    BY DEF Outside, ClientState, MaybeSession
  <2>3. client[v].stale = None
    BY <1>4 DEF ClientInv
  <2> QED
    BY <2>1, <2>2, <2>3, <1>1, <1>4 DEF Outside
<1>5. ASSUME SubscribeAdd(v) PROVE ThreadInv'
  <2> DEFINE new == [pc |-> "waiting", s |-> client[v].s, stale |-> None]
             r == client[v].stale
  <2>1. /\ UNCHANGED <<sessions, made, stopped, run, admin>>
        /\ client' = [client EXCEPT ![v] = new]
        /\ client[v].pc = "adding"
        /\ r = None => stop' = stop
        /\ r # None => stop' = [stop EXCEPT ![v] = [pc |-> "mark", s |-> r]]
    BY <1>5 DEF SubscribeAdd, StartStop
  <2>2. client[v].s \in Sessions /\ stop[v].pc = "none" /\ r \in MaybeSession
    BY <2>1 DEF ClientInv, TypeOK, ClientState
  <2>3. /\ \A w \in Clients : w # v => client'[w] = client[w]
        /\ client'[v] = new
    BY <2>1 DEF TypeOK
  <2>4. /\ \A t \in Threads : t # v => stop'[t] = stop[t]
        /\ v \in Threads
    BY <2>1 DEF TypeOK, Threads
  <2>5. r # None => stop'[v].pc = "mark" /\ stop'[v].s = r
    BY <2>1, <2>4 DEF TypeOK
  <2>6. StopInv'
    <3>1. \A s \in Sessions : stop'[s] = stop[s]
      BY <2>4, ConstantsAssumption DEF Threads
    <3> QED
      BY <2>1, <2>2, <2>4, <2>5, <3>1 DEF StopInv, MaybeSession
  <2>7. ClientInv'
    BY <2>2, <2>3, <2>4 DEF ClientInv, Threads
  <2>8. NoLeakedSession'
    <3>1. ASSUME NEW x \in Sessions, Condemned(x)
          PROVE  Condemned(x)'
      BY <3>1, <2>1, <2>2, <2>3, <2>4, <2>5, ConstantsAssumption DEF Condemned
    <3> QED
      BY <3>1, <2>1 DEF NoLeakedSession
  <2> QED
    BY <2>6, <2>7, <2>8
<1> QED
  BY <1>2, <1>3, <1>4, <1>5

\* A tear-down call keeps the sessions it retires on its list until it starts
\* to stop them.
LEMMA AdminThreads ==
  ASSUME TypeOK, MadeInv, ThreadInv, NEW a \in Admins
  PROVE  /\ Tears(a) => ThreadInv'
         /\ \A s \in Sessions : AdminStop(a, s) => ThreadInv'
         /\ AdminReturn(a) => ThreadInv'
<1> USE DEF ThreadInv
<1>1. ASSUME Tears(a) PROVE ThreadInv'
  <2>1. PICK cs \in SUBSET Channels : TearFrame(a, cs)
    BY <1>1, TearFrameLemma
  <2>2. /\ UNCHANGED <<made, stopped, run, stop, client>>
        /\ admin[a].todo = {}
    BY <2>1 DEF TearFrame, sessionVars, NotWaiting
  <2>3. /\ \A b \in Admins : b # a => admin'[b] = admin[b]
        /\ \A c \in cs : sessions[c] # None => sessions[c] \in admin'[a].todo
        /\ \A c \in Channels \ cs : sessions'[c] = sessions[c]
    BY <2>1 DEF TearFrame, Retire, TypeOK
  <2>4. StopInv' /\ ClientInv'
    BY <2>2 DEF StopInv, ClientInv
  <2>5. NoLeakedSession'
    <3>1. ASSUME NEW x \in Sessions, Condemned(x)
          PROVE  Condemned(x)'
      BY <3>1, <2>2, <2>3 DEF Condemned
    <3>2. ASSUME NEW x \in Sessions, run[x] \in Pumping, sessions[made[x].channel] = x
          PROVE  sessions'[made[x].channel] = x \/ Condemned(x)'
      <4>1. made[x].channel \in Channels
        BY <3>2 DEF MadeInv, Made, Pumping
      <4> QED
        BY <4>1, <3>2, <2>3, ConstantsAssumption DEF Condemned
    <3> QED
      BY <3>1, <3>2, <2>2 DEF NoLeakedSession
  <2> QED
    BY <2>4, <2>5
<1>2. ASSUME NEW s \in Sessions, AdminStop(a, s) PROVE ThreadInv'
  <2>1. /\ UNCHANGED <<sessions, made, stopped, run, client>>
        /\ stop[a].pc = "none"
        /\ a \in Threads
    BY <1>2 DEF AdminStop, managerVars, sessionVars, Threads
  <2>2. /\ \A t \in Threads : t # a => stop'[t] = stop[t]
        /\ stop'[a].pc = "mark" /\ stop'[a].s = s
    BY <1>2, <2>1 DEF AdminStop, StartStop, TypeOK
  <2>3. /\ \A b \in Admins : b # a => admin'[b] = admin[b]
        /\ admin'[a].todo = admin[a].todo \ {s}
    BY <1>2 DEF AdminStop, TypeOK, AdminState
  <2>4. StopInv'
    <3>1. \A x \in Sessions : stop'[x] = stop[x]
      BY <2>2, ConstantsAssumption DEF Threads
    <3> QED
      BY <2>1, <2>2, <3>1 DEF StopInv
  <2>5. ClientInv'
    <3>1. \A v \in Clients : stop'[v] = stop[v]
      BY <2>2, ConstantsAssumption DEF Threads
    <3> QED
      BY <2>1, <3>1 DEF ClientInv
  <2>6. NoLeakedSession'
    <3>1. ASSUME NEW x \in Sessions, Condemned(x)
          PROVE  Condemned(x)'
      BY <3>1, <2>1, <2>2, <2>3 DEF Condemned
    <3> QED
      BY <3>1, <2>1 DEF NoLeakedSession
  <2> QED
    BY <2>4, <2>5, <2>6
<1>3. ASSUME AdminReturn(a) PROVE ThreadInv'
  <2>1. /\ UNCHANGED <<sessions, made, stopped, run, stop, client>>
        /\ \A b \in Admins : admin'[b].todo = admin[b].todo
    BY <1>3 DEF AdminReturn, managerVars, sessionVars, TypeOK, AdminState
  <2> QED
    BY <2>1 DEF StopInv, ClientInv, NoLeakedSession, Condemned
<1> QED
  BY <1>1, <1>2, <1>3

-----------------------------------------------------------------------------
(***************************************************************************)
(* The inductive invariant and what follows from it.                       *)
(***************************************************************************)

\* NewManager establishes the invariant.
LEMMA InitIInv == ASSUME Init PROVE IInv
<1> USE DEF Init
<1>1. TypeOK
  <2>1. NotStopping \in StopState /\ Outside \in ClientState /\ NotWaiting \in AdminState
    BY DEF StopState, NotStopping, ClientState, Outside, AdminState, NotWaiting, MaybeSession
  <2>2. 0 \in 0..MaxEpoch /\ 0 \in 0..MaxBudget
    BY ConstantsAssumption
  <2> QED
    BY <2>1, <2>2 DEF TypeOK, MaybeRevision, MaybeSession, RunPC
<1>2. MadeInv /\ FreshInv /\ EpochInv
  BY DEF MadeInv, FreshInv, EpochInv
<1>3. MapInv /\ StickyInv /\ RefusedHasNoSession /\ JoinableRunsProfile
  BY DEF MapInv, StickyInv, RefusedHasNoSession, JoinableRunsProfile
<1>4. StopInv /\ ClientInv
  BY DEF StopInv, ClientInv, NotStopping, Outside, Threads
<1>5. NoLeakedSession
  BY DEF NoLeakedSession, Pumping
<1> QED
  BY <1>1, <1>2, <1>3, <1>4, <1>5 DEF IInv

\* The parts of IInv, as the lemmas group them.
LEMMA IInvParts ==
  /\ IInv <=> TypeOK /\ MadeInv /\ FreshInv /\ ManagerInv /\ ThreadInv
  /\ IInv' <=> TypeOK' /\ MadeInv' /\ FreshInv' /\ ManagerInv' /\ ThreadInv'
BY DEF IInv, ManagerInv, ThreadInv

\* A step that leaves run, made and attempts alone keeps their invariants.
LEMMA MadeFrame ==
  ASSUME MadeInv, FreshInv, UNCHANGED <<run, made, attempts>>
  PROVE  MadeInv' /\ FreshInv'
BY DEF MadeInv, FreshInv

\* Steps of a viewer's request.
LEMMA ClientIInv ==
  ASSUME IInv, NEW v \in Clients, ClientStep(v)
  PROVE  IInv'
<1> USE IInvParts
<1>1. ASSUME NEW c \in Channels, NEW rev \in MaybeRevision, NEW src \in Sources, NEW s \in Sessions,
             SubscribeStart(v, c, rev, src, s) \/ SubscribeReplace(v, c, rev, src, s)
      PROVE  IInv'
  BY <1>1, StartTypes, StartManager, StartThreads DEF Starts
<1>2. ASSUME UNCHANGED <<closed, profile, blocked, sticky, epochs, sessions, made, retired, run, attempts>>,
             TypeOK', ThreadInv'
      PROVE  IInv'
  <2>1. ManagerInv'
    BY <1>2, ManagerFrame
  <2>2. MadeInv' /\ FreshInv'
    BY <1>2, MadeFrame
  <2> QED
    BY <1>2, <2>1, <2>2
<1>3. ASSUME NEW c \in Channels, NEW rev \in MaybeRevision, NEW src \in Sources,
             SubscribeJoin(v, c, rev, src)
      PROVE  IInv'
  <2>1. TypeOK' /\ ThreadInv'
    BY <1>3, ClientTypes, ClientThreads DEF ManagerInv, ThreadInv
  <2> QED
    BY <1>2, <1>3, <2>1 DEF SubscribeJoin, sessionVars
<1>4. ASSUME SubscribeAdd(v) PROVE IInv'
  <2>1. TypeOK' /\ ThreadInv'
    BY <1>4, ClientTypes, ClientThreads DEF ManagerInv, ThreadInv
  <2> QED
    BY <1>2, <1>4, <2>1 DEF SubscribeAdd
<1>5. ASSUME SubscribeReady(v) PROVE IInv'
  <2>1. TypeOK' /\ ThreadInv'
    BY <1>5, ClientTypes, ClientThreads DEF ManagerInv, ThreadInv
  <2> QED
    BY <1>2, <1>5, <2>1 DEF SubscribeReady, managerVars, sessionVars
<1>6. ASSUME SubscribeFailed(v) \/ ReaderEOF(v) \/ ClientGone(v) PROVE IInv'
  <2>1. client[v].pc \in {"waiting", "reading"} /\ stop[v].pc = "none" /\ RemoveViewer(v)
    BY <1>6 DEF SubscribeFailed, ReaderEOF, ClientGone, ThreadInv, ClientInv
  <2>2. TypeOK' /\ ThreadInv'
    BY <2>1, ClientTypes, ClientThreads DEF ManagerInv, ThreadInv
  <2> QED
    BY <1>2, <2>1, <2>2 DEF RemoveViewer, managerVars
<1> QED
  BY <1>1, <1>3, <1>4, <1>5, <1>6 DEF ClientStep

\* Steps of a tear-down call.
LEMMA AdminIInv ==
  ASSUME IInv, NEW a \in Admins, AdminStep(a)
  PROVE  IInv'
<1> USE IInvParts
<1>1. CASE Tears(a)
  <2>1. UNCHANGED <<run, made, attempts>>
    BY <1>1, TearFrameLemma DEF TearFrame, sessionVars
  <2> QED
    BY <1>1, <2>1, MadeFrame, AdminTypes, TearManager, AdminThreads
<1>2. ASSUME NEW s \in Sessions, AdminStop(a, s) PROVE IInv'
  <2>1. UNCHANGED <<closed, profile, blocked, sticky, epochs, sessions, made, retired, run, attempts>>
    BY <1>2 DEF AdminStop, managerVars, sessionVars
  <2> QED
    BY <1>2, <2>1, MadeFrame, ManagerFrame, AdminTypes, AdminThreads
<1>3. CASE AdminReturn(a)
  <2>1. UNCHANGED <<closed, profile, blocked, sticky, epochs, sessions, made, retired, run, attempts>>
    BY <1>3 DEF AdminReturn, managerVars, sessionVars
  <2> QED
    BY <1>3, <2>1, MadeFrame, ManagerFrame, AdminTypes, AdminThreads
<1> QED
  BY <1>1, <1>2, <1>3 DEF AdminStep, Tears, AdminDone, AdminTimeout

\* Steps of a session's goroutine.
LEMMA RunIInv ==
  ASSUME IInv, NEW s \in Sessions, RunStep(s)
  PROVE  IInv'
<1> USE IInvParts
<1>1. CASE PumpStep(s)
  <2>1. PumpFrame(s)
    BY <1>1, PumpFrameLemma
  <2>2. UNCHANGED <<closed, profile, blocked, sticky, epochs, sessions, made, retired>>
    BY <2>1 DEF PumpFrame, managerVars, threadVars
  <2>3. \A x \in Sessions :
          /\ run'[x] = "new" <=> run[x] = "new"
          /\ run'[x] \in {"remember", "done"} => run[x] \in {"remember", "done"}
    BY <2>1 DEF PumpFrame, Pumping, TypeOK
  <2>4. ManagerInv'
    BY <2>2, <2>3, ManagerFrame
  <2> QED
    BY <1>1, <2>1, <2>4, PumpTypes, PumpThreads
<1>2. CASE RunExit(s)
  <2>1. UNCHANGED <<closed, profile, blocked, sticky, epochs, sessions, made, retired>>
    BY <1>2 DEF RunExit, managerVars
  <2>2. \A x \in Sessions :
          /\ run'[x] = "new" <=> run[x] = "new"
          /\ run'[x] \in {"remember", "done"} => run[x] \in {"remember", "done"}
    BY <1>2 DEF RunExit, Goto, TypeOK
  <2>3. ManagerInv'
    BY <2>1, <2>2, ManagerFrame
  <2> QED
    BY <1>2, <2>3, ExitTypes, ExitThreads
<1>3. CASE RemoveSession(s) \/ RememberFinish(s)
  BY <1>3, ExitTypes, ExitManager, ExitThreads
<1> QED
  BY <1>1, <1>2, <1>3 DEF RunStep, PumpStep

\* Steps inside stop().
LEMMA StopIInv ==
  ASSUME IInv, NEW t \in Threads, StopStep(t)
  PROVE  IInv'
<1> USE IInvParts
<1>1. UNCHANGED <<closed, profile, blocked, sticky, epochs, sessions, made, retired, run, attempts>>
  BY DEF StopStep, StopAlready, StopMark, StopDetach, StopUnblock, managerVars, sessionVars
<1>2. TypeOK' /\ ThreadInv'
  BY StopTypes, StopThreads DEF ThreadInv
<1> QED
  BY <1>1, <1>2, MadeFrame, ManagerFrame

\* IInv is an invariant of the manager: no interleaving of requests, tear-downs
\* and session goroutines breaks it.
THEOREM Invariance == Spec => []IInv
<1>1. Init => IInv
  BY InitIInv
<1>2. IInv /\ [Next]_vars => IInv'
  <2> SUFFICES ASSUME IInv, [Next]_vars PROVE IInv'
    OBVIOUS
  <2>1. CASE UNCHANGED vars
    <3>1. UNCHANGED <<closed, profile, blocked, sticky, epochs, sessions, made, retired, run, attempts>>
      BY <2>1 DEF vars, managerVars, sessionVars, threadVars
    <3>2. TypeOK'
      BY <2>1, IInvParts DEF vars, managerVars, sessionVars, threadVars, TypeOK
    <3>3. ThreadInv'
      BY <2>1, IInvParts DEF vars, managerVars, sessionVars, threadVars, ThreadInv, StopInv,
         ClientInv, NoLeakedSession, Condemned
    <3> QED
      BY <3>1, <3>2, <3>3, IInvParts, MadeFrame, ManagerFrame
  <2>2. CASE Next
    BY <2>2, ClientIInv, AdminIInv, RunIInv, StopIInv DEF Next
  <2> QED
    BY <2>1, <2>2
<1> QED
  BY <1>1, <1>2, PTL DEF Spec

\* Types, and with them the bound on the attempts of a session.
THEOREM TypeCorrect == Spec => []TypeOK
<1>1. IInv => TypeOK
  BY DEF IInv
<1> QED
  BY <1>1, Invariance, PTL

\* No session is lost (startSession, retireSession, stop and removeSession).
THEOREM NoLeak == Spec => []NoLeakedSession
<1>1. IInv => NoLeakedSession
  BY DEF IInv
<1> QED
  BY <1>1, Invariance, PTL

\* BlockChannel and Close leave nothing to join.
THEOREM Refused == Spec => []RefusedHasNoSession
<1>1. IInv => RefusedHasNoSession
  BY DEF IInv
<1> QED
  BY <1>1, Invariance, PTL

\* ApplyProfile leaves no joinable session of an old profile.
THEOREM ProfileInstalled == Spec => []JoinableRunsProfile
<1>1. IInv => JoinableRunsProfile
  BY DEF IInv
<1> QED
  BY <1>1, Invariance, PTL

\* rememberFinish records only the failure of a channel's newest session: the
\* epochs order the sessions of a channel, and a sticky one has the highest.
THEOREM StickyNewest == Spec => []StickyIsNewestFailure
<1>1. IInv => StickyIsNewestFailure
  <2> SUFFICES ASSUME IInv, NEW c \in Channels, sticky[c] # None
               PROVE  /\ sticky[c] \notin retired
                      /\ \A s \in Sessions :
                           run[s] # "new" /\ made[s].channel = c /\ s # sticky[c] =>
                             made[s].epoch < made[sticky[c]].epoch
    BY DEF StickyIsNewestFailure
  <2>1. /\ sticky[c] \in Sessions
        /\ run[sticky[c]] # "new"
        /\ made[sticky[c]].channel = c
        /\ made[sticky[c]].epoch = epochs[c]
        /\ epochs[c] \in Nat
    BY ConstantsAssumption DEF IInv, StickyInv, Newest, TypeOK, MaybeSession
  <2>2. sticky[c] \notin retired
    BY <2>1 DEF IInv, EpochInv
  <2>3. ASSUME NEW s \in Sessions, run[s] # "new", made[s].channel = c, s # sticky[c]
        PROVE  made[s].epoch < made[sticky[c]].epoch
    <3>1. made[s].epoch \in Nat /\ made[s].epoch <= epochs[c]
      BY <2>3, ConstantsAssumption DEF IInv, MadeInv, Made, EpochInv
    <3>2. made[s].epoch # made[sticky[c]].epoch
      BY <2>1, <2>3 DEF IInv, EpochInv
    <3> QED
      BY <2>1, <3>1, <3>2
  <2> QED
    BY <2>2, <2>3
<1> QED
  BY <1>1, Invariance, PTL

\* A session leaves the map only when stopped or retired: removeSession runs
\* after the session's own stop(), and its identity test protects newer ones.
THEOREM EvictsOnlyDead == Spec => EvictsOnlyDeadSessions
<1> DEFINE Kept == \A c \in Channels :
                     sessions[c] # None /\ sessions'[c] # sessions[c] =>
                       sessions[c] \in stopped' \cup retired'
<1>1. IInv /\ [Next]_vars => Kept
  <2> SUFFICES ASSUME IInv, [Next]_vars PROVE Kept
    OBVIOUS
  <2>1. CASE UNCHANGED vars
    BY <2>1 DEF vars, managerVars
  <2>2. ASSUME NEW v \in Clients, ClientStep(v) PROVE Kept
    <3>1. ASSUME NEW c \in Channels, NEW rev \in MaybeRevision, NEW src \in Sources,
                 NEW s \in Sessions,
                 SubscribeStart(v, c, rev, src, s) \/ SubscribeReplace(v, c, rev, src, s)
          PROVE  Kept
      <4>1. \A d \in Channels : d # c => sessions'[d] = sessions[d]
        BY <3>1 DEF SubscribeStart, SubscribeReplace, StartSession, IInv, TypeOK
      <4>2. sessions[c] # None => sessions[c] \in stopped' \cup retired'
        BY <3>1 DEF SubscribeStart, SubscribeReplace
      <4> QED
        BY <4>1, <4>2
    <3>2. ASSUME UNCHANGED sessions PROVE Kept
      BY <3>2
    <3> QED
      BY <2>2, <3>1, <3>2 DEF ClientStep, SubscribeJoin, SubscribeAdd, SubscribeReady,
         SubscribeFailed, ReaderEOF, ClientGone, RemoveViewer, managerVars
  <2>3. ASSUME NEW a \in Admins, AdminStep(a) PROVE Kept
    <3>1. CASE Tears(a)
      <4>1. PICK cs \in SUBSET Channels : TearFrame(a, cs)
        BY <3>1, TearFrameLemma DEF IInv
      <4> QED
        BY <4>1 DEF TearFrame, Retire
    <3>2. ASSUME UNCHANGED sessions PROVE Kept
      BY <3>2
    <3> QED
      BY <2>3, <3>1, <3>2 DEF AdminStep, Tears, AdminStop, AdminDone, AdminTimeout, AdminReturn,
         managerVars
  <2>4. ASSUME NEW s \in Sessions, RunStep(s) PROVE Kept
    <3>1. CASE RemoveSession(s)
      <4>1. s \in stopped /\ UNCHANGED stopped
        BY <3>1 DEF RemoveSession, IInv, StopInv
      <4>2. \A d \in Channels : sessions'[d] # sessions[d] => sessions[d] = s
        BY <3>1 DEF RemoveSession, IInv, TypeOK
      <4> QED
        BY <4>1, <4>2
    <3>2. ASSUME UNCHANGED sessions PROVE Kept
      BY <3>2
    <3>3. CASE PumpStep(s)
      BY <3>2, <3>3, PumpFrameLemma DEF PumpFrame, managerVars, IInv
    <3> QED
      BY <2>4, <3>1, <3>2, <3>3 DEF RunStep, PumpStep, RunExit, RememberFinish, managerVars
  <2>5. ASSUME NEW t \in Threads, StopStep(t) PROVE Kept
    BY <2>5 DEF StopStep, StopAlready, StopMark, StopDetach, StopUnblock, managerVars
  <2> QED
    BY <2>1, <2>2, <2>3, <2>4, <2>5 DEF Next
<1> QED
  BY <1>1, Invariance, PTL DEF Spec, EvictsOnlyDeadSessions

\* The manager implements LiveManager: whatever happens under m.mu in several
\* steps or threads is, for the four maps the handlers depend on, one admitted
\* Subscribe, one publication or tear-down, or the end of a session.
THEOREM ManagerImplementsLive == Spec => ImplementsLiveManager
<1>1. Init => Live!LiveInit
  BY DEF Init, Live!LiveInit
<1>2. IInv /\ [Next]_vars => [Live!LiveNext]_(Live!liveVars)
  <2> SUFFICES ASSUME IInv, [Next]_vars
               PROVE  Live!LiveNext \/ UNCHANGED Live!liveVars
    OBVIOUS
  <2> USE DEF Live!liveVars
  <2>1. CASE UNCHANGED vars
    BY <2>1 DEF vars, managerVars
  <2>2. ASSUME NEW v \in Clients, ClientStep(v)
        PROVE  Live!LiveNext \/ UNCHANGED Live!liveVars
    <3>1. ASSUME NEW c \in Channels, NEW rev \in MaybeRevision, NEW src \in Sources,
                 SubscribeJoin(v, c, rev, src)
          PROVE  Live!LiveNext
      <4>1. Live!Join(c, rev)
        BY <3>1 DEF SubscribeJoin, Admitted, RecordRevision, Live!Join, Live!Admits, Live!Record
      <4> QED
        BY <4>1 DEF Live!LiveNext, MaybeRevision
    <3>2. ASSUME NEW c \in Channels, NEW rev \in MaybeRevision, NEW src \in Sources,
                 NEW s \in Sessions,
                 SubscribeStart(v, c, rev, src, s) \/ SubscribeReplace(v, c, rev, src, s)
          PROVE  Live!LiveNext
      <4>1. \A d \in Channels : sessions[d] # s
        BY <3>2, ConstantsAssumption
        DEF SubscribeStart, SubscribeReplace, StartSession, IInv, MapInv, Newest
      <4>2. Live!Start(c, rev, s)
        BY <3>2, <4>1 DEF SubscribeStart, SubscribeReplace, StartSession, Admitted, RecordRevision,
           Live!Start, Live!Admits, Live!Record
      <4> QED
        BY <4>2 DEF Live!LiveNext, MaybeRevision
    <3>3. ASSUME UNCHANGED <<closed, revisions, blocked, sessions>>
          PROVE  UNCHANGED Live!liveVars
      BY <3>3
    <3> QED
      BY <2>2, <3>1, <3>2, <3>3 DEF ClientStep, SubscribeAdd, SubscribeReady,
         SubscribeFailed, ReaderEOF, ClientGone, RemoveViewer, managerVars
  <2>3. ASSUME NEW a \in Admins, AdminStep(a)
        PROVE  Live!LiveNext \/ UNCHANGED Live!liveVars
    <3> USE DEF Live!Detach, Retire
    <3>1. ASSUME NEW c \in Channels, NEW rev \in MaybeRevision, NEW invalidate \in BOOLEAN,
                 PublishChannel(a, c, rev, invalidate)
          PROVE  Live!LiveNext
      <4>1. Live!Publish(c, rev, invalidate)
        BY <3>1 DEF PublishChannel, RecordRevision, Live!Publish, Live!Record
      <4> QED
        BY <4>1 DEF Live!LiveNext, MaybeRevision
    <3>2. ASSUME NEW c \in Channels, BlockChannel(a, c)
          PROVE  Live!LiveNext
      <4>1. Live!Block(c)
        BY <3>2 DEF BlockChannel, Live!Block
      <4> QED
        BY <4>1 DEF Live!LiveNext
    <3>3. ASSUME NEW p \in Profiles, ApplyProfile(a, p)
          PROVE  Live!LiveNext
      <4> DEFINE cs == {c \in Channels : sessions[c] # None /\ made[sessions[c]].src.transcode}
      <4>1. Live!Retire(cs)
        BY <3>3 DEF ApplyProfile, Live!Retire
      <4> QED
        BY <4>1 DEF Live!LiveNext
    <3>4. ASSUME Close(a)
          PROVE  Live!LiveNext
      <4>1. sessions' = [c \in Channels |-> IF c \in Channels THEN None ELSE sessions[c]]
        BY <3>4 DEF Close
      <4>2. Live!CloseAll
        BY <3>4, <4>1 DEF Close, Live!CloseAll
      <4> QED
        BY <4>2 DEF Live!LiveNext
    <3>5. ASSUME UNCHANGED <<closed, revisions, blocked, sessions>>
          PROVE  UNCHANGED Live!liveVars
      BY <3>5
    <3> QED
      BY <2>3, <3>1, <3>2, <3>3, <3>4, <3>5
      DEF AdminStep, AdminStop, AdminDone, AdminTimeout, AdminReturn, managerVars
  <2>4. ASSUME NEW s \in Sessions, RunStep(s)
        PROVE  Live!LiveNext \/ UNCHANGED Live!liveVars
    <3>1. CASE RemoveSession(s)
      <4> DEFINE cs == {c \in Channels : c = made[s].channel /\ sessions[c] = s}
      <4>1. sessions' = [c \in Channels |-> IF c \in cs THEN None ELSE sessions[c]]
        BY <3>1 DEF RemoveSession, IInv, TypeOK
      <4>2. Live!Retire(cs)
        BY <3>1, <4>1 DEF RemoveSession, Live!Retire, Live!Detach
      <4> QED
        BY <4>2 DEF Live!LiveNext
    <3>2. ASSUME UNCHANGED <<closed, revisions, blocked, sessions>>
          PROVE  UNCHANGED Live!liveVars
      BY <3>2
    <3>3. CASE PumpStep(s)
      BY <3>2, <3>3, PumpFrameLemma DEF PumpFrame, managerVars, IInv
    <3> QED
      BY <2>4, <3>1, <3>2, <3>3 DEF RunStep, PumpStep, RunExit, RememberFinish, managerVars
  <2>5. ASSUME NEW t \in Threads, StopStep(t)
        PROVE  UNCHANGED Live!liveVars
    BY <2>5 DEF StopStep, StopAlready, StopMark, StopDetach, StopUnblock, managerVars
  <2> QED
    BY <2>1, <2>2, <2>3, <2>4, <2>5 DEF Next
<1> QED
  BY <1>1, <1>2, Invariance, PTL DEF Spec, ImplementsLiveManager, Live!LiveSpec


-----------------------------------------------------------------------------
(***************************************************************************)
(* What a step may do to one session, as its waiting viewers see it: the   *)
(* cases from which both the invariant of the verdict and the refinement   *)
(* of SessionAttempts follow.                                              *)
(***************************************************************************)
SameCount(x) == attempts'[x] = attempts[x] /\ made'[x] = made[x]

Still(x) == run'[x] = run[x] /\ ready'[x] = ready[x] /\ SameCount(x)

Begins(x) ==
  /\ run[x] = "new" /\ run'[x] = "loop"
  /\ ready'[x] = ready[x] /\ attempts'[x] = attempts[x]
  /\ made'[x].src \in Sources

GoesOn(x) ==
  /\ run[x] \in Pumping /\ run'[x] \in Pumping \cup {"exit"}
  /\ ready'[x] = ready[x] /\ SameCount(x)

Plays(x) ==
  /\ run[x] = "read" /\ run'[x] = "read"
  /\ ready'[x] = (IF ready[x] = "no" THEN "yes" ELSE ready[x]) /\ SameCount(x)

Retries(x) ==
  /\ run[x] = "read" /\ run'[x] = "loop" /\ x \notin stopped
  /\ ready[x] # "yes" /\ ready'[x] = ready[x]
  /\ attempts[x] + 1 < made[x].src.budget /\ attempts'[x] = attempts[x] + 1 /\ made'[x] = made[x]

FailsForGood(x) ==
  /\ run[x] = "read" /\ run'[x] = "exit" /\ x \notin stopped
  /\ ready[x] # "yes" /\ ready'[x] = IF ready[x] = "no" THEN "failed" ELSE ready[x]
  /\ made[x].src.walk => attempts[x] + 1 >= made[x].src.budget

Leaves(x) ==
  /\ <<run[x], run'[x]>> \in {<<"exit", "stopping">>, <<"stopping", "remember">>, <<"remember", "done">>}
  /\ ready'[x] = ready[x] \/ (ready[x] = "no" /\ ready'[x] = "failed")
  /\ SameCount(x)

Unblocks(x) ==
  /\ x \in stopped /\ run[x] # "new" /\ run'[x] = run[x]
  /\ ready'[x] = (IF ready[x] = "no" THEN "stopped" ELSE ready[x]) /\ SameCount(x)

Moves(x) ==
  \/ Still(x) \/ Begins(x) \/ GoesOn(x) \/ Plays(x) \/ Retries(x) \/ FailsForGood(x)
  \/ Leaves(x) \/ Unblocks(x)

\* A thread inside stop() stops a session that was started: a client or an admin
\* one that was retired, a run goroutine its own.
LEMMA StopsStarted ==
  ASSUME IInv, CondemnedInv, NEW t \in Threads, stop[t].pc # "none"
  PROVE  stop[t].s \in Sessions /\ run[stop[t].s] # "new"
<1>1. stop[t].s \in Sessions
  BY DEF IInv, StopInv
<1>2. CASE t \in Clients \cup Admins
  <2>1. stop[t].s \in retired
    BY <1>2 DEF CondemnedInv
  <2>2. \A s \in retired : run[s] # "new"
    BY DEF IInv, EpochInv
  <2> QED
    BY <1>1, <2>1, <2>2
<1>3. CASE t \in Sessions
  BY <1>3 DEF IInv, StopInv
<1> QED
  BY <1>1, <1>2, <1>3 DEF Threads

LEMMA PumpMoves ==
  ASSUME IInv, NEW s \in Sessions, PumpStep(s), NEW x \in Sessions
  PROVE  Moves(x)
<1>0. /\ run \in [Sessions -> RunPC] /\ ready \in [Sessions -> {"no", "yes", "failed", "stopped"}]
      /\ attempts \in [Sessions -> 0..MaxBudget] /\ PumpFrame(s)
  BY PumpFrameLemma DEF IInv, TypeOK
<1>1. CASE x # s
  <2>1. run'[x] = run[x] /\ made'[x] = made[x]
    BY <1>0, <1>1 DEF PumpFrame
  <2>2. ready'[x] = ready[x]
    BY <1>0, <1>1 DEF PumpStep, RunIdleStop, RunIdleTimeout, RunPumps, WatchFires, BackoffStop, BackoffOver,
       Jump, BeginPump, PumpCut, PumpMedia, StreamEnded, BackOff, RetryBeforeReady, FailBeforeReady, FailReady
  <2>3. attempts'[x] = attempts[x]
    BY <1>0, <1>1 DEF PumpStep, RunIdleStop, RunIdleTimeout, RunPumps, WatchFires, BackoffStop, BackoffOver,
       Jump, BeginPump, PumpCut, PumpMedia, StreamEnded, BackOff, RetryBeforeReady, FailBeforeReady
  <2> QED
    BY <2>1, <2>2, <2>3 DEF Moves, Still, SameCount
<1>2. ASSUME x = s, UNCHANGED <<ready, attempts>> PROVE Moves(x)
  <2>1. GoesOn(x)
    BY <1>0, <1>2 DEF PumpFrame, GoesOn, SameCount, Pumping
  <2> QED
    BY <2>1 DEF Moves
<1>3. ASSUME x = s, NEW slow \in SUBSET Clients, PumpMedia(s, slow) PROVE Moves(x)
  <2>1. Plays(x)
    BY <1>0, <1>3 DEF PumpMedia, Plays, SameCount
  <2> QED
    BY <2>1 DEF Moves
<1>4. ASSUME x = s, RetryBeforeReady(s) PROVE Moves(x)
  <2>1. Retries(x)
    BY <1>0, <1>4 DEF RetryBeforeReady, Fails, EndPump, Goto, Retries
  <2> QED
    BY <2>1 DEF Moves
<1>5. ASSUME x = s, FailBeforeReady(s) PROVE Moves(x)
  <2>1. FailsForGood(x)
    BY <1>0, <1>5 DEF FailBeforeReady, Fails, EndPump, Goto, FailReady, FailsForGood
  <2> QED
    BY <2>1 DEF Moves
<1> QED
  BY <1>1, <1>2, <1>3, <1>4, <1>5 DEF PumpStep, RunIdleStop, RunIdleTimeout, RunPumps, WatchFires,
     BackoffStop, BackoffOver, Jump, BeginPump, PumpCut, StreamEnded, BackOff

LEMMA ExitMoves ==
  ASSUME IInv, NEW s \in Sessions, RunExit(s) \/ RemoveSession(s) \/ RememberFinish(s), NEW x \in Sessions
  PROVE  Moves(x)
<1>0. run \in [Sessions -> RunPC] /\ ready \in [Sessions -> {"no", "yes", "failed", "stopped"}]
  BY DEF IInv, TypeOK
<1>1. SameCount(x)
  BY DEF RunExit, RemoveSession, RememberFinish, SameCount
<1>2. CASE x # s
  BY <1>0, <1>1, <1>2 DEF RunExit, RemoveSession, RememberFinish, FailReady, Goto, Moves, Still
<1>3. CASE x = s
  <2>1. <<run[x], run'[x]>> \in {<<"exit", "stopping">>, <<"stopping", "remember">>, <<"remember", "done">>}
    BY <1>0, <1>3 DEF RunExit, RemoveSession, RememberFinish, Goto
  <2>2. ready'[x] = ready[x] \/ (ready[x] = "no" /\ ready'[x] = "failed")
    BY <1>0, <1>3 DEF RunExit, RemoveSession, RememberFinish, FailReady
  <2> QED
    BY <1>1, <2>1, <2>2 DEF Moves, Leaves
<1> QED
  BY <1>2, <1>3

LEMMA StopMoves ==
  ASSUME IInv, CondemnedInv, NEW t \in Threads, StopStep(t), NEW x \in Sessions
  PROVE  Moves(x)
<1>0. ready \in [Sessions -> {"no", "yes", "failed", "stopped"}]
  BY DEF IInv, TypeOK
<1>1. CASE StopAlready(t) \/ StopMark(t) \/ StopDetach(t)
  BY <1>1 DEF StopAlready, StopMark, StopDetach, sessionVars, Moves, Still, SameCount
<1>2. CASE StopUnblock(t)
  <2>1. /\ stop[t].s \in Sessions /\ run[stop[t].s] # "new" /\ stop[t].s \in stopped
        /\ FailReady(stop[t].s, "stopped") /\ UNCHANGED <<run, made, attempts>>
    BY <1>2, StopsStarted DEF StopUnblock, IInv, StopInv
  <2>2. CASE x = stop[t].s
    <3>1. Unblocks(x)
      BY <1>0, <2>1, <2>2 DEF FailReady, Unblocks, SameCount
    <3> QED
      BY <3>1 DEF Moves
  <2>3. CASE x # stop[t].s
    BY <1>0, <2>1, <2>3 DEF FailReady, Moves, Still, SameCount
  <2> QED
    BY <2>2, <2>3
<1> QED
  BY <1>1, <1>2 DEF StopStep

LEMMA ClientMoves ==
  ASSUME IInv, NEW v \in Clients, ClientStep(v), NEW x \in Sessions
  PROVE  Moves(x)
<1>1. ASSUME NEW c \in Channels, NEW rev \in MaybeRevision, NEW src \in Sources, NEW s \in Sessions,
             SubscribeStart(v, c, rev, src, s) \/ SubscribeReplace(v, c, rev, src, s)
      PROVE  Moves(x)
  <2>1. /\ run[s] = "new" /\ run' = [run EXCEPT ![s] = "loop"] /\ UNCHANGED <<ready, attempts>>
        /\ \E e, p : made' = [made EXCEPT ![s] = [channel |-> c, epoch |-> e, src |-> src, profile |-> p]]
    BY <1>1 DEF SubscribeStart, SubscribeReplace, StartSession
  <2>2. run \in [Sessions -> RunPC] /\ made \in [Sessions -> Made \cup {None}]
    BY DEF IInv, TypeOK
  <2>3. CASE x = s
    <3>1. Begins(x)
      BY <2>1, <2>2, <2>3 DEF Begins
    <3> QED
      BY <3>1 DEF Moves
  <2>4. CASE x # s
    BY <2>1, <2>2, <2>4 DEF Moves, Still, SameCount
  <2> QED
    BY <2>3, <2>4
<1>2. ASSUME UNCHANGED <<run, ready, attempts, made>> PROVE Moves(x)
  BY <1>2 DEF Moves, Still, SameCount
<1> QED
  BY <1>1, <1>2 DEF ClientStep, SubscribeJoin, SubscribeAdd, SubscribeReady, SubscribeFailed, ReaderEOF,
     ClientGone, RemoveViewer, sessionVars

\* Every step does one of these things to every session, and none revokes a stop.
LEMMA EveryStepMoves ==
  ASSUME IInv, CondemnedInv, [Next]_vars, NEW x \in Sessions
  PROVE  Moves(x) /\ stopped \subseteq stopped'
<1>1. CASE UNCHANGED vars
  BY <1>1 DEF vars, sessionVars, Moves, Still, SameCount
<1>2. ASSUME NEW v \in Clients, ClientStep(v) PROVE Moves(x) /\ stopped \subseteq stopped'
  <2>1. UNCHANGED stopped
    BY <1>2 DEF ClientStep, SubscribeJoin, SubscribeStart, SubscribeReplace, SubscribeAdd, SubscribeReady,
       SubscribeFailed, ReaderEOF, ClientGone, RemoveViewer, sessionVars
  <2> QED
    BY <1>2, <2>1, ClientMoves
<1>3. ASSUME NEW a \in Admins, AdminStep(a) PROVE Moves(x) /\ stopped \subseteq stopped'
  <2>1. UNCHANGED sessionVars
    BY <1>3 DEF AdminStep, PublishChannel, BlockChannel, ApplyProfile, Close, AdminStop, AdminDone,
       AdminTimeout, AdminReturn
  <2> QED
    BY <2>1 DEF sessionVars, Moves, Still, SameCount
<1>4. ASSUME NEW s \in Sessions, RunStep(s) PROVE Moves(x) /\ stopped \subseteq stopped'
  <2>1. CASE PumpStep(s)
    BY <2>1, PumpMoves, PumpFrameLemma DEF PumpFrame, IInv
  <2>2. CASE RunExit(s) \/ RemoveSession(s) \/ RememberFinish(s)
    BY <2>2, ExitMoves DEF RunExit, RemoveSession, RememberFinish
  <2> QED
    BY <1>4, <2>1, <2>2 DEF RunStep, PumpStep
<1>5. ASSUME NEW t \in Threads, StopStep(t) PROVE Moves(x) /\ stopped \subseteq stopped'
  BY <1>5, StopMoves DEF StopStep, StopAlready, StopMark, StopDetach, StopUnblock, sessionVars
<1> QED
  BY <1>1, <1>2, <1>3, <1>4, <1>5 DEF Next


\* Tear-downs and replacements retire a session before they stop it.
LEMMA CondemnedStep ==
  ASSUME IInv, CondemnedInv, [Next]_vars
  PROVE  CondemnedInv'
<1>0. /\ client \in [Clients -> ClientState] /\ admin \in [Admins -> AdminState]
      /\ stop \in [Threads -> StopState] /\ Clients \cup Admins \subseteq Threads
      /\ (Clients \cup Admins) \cap Sessions = {} /\ Clients \cap Admins = {}
  BY ConstantsAssumption DEF IInv, TypeOK, Threads
<1>1. ASSUME UNCHANGED threadVars PROVE CondemnedInv'
  BY <1>1 DEF threadVars, CondemnedInv
<1>2. ASSUME NEW v \in Clients, ClientStep(v) PROVE CondemnedInv'
  <2>1. ASSUME retired \subseteq retired', UNCHANGED <<admin, stop>>,
               NEW c \in ClientState, client' = [client EXCEPT ![v] = c],
               c.stale # None => c.stale \in retired'
        PROVE  CondemnedInv'
    <3>1. \A u \in Clients : client'[u].stale # None => client'[u].stale \in retired'
      BY <1>0, <2>1 DEF CondemnedInv
    <3> QED
      BY <2>1, <3>1 DEF CondemnedInv
  <2>2. ASSUME NEW c \in Channels, NEW rev \in MaybeRevision, NEW src \in Sources, NEW s \in Sessions,
               SubscribeStart(v, c, rev, src, s) \/ SubscribeReplace(v, c, rev, src, s)
        PROVE  CondemnedInv'
    <3>1. sessions[c] \in MaybeSession
      BY DEF IInv, TypeOK
    <3>2. PICK stale \in MaybeSession :
            /\ client' = [client EXCEPT ![v] = [pc |-> "adding", s |-> s, stale |-> stale]]
            /\ stale # None => stale \in retired'
            /\ retired \subseteq retired' /\ UNCHANGED <<admin, stop>>
      <4>1. CASE SubscribeStart(v, c, rev, src, s)
        BY <4>1 DEF SubscribeStart, Attach, MaybeSession
      <4>2. CASE SubscribeReplace(v, c, rev, src, s)
        BY <3>1, <4>2 DEF SubscribeReplace, Attach
      <4> QED
        BY <2>2, <4>1, <4>2
    <3>3. PICK d \in ClientState : d = [pc |-> "adding", s |-> s, stale |-> stale]
      BY DEF ClientState, MaybeSession
    <3> QED
      BY <2>1, <3>2, <3>3
  <2>3. ASSUME NEW c \in Channels, NEW rev \in MaybeRevision, NEW src \in Sources, SubscribeJoin(v, c, rev, src)
        PROVE  CondemnedInv'
    <3>1. sessions[c] \in MaybeSession
      BY DEF IInv, TypeOK
    <3>2. PICK d \in ClientState : d = [pc |-> "adding", s |-> sessions[c], stale |-> None]
      BY <3>1 DEF ClientState, MaybeSession
    <3>3. client' = [client EXCEPT ![v] = d] /\ UNCHANGED <<retired, admin, stop>>
      BY <2>3, <3>2 DEF SubscribeJoin, Attach
    <3> QED
      BY <2>1, <3>2, <3>3
  <2>4. CASE SubscribeAdd(v)
    <3>1. /\ client' = [client EXCEPT ![v] = [pc |-> "waiting", s |-> client[v].s, stale |-> None]]
          /\ UNCHANGED <<admin, retired>>
          /\ stop' = stop \/ (client[v].stale # None /\ stop' = [stop EXCEPT ![v] = [pc |-> "mark", s |-> client[v].stale]])
      BY <2>4 DEF SubscribeAdd, StartStop
    <3>2. \A u \in Clients : client'[u].stale # None => client'[u].stale \in retired'
      BY <1>0, <3>1 DEF CondemnedInv
    <3>3. \A t \in Clients \cup Admins : stop'[t].pc # "none" => stop'[t].s \in retired'
      <4>1. CASE stop' = stop
        BY <3>1, <4>1 DEF CondemnedInv
      <4>2. CASE client[v].stale # None /\ stop' = [stop EXCEPT ![v] = [pc |-> "mark", s |-> client[v].stale]]
        BY <1>0, <3>1, <4>2 DEF CondemnedInv
      <4> QED
        BY <3>1, <4>1, <4>2
    <3> QED
      BY <3>1, <3>2, <3>3 DEF CondemnedInv
  <2>5. CASE SubscribeReady(v)
    <3>1. \A u \in Clients : client'[u].stale = client[u].stale
      BY <1>0, <2>5 DEF SubscribeReady, ClientState
    <3> QED
      BY <2>5, <3>1 DEF SubscribeReady, CondemnedInv
  <2>6. CASE RemoveViewer(v)
    <3>1. Outside \in ClientState /\ Outside.stale = None
      BY DEF Outside, ClientState, MaybeSession
    <3> QED
      BY <2>1, <2>6, <3>1 DEF RemoveViewer
  <2> QED
    BY <1>2, <2>2, <2>3, <2>4, <2>5, <2>6 DEF ClientStep, SubscribeFailed, ReaderEOF, ClientGone
<1>3. ASSUME NEW a \in Admins, AdminStep(a) PROVE CondemnedInv'
  <2>1. CASE Tears(a)
    <3>1. PICK cs \in SUBSET Channels : TearFrame(a, cs)
      BY <2>1, TearFrameLemma DEF IInv
    <3> DEFINE stale == {sessions[c] : c \in cs} \ {None}
    <3>2. /\ retired' = retired \cup stale /\ admin' = [admin EXCEPT ![a] = [todo |-> stale, wait |-> stale]]
          /\ UNCHANGED <<stop, client>>
      BY <3>1 DEF TearFrame, Retire
    <3> HIDE DEF stale
    <3>3. \A b \in Admins : admin'[b].todo \subseteq retired'
      BY <1>0, <3>2 DEF CondemnedInv
    <3> QED
      BY <3>2, <3>3 DEF CondemnedInv
  <2>2. ASSUME NEW s \in Sessions, AdminStop(a, s) PROVE CondemnedInv'
    <3>1. /\ s \in retired /\ stop' = [stop EXCEPT ![a] = [pc |-> "mark", s |-> s]]
          /\ admin' = [admin EXCEPT ![a].todo = @ \ {s}] /\ UNCHANGED <<client, retired>>
      BY <2>2 DEF AdminStop, StartStop, CondemnedInv
    <3>2. \A b \in Admins : admin'[b].todo \subseteq admin[b].todo
      BY <1>0, <3>1 DEF AdminState
    <3>3. \A t \in Clients \cup Admins : stop'[t].pc # "none" => stop'[t].s \in retired'
      BY <1>0, <3>1 DEF CondemnedInv
    <3> QED
      BY <3>1, <3>2, <3>3 DEF CondemnedInv
  <2>3. CASE AdminReturn(a)
    <3>1. \A b \in Admins : admin'[b].todo = admin[b].todo
      BY <1>0, <2>3 DEF AdminReturn, AdminState
    <3> QED
      BY <2>3, <3>1 DEF AdminReturn, CondemnedInv
  <2> QED
    BY <1>3, <2>1, <2>2, <2>3 DEF AdminStep, Tears, AdminDone, AdminTimeout
<1>4. ASSUME NEW s \in Sessions, RunStep(s) PROVE CondemnedInv'
  <2>1. CASE PumpStep(s)
    BY <1>1, <2>1, PumpFrameLemma DEF PumpFrame, IInv
  <2>2. CASE RunExit(s)
    <3>1. stop' = [stop EXCEPT ![s] = [pc |-> "mark", s |-> s]] /\ UNCHANGED <<client, admin, retired>>
      BY <2>2 DEF RunExit, StartStop
    <3>2. \A t \in Clients \cup Admins : stop'[t] = stop[t]
      BY <1>0, <3>1
    <3> QED
      BY <3>1, <3>2 DEF CondemnedInv
  <2>3. CASE RemoveSession(s) \/ RememberFinish(s)
    BY <1>1, <2>3 DEF RemoveSession, RememberFinish
  <2> QED
    BY <1>4, <2>1, <2>2, <2>3 DEF RunStep, PumpStep
<1>5. ASSUME NEW t \in Threads, StopStep(t) PROVE CondemnedInv'
  <2>1. UNCHANGED <<client, admin, retired>>
    BY <1>5 DEF StopStep, StopAlready, StopMark, StopDetach, StopUnblock
  <2>2. \A u \in Threads : stop'[u].pc # "none" => stop[u].pc # "none" /\ stop'[u].s = stop[u].s
    BY <1>0, <1>5 DEF StopStep, StopAlready, StopMark, StopDetach, StopUnblock, NotStopping, StopState
  <2> QED
    BY <1>0, <2>1, <2>2 DEF CondemnedInv
<1> QED
  BY <1>1, <1>2, <1>3, <1>4, <1>5 DEF Next, vars

\* Only a thread that stops a session says "stopped", and only a session that has
\* left its loop has failed.
LEMMA VerdictStep ==
  ASSUME IInv, CondemnedInv, VerdictInv, [Next]_vars
  PROVE  VerdictInv'
<1> SUFFICES ASSUME NEW x \in Sessions
             PROVE  /\ run'[x] = "new" => ready'[x] = "no"
                    /\ ready'[x] = "stopped" => x \in stopped'
                    /\ ready'[x] = "failed" => run'[x] \notin Pumping
  BY DEF VerdictInv
<1>1. Moves(x) /\ stopped \subseteq stopped'
  BY EveryStepMoves
<1>2. /\ run[x] = "new" => ready[x] = "no"
      /\ ready[x] = "stopped" => x \in stopped
      /\ ready[x] = "failed" => run[x] \notin Pumping
  BY DEF VerdictInv
<1>3. CASE Still(x) \/ Unblocks(x)
  BY <1>1, <1>2, <1>3 DEF Still, Unblocks
<1>4. CASE Begins(x)
  BY <1>2, <1>4 DEF Begins
<1>5. CASE GoesOn(x) \/ Plays(x) \/ Retries(x)
  BY <1>1, <1>2, <1>5 DEF GoesOn, Plays, Retries, Pumping
<1>6. CASE FailsForGood(x) \/ Leaves(x)
  BY <1>1, <1>2, <1>6 DEF FailsForGood, Leaves, Pumping
<1> QED
  BY <1>1, <1>3, <1>4, <1>5, <1>6 DEF Moves

\* Verdicts are sound in every state, for any number of sessions, viewers and
\* tear-downs: a session whose viewers were told it failed has left its loop, and
\* "stopped" is said only of a session that is being torn down.
THEOREM VerdictInvariance == Spec => [](IInv /\ CondemnedInv /\ VerdictInv)
<1>1. Init => CondemnedInv /\ VerdictInv
  BY DEF Init, CondemnedInv, VerdictInv, NotStopping, Outside, NotWaiting, Threads
<1>2. IInv /\ CondemnedInv /\ VerdictInv /\ [Next]_vars => CondemnedInv' /\ VerdictInv'
  BY CondemnedStep, VerdictStep
<1> QED
  BY <1>1, <1>2, Invariance, PTL DEF Spec


\* A step of the manager is, for each session, a step of SessionAttempts or none.
LEMMA MovesAreAttempts ==
  ASSUME IInv, CondemnedInv, VerdictInv, [Next]_vars, NEW x \in Sessions
  PROVE  Attempts(x)!AttemptNext \/ UNCHANGED Attempts(x)!attemptVars
<1>1. Moves(x)
  BY EveryStepMoves
<1>2. /\ run[x] \in RunPC /\ attempts[x] \in Nat
      /\ run[x] = "new" => ready[x] = "no" /\ attempts[x] = 0
      /\ ready[x] = "stopped" => x \in stopped
      /\ ready[x] = "failed" => run[x] \notin Pumping
  BY ConstantsAssumption DEF IInv, TypeOK, FreshInv, VerdictInv
<1>3. /\ ready[x] \in {"no", "yes", "failed", "stopped"}
      /\ run[x] # "new" => /\ made[x].src.budget \in Nat \ {0}
                           /\ ~made[x].src.walk => made[x].src.budget = 1
      /\ run[x] \in Pumping => attempts[x] < made[x].src.budget
  <2>1. run[x] # "new" => made[x].src \in Sources
    BY DEF IInv, MadeInv, Made
  <2> QED
    BY <2>1, ConstantsAssumption DEF IInv, TypeOK, MadeInv, Pumping
<1> USE DEF Pumping, SameCount
<1>4. CASE Still(x)
  BY <1>4 DEF Still, Attempts!attemptVars
<1>5. CASE Begins(x)
  <2>1. made'[x].src.budget \in Nat \ {0}
    BY <1>5, ConstantsAssumption DEF Begins
  <2>2. run[x] = "new" /\ run'[x] = "loop" /\ ready'[x] = "no" /\ attempts'[x] = 0
    BY <1>2, <1>5 DEF Begins
  <2>3. made'[x].src.budget - attempts'[x] \in Nat \ {0}
    BY <2>1, <2>2
  <2>4. Attempts(x)!Begin
    BY <2>2, <2>3 DEF Attempts!Begin, Attempts!Made
  <2> QED
    BY <2>4 DEF Attempts!AttemptNext
<1>6. CASE GoesOn(x)
  <2>1. CASE run'[x] \in Pumping
    BY <1>6, <2>1 DEF GoesOn, Attempts!attemptVars
  <2>2. CASE run'[x] = "exit"
    <3>1. Attempts(x)!End
      BY <1>6, <2>2 DEF GoesOn, Attempts!End
    <3> QED
      BY <3>1 DEF Attempts!AttemptNext
  <2> QED
    BY <1>6, <2>1, <2>2 DEF GoesOn
<1>7. CASE Plays(x)
  <2>1. CASE ready[x] = "no"
    <3>1. Attempts(x)!Media
      BY <1>7, <2>1 DEF Plays, Attempts!Media
    <3> QED
      BY <3>1 DEF Attempts!AttemptNext
  <2>2. CASE ready[x] # "no"
    BY <1>7, <2>2 DEF Plays, Attempts!attemptVars
  <2> QED
    BY <2>1, <2>2
<1>8. CASE Retries(x)
  <2>1. ready[x] = "no" /\ ready'[x] = "no" /\ run[x] = "read" /\ run'[x] = "loop"
    BY <1>2, <1>3, <1>8 DEF Retries
  <2>2. PICK b \in Nat : b = made[x].src.budget
    BY <1>3, <2>1
  <2>3. /\ b = made'[x].src.budget /\ attempts[x] + 1 < b /\ attempts'[x] = attempts[x] + 1
    BY <1>8, <2>2 DEF Retries
  <2>4. b - attempts[x] > 1 /\ b - attempts'[x] = (b - attempts[x]) - 1
    BY <1>2, <2>2, <2>3
  <2>5. Attempts(x)!Retry
    BY <2>1, <2>2, <2>3, <2>4 DEF Attempts!Retry
  <2> QED
    BY <2>5 DEF Attempts!AttemptNext
<1>9. CASE FailsForGood(x)
  <2>1. ready[x] = "no" /\ ready'[x] = "failed" /\ run[x] = "read" /\ run'[x] = "exit"
    BY <1>2, <1>3, <1>9 DEF FailsForGood
  <2>2. made[x].src.budget - attempts[x] = 1
    <3>1. PICK b \in Nat : b = made[x].src.budget
      BY <1>3, <2>1
    <3>2. attempts[x] < b /\ attempts[x] + 1 >= b
      BY <1>2, <1>3, <1>9, <2>1, <3>1 DEF FailsForGood
    <3> QED
      BY <1>2, <3>1, <3>2
  <2>3. Attempts(x)!GiveUp
    BY <2>1, <2>2 DEF Attempts!GiveUp
  <2> QED
    BY <2>3 DEF Attempts!AttemptNext
<1>10. CASE Leaves(x)
  <2>1. run[x] \notin Pumping \cup {"new"} /\ run'[x] \notin Pumping \cup {"new"}
    BY <1>10 DEF Leaves
  <2>2. CASE ready'[x] = ready[x]
    BY <1>10, <2>1, <2>2 DEF Leaves, Attempts!attemptVars
  <2>3. CASE ready[x] = "no" /\ ready'[x] = "failed"
    <3>1. Attempts(x)!Tell
      BY <2>1, <2>3 DEF Attempts!Tell
    <3> QED
      BY <3>1 DEF Attempts!AttemptNext
  <2> QED
    BY <1>10, <2>2, <2>3 DEF Leaves
<1>11. CASE Unblocks(x)
  <2>1. CASE ready[x] = "no"
    <3>1. Attempts(x)!Tell
      BY <1>11, <2>1 DEF Unblocks, Attempts!Tell
    <3> QED
      BY <3>1 DEF Attempts!AttemptNext
  <2>2. CASE ready[x] # "no"
    BY <1>11, <2>2 DEF Unblocks, Attempts!attemptVars
  <2> QED
    BY <2>1, <2>2
<1> QED
  BY <1>1, <1>4, <1>5, <1>6, <1>7, <1>8, <1>9, <1>10, <1>11 DEF Moves

\* Every session implements SessionAttempts under the manager's threads: one
\* verdict, and a failure only with the last attempt of its budget or after its
\* end, however Subscribe, tear-downs and the session's own exit interleave.
THEOREM SessionsImplementAttempts == Spec => ImplementsAttempts
<1>1. Init => \A s \in Sessions : Attempts(s)!New
  BY DEF Init, Attempts!New
<1>2. IInv /\ CondemnedInv /\ VerdictInv /\ [Next]_vars =>
        \A s \in Sessions : [Attempts(s)!AttemptNext]_(Attempts(s)!attemptVars)
  BY MovesAreAttempts
<1> QED
  BY <1>1, <1>2, VerdictInvariance, PTL DEF Spec, ImplementsAttempts


\* The same, of one session, as the specification that SessionAttempts states.
COROLLARY EachSessionImplementsAttempts ==
  ASSUME NEW s \in Sessions
  PROVE  Spec => Attempts(s)!AttemptSpec
<1>1. Init => Attempts(s)!New
  BY DEF Init, Attempts!New
<1>2. IInv /\ CondemnedInv /\ VerdictInv /\ [Next]_vars => [Attempts(s)!AttemptNext]_(Attempts(s)!attemptVars)
  BY MovesAreAttempts
<1> QED
  BY <1>1, <1>2, VerdictInvariance, PTL DEF Spec, Attempts!AttemptSpec

=============================================================================
