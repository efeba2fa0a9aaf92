---------------------------- MODULE SessionPump ----------------------------
(***************************************************************************)
(* The loop of one session (internal/core/stream: session.run and          *)
(* handlePumpError): which upstream URL each attempt uses, how many        *)
(* attempts a session that was never ready gets, and how long it waits     *)
(* without viewers.  StreamManager abstracts this walk to an attempt       *)
(* budget, and the idle wait to a step that may end the session.           *)
(*                                                                         *)
(* A source is an ordered list of upstreams (1..n here, 0..n-1 in the      *)
(* code), each with the number of its candidate URLs: one, or one for each *)
(* server of a failover proxy.  Only whether somebody watches is kept of   *)
(* the viewers.  Time advances in polls of 200 ms, and only in the idle    *)
(* wait: the length of nothing else matters to the properties.             *)
(***************************************************************************)
EXTENDS Integers, Sequences, FiniteSets

CONSTANTS
  Sources,     \* [policy, fixed (index), cands (candidates per upstream)]
  IdleTicks,   \* IdleTimeout in polls of 200 ms
  MaxFailures  \* bound on the failed attempts of a behaviour

ASSUME PumpAssumption ==
  /\ \A s \in Sources :
       /\ s.policy \in {"fixed", "random", "failover"}
       /\ s.cands \in Seq(Nat \ {0})
       /\ s.fixed \in DOMAIN s.cands
  /\ IdleTicks \in Nat \ {0}
  /\ MaxFailures \in Nat

VARIABLES
  src,              \* s.source
  start,            \* the index newSession started from
  currentIndex, candidateIndex,
  attemptsBeforeReady,
  ready,            \* "no", "yes" (everReady) or "failed"
  backoff,          \* in seconds
  watched,          \* viewerCount() > 0
  cut,              \* the context of the attempt in progress is cancelled
  stopped,
  pc,               \* "head", "idle", "pump", "backoff" or "done"
  timer,            \* polls until idleTimer fires
  idleFor,          \* polls the session has waited since it was last watched
  failures,         \* failed attempts per URL that handlePumpError was told of
  gaveUp            \* handlePumpError ended a session that was never ready

walkVars == <<src, start, currentIndex, candidateIndex, attemptsBeforeReady>>
vars == <<walkVars, ready, backoff, watched, cut, stopped, pc, timer, idleFor, failures, gaveUp>>

IsFallback == src.policy = "failover"
Positions(s) == UNION {{u} \X (0 .. s.cands[u] - 1) : u \in DOMAIN s.cands}

\* StartIndex of a normalized source.
StartIndices(s) ==
  CASE s.policy = "fixed"    -> {s.fixed}
    [] s.policy = "random"   -> DOMAIN s.cands
    [] s.policy = "failover" -> {1}

\* newSession; the viewer it is made for joins when run may already be looking.
Init ==
  /\ src \in Sources
  /\ start \in StartIndices(src)
  /\ currentIndex = start
  /\ candidateIndex = 0
  /\ attemptsBeforeReady = 0
  /\ ready = "no"
  /\ backoff = 1
  /\ watched = FALSE
  /\ cut = FALSE
  /\ stopped = FALSE
  /\ pc = "head"
  /\ timer = IdleTicks
  /\ idleFor = 0
  /\ failures = [p \in Positions(src) |-> 0]
  /\ gaveUp = FALSE

-----------------------------------------------------------------------------
ShouldWalk == IsFallback \/ src.cands[currentIndex] > 1

\* The candidates of all upstreams together.
CandidatesOf(s) == Cardinality(Positions(s))

\* Mutant: upstreams are counted, not their candidates.
BudgetPerUpstream == Len(src.cands)

AttemptBudget == IF IsFallback THEN CandidatesOf(src) ELSE src.cands[currentIndex]

\* Mutant: no wrap-around after the last upstream.
AdvancePastEnd ==
  IF candidateIndex + 1 < src.cands[currentIndex]
    THEN candidateIndex' = candidateIndex + 1 /\ UNCHANGED currentIndex
    ELSE candidateIndex' = 0 /\ currentIndex' = IF IsFallback THEN currentIndex + 1 ELSE currentIndex

\* Mutant: every upstream is left after its first candidate.
AdvanceUpstream ==
  /\ candidateIndex' = 0
  /\ currentIndex' = IF IsFallback THEN (currentIndex % Len(src.cands)) + 1 ELSE currentIndex

\* The next candidate of the upstream, else the first one of the next upstream.
AdvanceIndex ==
  IF candidateIndex + 1 < src.cands[currentIndex]
    THEN candidateIndex' = candidateIndex + 1 /\ UNCHANGED currentIndex
    ELSE /\ candidateIndex' = 0
         /\ currentIndex' = IF IsFallback THEN (currentIndex % Len(src.cands)) + 1
                                          ELSE currentIndex

StayHere == UNCHANGED <<currentIndex, candidateIndex>>

Idling == UNCHANGED <<walkVars, ready, backoff, watched, cut, stopped, failures, gaveUp>>

\* The head of the loop without viewers: the timer is set anew.
BeginIdle ==
  /\ pc = "head"
  /\ ~watched
  /\ timer' = IdleTicks
  /\ pc' = "idle"
  /\ UNCHANGED idleFor
  /\ Idling

IdleStopped ==
  /\ pc = "idle"
  /\ stopped
  /\ pc' = "done"
  /\ UNCHANGED <<timer, idleFor>>
  /\ Idling

\* 200 ms pass and the poll finds a viewer or goes round the loop.
IdlePolls ==
  /\ pc = "idle"
  /\ timer' = timer - 1
  /\ idleFor' = IF watched \/ idleFor > IdleTicks THEN idleFor ELSE idleFor + 1
  /\ pc' = IF watched THEN "pump" ELSE "head"
  /\ Idling

\* The timer fires no later than the poll.
IdleTimeout ==
  /\ pc = "idle"
  /\ timer <= 1
  /\ timer' = 0
  /\ pc' = IF watched THEN "pump" ELSE "done"
  /\ UNCHANGED idleFor
  /\ Idling

BeginPump ==
  /\ pc = "head"
  /\ watched
  /\ pc' = "pump"
  /\ UNCHANGED <<timer, idleFor>>
  /\ Idling

-----------------------------------------------------------------------------
(***************************************************************************)
(* pumpOnce, and what run makes of its result.                             *)
(***************************************************************************)
Pumping == pc = "pump" /\ UNCHANGED <<src, start, watched, stopped, timer, idleFor>>

PumpMedia ==
  /\ Pumping
  /\ ready = "no"
  /\ ready' = "yes"
  /\ StayHere
  /\ UNCHANGED <<cut, attemptsBeforeReady, backoff, pc, failures, gaveUp>>

\* pumpOnce returns nil: stopped, cancelled when the last viewer left (another
\* may have joined since), or unwatched.
PumpCut ==
  /\ Pumping
  /\ stopped \/ cut \/ ~watched
  /\ cut' = FALSE
  /\ pc' = IF stopped THEN "done" ELSE "head"
  /\ backoff' = IF watched /\ ~stopped THEN 1 ELSE backoff
  /\ StayHere
  /\ UNCHANGED <<attemptsBeforeReady, ready, failures, gaveUp>>

\* pumpOnce returns an error to a session that is watched.
PumpFails ==
  /\ Pumping
  /\ watched
  /\ ~stopped
  /\ failures[<<currentIndex, candidateIndex>>] < MaxFailures
  /\ cut' = FALSE
  /\ failures' = [failures EXCEPT ![<<currentIndex, candidateIndex>>] = @ + 1]

RetryBeforeReady ==
  /\ PumpFails
  /\ ready = "no"
  /\ ShouldWalk
  /\ attemptsBeforeReady' = attemptsBeforeReady + 1
  /\ attemptsBeforeReady' < AttemptBudget
  /\ AdvanceIndex
  /\ pc' = "head"
  /\ UNCHANGED <<ready, backoff, gaveUp>>

GiveUp ==
  /\ PumpFails
  /\ ready = "no"
  /\ attemptsBeforeReady' = IF ShouldWalk THEN attemptsBeforeReady + 1 ELSE attemptsBeforeReady
  /\ ShouldWalk => attemptsBeforeReady' >= AttemptBudget
  /\ ready' = "failed"
  /\ gaveUp' = TRUE
  /\ pc' = "done"
  /\ StayHere
  /\ UNCHANGED backoff

\* errStreamEnded after readiness, with nothing to walk to.
StreamEnded ==
  /\ PumpFails
  /\ ready = "yes"
  /\ ~ShouldWalk
  /\ pc' = "done"
  /\ StayHere
  /\ UNCHANGED <<attemptsBeforeReady, ready, backoff, gaveUp>>

FailAfterReady ==
  /\ PumpFails
  /\ ready = "yes"
  /\ IF ShouldWalk THEN AdvanceIndex ELSE StayHere
  /\ pc' = "backoff"
  /\ UNCHANGED <<attemptsBeforeReady, ready, backoff, gaveUp>>

BackoffOver ==
  /\ pc = "backoff"
  /\ pc' = "head"
  /\ backoff' = IF backoff < 15 THEN 2 * backoff ELSE backoff
  /\ UNCHANGED <<walkVars, ready, watched, cut, stopped, timer, idleFor, failures, gaveUp>>

BackoffStopped ==
  /\ pc = "backoff"
  /\ stopped
  /\ pc' = "done"
  /\ UNCHANGED <<walkVars, ready, backoff, watched, cut, stopped, timer, idleFor, failures, gaveUp>>

-----------------------------------------------------------------------------
(***************************************************************************)
(* Others: viewers come and go, stop() is called.                          *)
(***************************************************************************)
Outside == pc # "done" /\ UNCHANGED <<walkVars, ready, backoff, pc, timer, failures, gaveUp>>

Join ==
  /\ Outside
  /\ ~watched
  /\ watched' = TRUE
  /\ idleFor' = 0
  /\ UNCHANGED <<cut, stopped>>

Leave ==
  /\ Outside
  /\ watched
  /\ watched' = FALSE
  /\ cut' = (pc = "pump")
  /\ UNCHANGED <<stopped, idleFor>>

Stop ==
  /\ Outside
  /\ ~stopped
  /\ stopped' = TRUE
  /\ watched' = FALSE
  /\ cut' = (pc = "pump")
  /\ UNCHANGED idleFor

Next ==
  \/ BeginIdle \/ IdleStopped \/ IdlePolls \/ IdleTimeout \/ BeginPump
  \/ PumpMedia \/ PumpCut \/ RetryBeforeReady \/ GiveUp \/ StreamEnded \/ FailAfterReady
  \/ BackoffOver \/ BackoffStopped
  \/ Join \/ Leave \/ Stop

Spec == Init /\ [][Next]_vars

-----------------------------------------------------------------------------
(***************************************************************************)
(* Properties                                                              *)
(***************************************************************************)

\* The URLs the session's policy lets it use.
Walk == {p \in Positions(src) : IsFallback \/ p[1] = start}

TypeOK ==
  /\ src \in Sources
  /\ <<currentIndex, candidateIndex>> \in Walk
  /\ attemptsBeforeReady \in 0 .. AttemptBudget
  /\ ready \in {"no", "yes", "failed"}
  /\ backoff \in {1, 2, 4, 8, 16}
  /\ watched \in BOOLEAN
  /\ cut \in BOOLEAN
  /\ stopped \in BOOLEAN
  /\ pc \in {"head", "idle", "pump", "backoff", "done"}
  /\ timer \in 0 .. IdleTicks
  /\ failures \in [Positions(src) -> 0 .. MaxFailures]
  /\ gaveUp \in BOOLEAN

\* However viewers come and go between and during attempts, failures before
\* readiness and after it: no URL of the walk fails a second time before every
\* other has had its turn.
RoundRobin == \A p, q \in Walk : failures[p] <= failures[q] + 1

\* A session that was never ready reports failure to its waiting viewers when,
\* and only when, every URL its policy allows was tried, each exactly once.
GivesUpAfterAll ==
  /\ gaveUp => \A p \in Walk : failures[p] = 1
  /\ ready = "no" /\ (\A p \in Walk : failures[p] = 1) => gaveUp

Untried == {p \in Walk : failures[p] = 0}

\* The walk spends the budget that StreamManager counts down: with as many
\* attempts left as the walk has untried URLs, every failure before readiness
\* takes one of them, however upstreams and candidates are mixed, and the session
\* gives up with the last one.  attemptBudget, recomputed after each failure from
\* the upstream the session is at by then, never moves.
Attempts == INSTANCE SessionAttempts
              WITH phase <- IF pc = "done" THEN "over" ELSE "on",
                   left <- IF ready = "no" THEN Cardinality(Untried) ELSE 0,
                   verdict <- ready
ImplementsAttempts == Attempts!MadeSpec

\* "TVR_RELAY_IDLE_TIMEOUT: Stop upstream after last viewer leaves": a session
\* nobody watches does not outlast the timeout, give or take one poll.
IdleEnds == pc # "done" => idleFor <= IdleTicks

-----------------------------------------------------------------------------
(***************************************************************************)
(* The inductive invariant behind the properties.                          *)
(***************************************************************************)
Here == <<currentIndex, candidateIndex>>

\* The URLs that had their turn in this round.
Before ==
  {p \in Walk : p[1] < currentIndex \/ (p[1] = currentIndex /\ p[2] < candidateIndex)}

PlaceInv ==
  /\ src \in Sources /\ start \in StartIndices(src)
  /\ Here \in Walk
  /\ failures \in [Positions(src) -> 0 .. MaxFailures]

\* Each URL failed once more if it had its turn in this round; before readiness
\* this is the first round, and the attempts count the turns.
TurnInv ==
  /\ gaveUp => \A p \in Walk : failures[p] = 1
  /\ ~gaveUp => \E r \in 0 .. MaxFailures :
       /\ \A p \in Walk : failures[p] = IF p \in Before THEN r + 1 ELSE r
       /\ ready = "no" => r = 0 /\ attemptsBeforeReady = Cardinality(Before)
  /\ attemptsBeforeReady \in 0 .. AttemptBudget

LoopInv ==
  /\ ready \in {"no", "yes", "failed"} /\ gaveUp \in BOOLEAN
  /\ gaveUp <=> ready = "failed"
  /\ gaveUp => pc = "done"
  /\ backoff \in {1, 2, 4, 8, 16}
  /\ watched \in BOOLEAN /\ cut \in BOOLEAN /\ stopped \in BOOLEAN
  /\ pc \in {"head", "idle", "pump", "backoff", "done"}
  /\ timer \in 0 .. IdleTicks /\ (pc = "idle" => timer = IdleTicks)

SessionInv == PlaceInv /\ TurnInv /\ LoopInv

=============================================================================
