------------------------- MODULE SessionPumpProofs -------------------------
(***************************************************************************)
(* The walk of a session over its URLs, for every list of upstreams and    *)
(* candidates, every policy and every bound on failures.  The invariant    *)
(* relates each URL's failures to whether it had its turn in this round;   *)
(* the attempt budget is the number of URLs of the walk, so before         *)
(* readiness the attempts run out exactly at the end of the first round.   *)
(***************************************************************************)
EXTENDS SessionPump, FiniteSetTheorems, TLAPS

LEMMA SourceFacts ==
  ASSUME NEW s \in Sources
  PROVE  /\ s.policy \in {"fixed", "random", "failover"}
         /\ s.cands \in Seq(Nat \ {0}) /\ Len(s.cands) \in Nat \ {0}
         /\ DOMAIN s.cands = 1 .. Len(s.cands)
         /\ s.fixed \in DOMAIN s.cands
         /\ \A u \in 1 .. Len(s.cands) : s.cands[u] \in Nat \ {0}
BY PumpAssumption

LEMMA CandidateRange ==
  ASSUME NEW n \in Nat \ {0}
  PROVE  IsFiniteSet(0 .. n - 1) /\ Cardinality(0 .. n - 1) = n
<1>1. PICK b \in Int : b = n - 1 /\ ~(0 > b)
  OBVIOUS
<1>2. IsFiniteSet(0 .. b) /\ Cardinality(0 .. b) = b - 0 + 1
  BY <1>1, FS_Interval
<1>3. IsFiniteSet(0 .. n - 1) /\ Cardinality(0 .. n - 1) = b - 0 + 1
  BY <1>1, <1>2, Zenon
<1> QED BY <1>1, <1>3

LEMMA PositionsFinite ==
  ASSUME NEW s \in Sources
  PROVE  IsFiniteSet(Positions(s))
<1> DEFINE f == [u \in DOMAIN s.cands |-> {u} \X (0 .. s.cands[u] - 1)]
           T == {{u} \X (0 .. s.cands[u] - 1) : u \in DOMAIN s.cands}
<1>1. IsFiniteSet(DOMAIN s.cands)
  BY SourceFacts, FS_Interval
<1>2. f \in Surjection(DOMAIN s.cands, T)
  BY DEF Surjection
<1>3. IsFiniteSet(T)
  <2> HIDE DEF f, T
  <2> QED BY <1>1, <1>2, FS_Surjection
<1>4. ASSUME NEW X \in T PROVE IsFiniteSet(X)
  <2>1. PICK u \in DOMAIN s.cands : X = {u} \X (0 .. s.cands[u] - 1)
    OBVIOUS
  <2>2. s.cands[u] \in Nat \ {0}
    BY SourceFacts
  <2>3. IsFiniteSet({u}) /\ IsFiniteSet(0 .. s.cands[u] - 1)
    BY <2>2, FS_Singleton, CandidateRange
  <2> QED BY <2>1, <2>3, FS_Product
<1>5. IsFiniteSet(UNION T)
  <2> HIDE DEF T
  <2> QED BY <1>3, <1>4, FS_UNION
<1> QED BY <1>5 DEF Positions

LEMMA InPositions ==
  ASSUME NEW s \in Sources
  PROVE  /\ \A u, c : <<u, c>> \in Positions(s)
                <=> u \in 1 .. Len(s.cands) /\ c \in 0 .. s.cands[u] - 1
         /\ \A p \in Positions(s) : p = <<p[1], p[2]>>
BY SourceFacts DEF Positions

\* The URLs of the walk are the attempts a session gets before it is ready.
LEMMA BudgetIsWalk ==
  ASSUME PlaceInv
  PROVE  /\ IsFiniteSet(Walk) /\ Cardinality(Walk) \in Nat
         /\ ShouldWalk => AttemptBudget = Cardinality(Walk)
         /\ ~ShouldWalk => Walk = {Here} /\ Before = {}
         /\ AttemptBudget \in Nat
<1> USE DEF PlaceInv
<1>1. IsFiniteSet(Positions(src))
  BY PositionsFinite
<1>2. Walk \in SUBSET Positions(src)
  BY DEF Walk
<1>3. IsFiniteSet(Walk) /\ Cardinality(Walk) \in Nat /\ Cardinality(Positions(src)) \in Nat
  BY <1>1, <1>2, FS_Subset, FS_CardinalityType
<1>4. /\ currentIndex \in 1 .. Len(src.cands)
      /\ candidateIndex \in 0 .. src.cands[currentIndex] - 1
      /\ src.cands[currentIndex] \in Nat \ {0}
  BY InPositions, SourceFacts DEF Walk, Here
<1>5. CASE IsFallback
  <2>1. Walk = Positions(src)
    BY <1>5 DEF Walk
  <2> QED BY <1>3, <1>5, <2>1 DEF AttemptBudget, CandidatesOf, ShouldWalk
<1>6. CASE ~IsFallback
  <2>1. currentIndex = start
    BY <1>6 DEF Walk, Here
  <2> DEFINE c == src.cands[currentIndex]
  <2>2. Walk = {currentIndex} \X (0 .. c - 1)
    <3>1. ASSUME NEW p \in Walk PROVE p \in {currentIndex} \X (0 .. c - 1)
      BY <1>6, <2>1, InPositions DEF Walk
    <3>2. ASSUME NEW p \in {currentIndex} \X (0 .. c - 1) PROVE p \in Walk
      <4>1. p = <<p[1], p[2]>> /\ p[1] = currentIndex /\ p[2] \in 0 .. c - 1
        OBVIOUS
      <4> QED BY <1>4, <2>1, <4>1, InPositions DEF Walk
    <3> QED BY <3>1, <3>2
  <2>3. Cardinality(Walk) = c
    <3>1. IsFiniteSet({currentIndex}) /\ Cardinality({currentIndex}) = 1
      BY FS_Singleton
    <3>3. IsFiniteSet(0 .. c - 1) /\ Cardinality(0 .. c - 1) = c
      BY <1>4, CandidateRange
    <3>4. Cardinality({currentIndex} \X (0 .. c - 1)) = 1 * c
      <4> HIDE DEF c
      <4>1. Cardinality({currentIndex} \X (0 .. c - 1)) = Cardinality({currentIndex}) * Cardinality(0 .. c - 1)
        BY <3>1, <3>3, FS_Product, Zenon
      <4> QED BY <3>1, <3>3, <4>1
    <3> QED BY <1>4, <2>2, <3>4
  <2>4. AttemptBudget = c
    BY <1>6 DEF AttemptBudget
  <2>5. ASSUME ~ShouldWalk PROVE Walk = {Here} /\ Before = {}
    <3>1. c = 1 /\ candidateIndex = 0
      BY <1>4, <2>5 DEF ShouldWalk
    <3>2. 0 .. c - 1 = {0}
      BY <3>1
    <3>3. Walk = {<<currentIndex, 0>>}
      BY <2>2, <3>2
    <3> QED BY <1>4, <3>1, <3>3 DEF Here, Before
  <2> QED BY <1>3, <1>4, <2>3, <2>4, <2>5
<1> QED BY <1>5, <1>6


LEMMA NextUpstream ==
  ASSUME NEW n \in Nat \ {0}, NEW u \in 1 .. n
  PROVE  (u % n) + 1 = IF u = n THEN 1 ELSE u + 1
OBVIOUS

\* Where the session is, as integers the provers can compare.
LEMMA PlaceFacts ==
  ASSUME PlaceInv
  PROVE  /\ currentIndex \in 1 .. Len(src.cands) /\ candidateIndex \in Nat
         /\ src.cands[currentIndex] \in Nat \ {0}
         /\ candidateIndex <= src.cands[currentIndex] - 1
         /\ \A p \in Walk : /\ p = <<p[1], p[2]>>
                            /\ p[1] \in 1 .. Len(src.cands) /\ p[2] \in Nat
                            /\ p[2] <= src.cands[p[1]] - 1
         /\ Here \in Walk /\ Here \notin Before /\ Before \subseteq Walk
         /\ Here[1] = currentIndex /\ Here[2] = candidateIndex
<1>1. /\ currentIndex \in 1 .. Len(src.cands)
      /\ src.cands[currentIndex] \in Nat \ {0}
      /\ candidateIndex \in 0 .. src.cands[currentIndex] - 1
  BY InPositions, SourceFacts DEF PlaceInv, Walk, Here
<1>2. candidateIndex \in Nat /\ candidateIndex <= src.cands[currentIndex] - 1
  BY <1>1
<1>3. ASSUME NEW p \in Walk
      PROVE  /\ p = <<p[1], p[2]>>
             /\ p[1] \in 1 .. Len(src.cands) /\ p[2] \in Nat
             /\ p[2] <= src.cands[p[1]] - 1
  <2>1. p \in Positions(src) /\ src \in Sources
    BY DEF Walk, PlaceInv
  <2>2. p = <<p[1], p[2]>>
    BY <2>1, InPositions
  <2>3. p[1] \in 1 .. Len(src.cands) /\ p[2] \in 0 .. src.cands[p[1]] - 1
    BY <2>1, <2>2, InPositions
  <2>4. src.cands[p[1]] \in Nat \ {0}
    BY <2>1, <2>3, SourceFacts
  <2> QED BY <2>2, <2>3, <2>4
<1>4. Here[1] = currentIndex /\ Here[2] = candidateIndex /\ Before \subseteq Walk
  BY DEF Here, Before
<1>5. Here \notin Before
  BY <1>1, <1>2, <1>4 DEF Before
<1> QED BY <1>1, <1>2, <1>3, <1>4, <1>5 DEF PlaceInv

\* AdvanceIndex ends the turn of one URL, and with the last one the round.
LEMMA Advance ==
  ASSUME PlaceInv, AdvanceIndex, UNCHANGED <<src, start>>
  PROVE  /\ Walk' = Walk /\ Here' \in Walk
         /\ \/ Before' = Before \cup {Here}
            \/ Before' = {} /\ Before \cup {Here} = Walk
<1>1. Walk' = Walk
  BY DEF Walk, Positions, IsFallback
<1> DEFINE u == currentIndex
           c == candidateIndex
           k == src.cands[currentIndex]
           n == Len(src.cands)
<1>2. /\ u \in Int /\ c \in Int /\ k \in Int /\ n \in Int
      /\ 1 <= u /\ u <= n /\ 0 <= c /\ c <= k - 1 /\ n \in Nat \ {0} /\ u \in 1 .. n
  BY PlaceFacts, SourceFacts DEF PlaceInv
<1>3. Here' = <<currentIndex', candidateIndex'>>
  BY DEF Here
<1>4. Here = <<u, c>>
  BY DEF Here
<1>5. ASSUME NEW p \in Walk
      PROVE  /\ p[1] \in Int /\ p[2] \in Int /\ 1 <= p[1] /\ p[1] <= n /\ 0 <= p[2]
             /\ p[1] = u => p[2] <= k - 1
             /\ p = Here <=> p[1] = u /\ p[2] = c
             /\ p \in Before <=> p[1] < u \/ (p[1] = u /\ p[2] < c)
             /\ p \in Before' <=> \/ p[1] < currentIndex'
                                  \/ p[1] = currentIndex' /\ p[2] < candidateIndex'
  <2>1. p = <<p[1], p[2]>> /\ p[1] \in 1 .. n /\ p[2] \in Nat /\ p[2] <= src.cands[p[1]] - 1
    BY PlaceFacts
  <2>2. p = Here <=> p[1] = u /\ p[2] = c
    BY <1>4, <2>1
  <2>3. p \in Before <=> p[1] < u \/ (p[1] = u /\ p[2] < c)
    BY DEF Before
  <2>4. p \in Before' <=> \/ p[1] < currentIndex'
                          \/ p[1] = currentIndex' /\ p[2] < candidateIndex'
    BY <1>1 DEF Before
  <2> QED BY <1>2, <2>1, <2>2, <2>3, <2>4
<1>6. Before \subseteq Walk /\ Before' \subseteq Walk /\ Here \in Walk
  BY <1>1, PlaceFacts DEF Before
<1>7. /\ src \in Sources /\ Positions(src)' = Positions(src) /\ start \in StartIndices(src)
  BY DEF PlaceInv, Positions
<1>8. \A a, b : <<a, b>> \in Walk <=>
         a \in 1 .. n /\ b \in 0 .. src.cands[a] - 1 /\ (IsFallback \/ a = start)
  BY <1>7, InPositions DEF Walk
<1>9. ~IsFallback => u = start
  BY <1>4, <1>6, <1>8
<1>10. CASE c + 1 < k
  <2>1. currentIndex' = u /\ candidateIndex' = c + 1
    BY <1>10 DEF AdvanceIndex
  <2>2. Here' \in Walk
    BY <1>2, <1>3, <1>8, <1>9, <1>10, <2>1
  <2>3. Before' = Before \cup {Here}
    <3> HIDE DEF u, c, k, n
    <3>1. ASSUME NEW p \in Walk PROVE p \in Before' <=> p \in Before \/ p = Here
      BY <1>2, <1>5, <2>1
    <3> QED BY <1>6, <3>1
  <2> QED BY <1>1, <2>2, <2>3
<1>11. CASE ~(c + 1 < k)
  <2>1. c = k - 1
    BY <1>2, <1>11
  <2>2. candidateIndex' = 0
    BY <1>11 DEF AdvanceIndex
  <2>3. CASE IsFallback /\ u # n
    <3>1. currentIndex' = u + 1
      BY <1>2, <1>11, <2>3, NextUpstream DEF AdvanceIndex
    <3>2. Here' \in Walk
      <4>1. u + 1 \in 1 .. n
        BY <1>2, <2>3
      <4>2. src.cands[u + 1] \in Nat \ {0}
        BY <1>7, <4>1, SourceFacts
      <4> QED BY <1>3, <1>8, <2>2, <2>3, <3>1, <4>1, <4>2
    <3>3. Before' = Before \cup {Here}
      <4> HIDE DEF u, c, k, n
      <4>1. ASSUME NEW p \in Walk PROVE p \in Before' <=> p \in Before \/ p = Here
        BY <1>2, <1>5, <2>1, <2>2, <3>1
      <4> QED BY <1>6, <4>1
    <3> QED BY <1>1, <3>2, <3>3
  <2>4. CASE IsFallback /\ u = n
    <3>1. currentIndex' = 1
      BY <1>2, <1>11, <2>4, NextUpstream DEF AdvanceIndex
    <3>2. Here' \in Walk
      <4>1. src.cands[1] \in Nat \ {0} /\ 1 \in 1 .. n
        BY <1>2, <1>7, SourceFacts
      <4> QED BY <1>3, <1>8, <2>2, <2>4, <3>1, <4>1
    <3>3. Before' = {} /\ Before \cup {Here} = Walk
      <4> HIDE DEF u, c, k, n
      <4>1. ASSUME NEW p \in Walk PROVE p \notin Before' /\ (p \in Before \/ p = Here)
        BY <1>2, <1>5, <2>1, <2>2, <2>4, <3>1
      <4> QED BY <1>6, <4>1
    <3> QED BY <1>1, <3>2, <3>3
  <2>5. CASE ~IsFallback
    <3>1. currentIndex' = u
      BY <1>11, <2>5 DEF AdvanceIndex
    <3>2. Here' \in Walk
      BY <1>2, <1>3, <1>8, <1>9, <2>2, <3>1
    <3>3. ASSUME NEW p \in Walk PROVE p[1] = u
      BY <1>9, <2>5 DEF Walk
    <3>4. Before' = {} /\ Before \cup {Here} = Walk
      <4> HIDE DEF u, c, k, n
      <4>1. ASSUME NEW p \in Walk PROVE p \notin Before' /\ (p \in Before \/ p = Here)
        BY <1>2, <1>5, <2>1, <2>2, <3>1, <3>3
      <4> QED BY <1>6, <4>1
    <3> QED BY <1>1, <3>2, <3>4
  <2> QED BY <2>3, <2>4, <2>5
<1> QED BY <1>10, <1>11


-----------------------------------------------------------------------------
(***************************************************************************)
(* The steps.                                                              *)
(***************************************************************************)

\* What a failure adds to the counts of the round.
LEMMA FailureCounts ==
  ASSUME PlaceInv, PumpFails, NEW r \in 0 .. MaxFailures,
         \A p \in Walk : failures[p] = IF p \in Before THEN r + 1 ELSE r
  PROVE  /\ failures' \in [Positions(src) -> 0 .. MaxFailures]
         /\ r + 1 \in 0 .. MaxFailures
         /\ \A p \in Walk : failures'[p] = IF p \in Before \cup {Here} THEN r + 1 ELSE r
         /\ UNCHANGED <<src, start>>
<1>1. /\ failures \in [Positions(src) -> 0 .. MaxFailures] /\ MaxFailures \in Nat
      /\ failures[Here] < MaxFailures
      /\ failures' = [failures EXCEPT ![Here] = @ + 1]
      /\ UNCHANGED <<src, start>>
  BY PumpAssumption DEF PlaceInv, PumpFails, Pumping, Here
<1>2. Walk \subseteq Positions(src) /\ Here \in Walk /\ Here \notin Before
  BY PlaceFacts DEF Walk
<1>3. failures[Here] = r /\ failures[Here] \in Int
  BY <1>1, <1>2
<1>4. r + 1 \in 0 .. MaxFailures
  BY <1>1, <1>3
<1>5. failures' \in [Positions(src) -> 0 .. MaxFailures] /\ failures'[Here] = r + 1
  BY <1>1, <1>2, <1>3, <1>4
<1>6. ASSUME NEW p \in Walk
      PROVE  failures'[p] = IF p \in Before \cup {Here} THEN r + 1 ELSE r
  BY <1>1, <1>2, <1>5
<1> QED BY <1>1, <1>4, <1>5, <1>6

LEMMA SessionInitial == Init => SessionInv
<1> SUFFICES ASSUME Init PROVE SessionInv
  OBVIOUS
<1>1. /\ src \in Sources /\ start \in StartIndices(src)
      /\ currentIndex = start /\ candidateIndex = 0
      /\ failures = [p \in Positions(src) |-> 0]
  BY DEF Init
<1>2. start \in 1 .. Len(src.cands) /\ src.cands[start] \in Nat \ {0} /\ (IsFallback => start = 1)
  <2>1. start \in DOMAIN src.cands /\ (IsFallback => start = 1)
    <3>1. src.policy \in {"fixed", "random", "failover"} /\ src.fixed \in DOMAIN src.cands
          /\ 1 \in DOMAIN src.cands
      BY <1>1, SourceFacts
    <3> QED BY <1>1, <3>1 DEF StartIndices, IsFallback
  <2> QED BY <1>1, <2>1, SourceFacts
<1>3. Here \in Walk
  BY <1>1, <1>2, InPositions DEF Walk, Here
<1>4. PlaceInv
  BY <1>1, <1>3, PumpAssumption DEF PlaceInv
<1>5. Before = {}
  <2>1. ASSUME NEW p \in Walk PROVE ~(p[1] < currentIndex \/ (p[1] = currentIndex /\ p[2] < candidateIndex))
    <3>1. p[1] \in Int /\ 1 <= p[1] /\ p[2] \in Nat /\ (IsFallback \/ p[1] = start)
      BY <1>4, PlaceFacts DEF Walk
    <3> QED BY <1>1, <1>2, <3>1
  <2> QED BY <2>1 DEF Before
<1>6. TurnInv
  <2>1. ~gaveUp /\ attemptsBeforeReady = 0
    BY DEF Init
  <2>2. 0 \in 0 .. MaxFailures /\ attemptsBeforeReady \in 0 .. AttemptBudget
    BY <1>4, <2>1, BudgetIsWalk, PumpAssumption
  <2>3. \A p \in Walk : failures[p] = IF p \in Before THEN 0 + 1 ELSE 0
    BY <1>1, <1>5 DEF Walk
  <2>4. Cardinality(Before) = 0
    BY <1>5, FS_EmptySet
  <2> QED BY <2>1, <2>2, <2>3, <2>4 DEF TurnInv
<1>7. LoopInv
  <2>1. gaveUp = FALSE /\ watched = FALSE /\ cut = FALSE /\ stopped = FALSE
    BY DEF Init
  <2>2. gaveUp \in BOOLEAN /\ watched \in BOOLEAN /\ cut \in BOOLEAN /\ stopped \in BOOLEAN /\ ~gaveUp
    BY <2>1
  <2> QED BY <2>2, PumpAssumption DEF Init, LoopInv
<1> QED BY <1>4, <1>6, <1>7 DEF SessionInv

\* What TurnInv needs of a step that leaves the walk alone.
LEMMA SessionFrame ==
  ASSUME SessionInv, UNCHANGED <<walkVars, failures, gaveUp>>,
         ready' = ready \/ (ready = "no" /\ ready' = "yes"), LoopInv'
  PROVE  SessionInv'
<1>1. /\ Walk' = Walk /\ Before' = Before /\ Here' = Here /\ AttemptBudget' = AttemptBudget
      /\ StartIndices(src)' = StartIndices(src) /\ Positions(src)' = Positions(src)
  BY DEF walkVars, Walk, Before, Here, AttemptBudget, IsFallback, CandidatesOf, Positions, StartIndices
<1>2. PlaceInv'
  BY <1>1 DEF SessionInv, PlaceInv, walkVars
<1>3. ready' = "no" => ready = "no"
  OBVIOUS
<1>4. TurnInv'
  BY <1>1, <1>3 DEF SessionInv, TurnInv, walkVars
<1> QED BY <1>2, <1>4 DEF SessionInv

LEMMA LoopStepsKeep ==
  ASSUME SessionInv,
         \/ BeginIdle \/ IdleStopped \/ IdlePolls \/ IdleTimeout \/ BeginPump
         \/ PumpMedia \/ PumpCut \/ BackoffOver \/ BackoffStopped
         \/ Join \/ Leave \/ Stop
  PROVE  SessionInv'
<1> USE DEF SessionInv, LoopInv
<1> USE PumpAssumption
<1>1. CASE BeginIdle \/ IdleStopped \/ IdlePolls \/ IdleTimeout \/ BeginPump
  <2>1. LoopInv'
    BY <1>1 DEF BeginIdle, IdleStopped, IdlePolls, IdleTimeout, BeginPump, Idling
  <2>2. UNCHANGED <<walkVars, failures, gaveUp, ready>>
    BY <1>1 DEF BeginIdle, IdleStopped, IdlePolls, IdleTimeout, BeginPump, Idling
  <2> QED BY <2>1, <2>2, SessionFrame
<1>2. CASE PumpMedia
  <2>1. LoopInv'
    BY <1>2 DEF PumpMedia, Pumping
  <2>2. UNCHANGED <<walkVars, failures, gaveUp>> /\ ready = "no" /\ ready' = "yes"
    BY <1>2 DEF PumpMedia, Pumping, StayHere, walkVars
  <2> QED BY <2>1, <2>2, SessionFrame
<1>3. CASE PumpCut
  <2>1. LoopInv'
    BY <1>3 DEF PumpCut, Pumping
  <2>2. UNCHANGED <<walkVars, failures, gaveUp, ready>>
    BY <1>3 DEF PumpCut, Pumping, StayHere, walkVars
  <2> QED BY <2>1, <2>2, SessionFrame
<1>4. CASE BackoffOver \/ BackoffStopped
  <2>1. LoopInv'
    BY <1>4 DEF BackoffOver, BackoffStopped
  <2>2. UNCHANGED <<walkVars, failures, gaveUp, ready>>
    BY <1>4 DEF BackoffOver, BackoffStopped
  <2> QED BY <2>1, <2>2, SessionFrame
<1>5. CASE Join \/ Leave \/ Stop
  <2>1. LoopInv'
    <3>1. watched' \in BOOLEAN /\ stopped' \in BOOLEAN /\ UNCHANGED <<ready, gaveUp, backoff, pc, timer>>
      BY <1>5 DEF Join, Leave, Stop, Outside
    <3>2. cut' \in BOOLEAN
      <4>1. cut' = cut \/ cut' = (pc = "pump")
        BY <1>5, Zenon DEF Join, Leave, Stop
      <4> QED BY <4>1, Zenon
    <3> QED BY <3>1, <3>2
  <2>2. UNCHANGED <<walkVars, failures, gaveUp, ready>>
    BY <1>5 DEF Join, Leave, Stop, Outside
  <2> QED BY <2>1, <2>2, SessionFrame
<1> QED BY <1>1, <1>2, <1>3, <1>4, <1>5


LEMMA AdvanceKeepsPlace ==
  ASSUME PlaceInv, PumpFails, AdvanceIndex,
         failures' \in [Positions(src) -> 0 .. MaxFailures]
  PROVE  PlaceInv' /\ AttemptBudget' = AttemptBudget
<1>1. UNCHANGED <<src, start>>
  BY DEF PumpFails, Pumping
<1>2. Walk' = Walk /\ Here' \in Walk
  BY <1>1, Advance
<1>3. PlaceInv'
  BY <1>1, <1>2 DEF PlaceInv, Positions, StartIndices
<1>4. ~IsFallback => currentIndex' = currentIndex
  BY DEF AdvanceIndex
<1>5. AttemptBudget' = AttemptBudget
  BY <1>1, <1>4 DEF AttemptBudget, CandidatesOf, Positions, IsFallback
<1> QED BY <1>3, <1>5

LEMMA StayKeepsPlace ==
  ASSUME PlaceInv, PumpFails, StayHere,
         failures' \in [Positions(src) -> 0 .. MaxFailures]
  PROVE  PlaceInv' /\ AttemptBudget' = AttemptBudget /\ Walk' = Walk /\ Before' = Before
<1>1. UNCHANGED <<src, start, currentIndex, candidateIndex>>
  BY DEF PumpFails, Pumping, StayHere
<1>2. AttemptBudget' = AttemptBudget
  BY <1>1 DEF AttemptBudget, CandidatesOf, Positions, IsFallback
<1>3. Here' = Here /\ IsFallback' = IsFallback
  BY <1>1 DEF Here, IsFallback
<1>4. Walk' = Walk
  BY <1>1, <1>3 DEF Walk, Positions
<1>5. Before' = Before
  BY <1>1, <1>3, <1>4 DEF Before
<1>6. PlaceInv'
  BY <1>1, <1>3, <1>4 DEF PlaceInv
<1> QED BY <1>2, <1>4, <1>5, <1>6

\* The failure of a turn, and the number of turns it makes in the round.
LEMMA TurnCount ==
  ASSUME PlaceInv
  PROVE  /\ IsFiniteSet(Before) /\ Cardinality(Before) \in Nat
         /\ Cardinality(Before \cup {Here}) = Cardinality(Before) + 1
         /\ Cardinality(Before) + 1 <= Cardinality(Walk)
         /\ Cardinality(Before) + 1 = Cardinality(Walk) => Before \cup {Here} = Walk
<1>1. IsFiniteSet(Walk) /\ Before \in SUBSET Walk /\ Here \in Walk /\ Here \notin Before
  BY BudgetIsWalk, PlaceFacts
<1>2. IsFiniteSet(Before) /\ Cardinality(Before) \in Nat
  BY <1>1, FS_Subset, FS_CardinalityType
<1>3. Cardinality(Before \cup {Here}) = Cardinality(Before) + 1
  BY <1>1, <1>2, FS_AddElement
<1>4. Before \cup {Here} \in SUBSET Walk
  BY <1>1
<1>5. /\ Cardinality(Before \cup {Here}) <= Cardinality(Walk)
      /\ Cardinality(Walk) = Cardinality(Before \cup {Here}) => Walk = Before \cup {Here}
  BY <1>1, <1>4, FS_Subset
<1> QED BY <1>2, <1>3, <1>5

LEMMA RetryKeeps == SessionInv /\ RetryBeforeReady => SessionInv'
<1> SUFFICES ASSUME SessionInv, RetryBeforeReady PROVE SessionInv'
  OBVIOUS
<1>1. PlaceInv /\ TurnInv /\ LoopInv /\ PumpFails /\ AdvanceIndex /\ ShouldWalk /\ ready = "no"
  BY DEF SessionInv, RetryBeforeReady
<1>2. /\ attemptsBeforeReady' = attemptsBeforeReady + 1 /\ attemptsBeforeReady' < AttemptBudget
      /\ pc' = "head" /\ UNCHANGED <<ready, backoff, gaveUp>> /\ cut' = FALSE
      /\ UNCHANGED <<src, start, watched, stopped, timer>>
  BY DEF RetryBeforeReady, PumpFails, Pumping
<1>3. ~gaveUp
  BY <1>1 DEF LoopInv
<1>4. /\ \A p \in Walk : failures[p] = IF p \in Before THEN 0 + 1 ELSE 0
      /\ attemptsBeforeReady = Cardinality(Before) /\ 0 \in 0 .. MaxFailures
  BY <1>1, <1>3, PumpAssumption DEF TurnInv
<1>5. /\ failures' \in [Positions(src) -> 0 .. MaxFailures]
      /\ \A p \in Walk : failures'[p] = IF p \in Before \cup {Here} THEN 0 + 1 ELSE 0
  BY <1>1, <1>4, FailureCounts
<1>6. Before \cup {Here} # Walk
  BY <1>1, <1>2, <1>4, TurnCount, BudgetIsWalk
<1>7. Walk' = Walk /\ Before' = Before \cup {Here}
  BY <1>1, <1>2, <1>6, Advance
<1>8. PlaceInv' /\ AttemptBudget' = AttemptBudget /\ AttemptBudget \in Nat
  BY <1>1, <1>5, AdvanceKeepsPlace, BudgetIsWalk
<1>9. attemptsBeforeReady' = Cardinality(Before') /\ attemptsBeforeReady' \in 0 .. AttemptBudget'
  BY <1>1, <1>2, <1>4, <1>7, <1>8, TurnCount
<1>10. \A p \in Walk' : failures'[p] = IF p \in Before' THEN 0 + 1 ELSE 0
  BY <1>5, <1>7
<1>11. TurnInv'
  BY <1>2, <1>3, <1>4, <1>9, <1>10, PumpAssumption DEF TurnInv
<1>12. LoopInv'
  BY <1>1, <1>2, <1>3 DEF LoopInv
<1> QED BY <1>8, <1>11, <1>12 DEF SessionInv

LEMMA GiveUpKeeps == SessionInv /\ GiveUp => SessionInv'
<1> SUFFICES ASSUME SessionInv, GiveUp PROVE SessionInv'
  OBVIOUS
<1>1. PlaceInv /\ TurnInv /\ LoopInv /\ PumpFails /\ StayHere /\ ready = "no"
  BY DEF SessionInv, GiveUp
<1>2. /\ attemptsBeforeReady' = IF ShouldWalk THEN attemptsBeforeReady + 1 ELSE attemptsBeforeReady
      /\ ShouldWalk => attemptsBeforeReady' >= AttemptBudget
      /\ pc' = "done" /\ ready' = "failed" /\ gaveUp' = TRUE /\ cut' = FALSE
      /\ UNCHANGED <<src, start, watched, stopped, timer, backoff>>
  BY DEF GiveUp, PumpFails, Pumping
<1>3. ~gaveUp
  BY <1>1 DEF LoopInv
<1>4. /\ \A p \in Walk : failures[p] = IF p \in Before THEN 0 + 1 ELSE 0
      /\ attemptsBeforeReady = Cardinality(Before) /\ 0 \in 0 .. MaxFailures
      /\ attemptsBeforeReady \in 0 .. AttemptBudget
  BY <1>1, <1>3, PumpAssumption DEF TurnInv
<1>5. /\ failures' \in [Positions(src) -> 0 .. MaxFailures]
      /\ \A p \in Walk : failures'[p] = IF p \in Before \cup {Here} THEN 0 + 1 ELSE 0
  BY <1>1, <1>4, FailureCounts
<1>6. PlaceInv' /\ AttemptBudget' = AttemptBudget /\ Walk' = Walk /\ AttemptBudget \in Nat
  BY <1>1, <1>5, StayKeepsPlace, BudgetIsWalk
<1>7. Before \cup {Here} = Walk /\ attemptsBeforeReady' \in 0 .. AttemptBudget
  <2>1. CASE ShouldWalk
    <3>1. /\ AttemptBudget = Cardinality(Walk) /\ Cardinality(Before) \in Nat
          /\ Cardinality(Before) + 1 <= Cardinality(Walk)
          /\ Cardinality(Before) + 1 = Cardinality(Walk) => Before \cup {Here} = Walk
      BY <1>1, <2>1, TurnCount, BudgetIsWalk
    <3> QED BY <1>2, <1>4, <1>6, <2>1, <3>1
  <2>2. CASE ~ShouldWalk
    BY <1>1, <1>2, <1>4, <2>2, BudgetIsWalk
  <2> QED BY <2>1, <2>2
<1>8. \A p \in Walk' : failures'[p] = 1
  BY <1>5, <1>6, <1>7
<1>9. TurnInv'
  BY <1>2, <1>6, <1>7, <1>8 DEF TurnInv
<1>10. LoopInv'
  BY <1>1, <1>2 DEF LoopInv
<1> QED BY <1>6, <1>9, <1>10 DEF SessionInv

LEMMA ReadyFailuresKeep == SessionInv /\ (StreamEnded \/ FailAfterReady) => SessionInv'
<1> SUFFICES ASSUME SessionInv, StreamEnded \/ FailAfterReady PROVE SessionInv'
  OBVIOUS
<1>1. PlaceInv /\ TurnInv /\ LoopInv /\ PumpFails /\ ready = "yes"
  BY DEF SessionInv, StreamEnded, FailAfterReady
<1>2. /\ \/ ShouldWalk /\ AdvanceIndex
         \/ ~ShouldWalk /\ StayHere
      /\ pc' \in {"done", "backoff"} /\ cut' = FALSE
      /\ UNCHANGED <<ready, backoff, gaveUp, attemptsBeforeReady>>
      /\ UNCHANGED <<src, start, watched, stopped, timer>>
  BY DEF StreamEnded, FailAfterReady, PumpFails, Pumping
<1>3. ~gaveUp
  BY <1>1 DEF LoopInv
<1>4. PICK r \in 0 .. MaxFailures :
        \A p \in Walk : failures[p] = IF p \in Before THEN r + 1 ELSE r
  BY <1>1, <1>3 DEF TurnInv
<1>5. /\ failures' \in [Positions(src) -> 0 .. MaxFailures] /\ r + 1 \in 0 .. MaxFailures
      /\ \A p \in Walk : failures'[p] = IF p \in Before \cup {Here} THEN r + 1 ELSE r
  BY <1>1, <1>4, FailureCounts
<1>6. /\ PlaceInv' /\ AttemptBudget' = AttemptBudget /\ Walk' = Walk
      /\ \/ Before' = Before \cup {Here}
         \/ Before' = {} /\ Before \cup {Here} = Walk
  <2>1. CASE ShouldWalk /\ AdvanceIndex
    BY <1>1, <1>2, <1>5, <2>1, Advance, AdvanceKeepsPlace
  <2>2. CASE ~ShouldWalk /\ StayHere
    <3>1. Walk = {Here} /\ Before = {}
      BY <1>1, <2>2, BudgetIsWalk
    <3>2. PlaceInv' /\ AttemptBudget' = AttemptBudget /\ Walk' = Walk /\ Before' = Before
      BY <1>1, <1>5, <2>2, StayKeepsPlace
    <3> QED BY <3>1, <3>2
  <2> QED BY <1>2, <2>1, <2>2
<1>7. \E m \in 0 .. MaxFailures :
        \A p \in Walk' : failures'[p] = IF p \in Before' THEN m + 1 ELSE m
  <2>1. CASE Before' = Before \cup {Here}
    BY <1>5, <1>6, <2>1
  <2>2. CASE Before' = {} /\ Before \cup {Here} = Walk
    BY <1>5, <1>6, <2>2
  <2> QED BY <1>6, <2>1, <2>2
<1>8. ready' # "no" /\ ~gaveUp' /\ attemptsBeforeReady' \in 0 .. AttemptBudget'
  BY <1>1, <1>2, <1>3, <1>6 DEF TurnInv
<1>9. TurnInv'
  BY <1>7, <1>8 DEF TurnInv
<1>10. LoopInv'
  BY <1>1, <1>2, <1>3 DEF LoopInv
<1> QED BY <1>6, <1>9, <1>10 DEF SessionInv

-----------------------------------------------------------------------------
(***************************************************************************)
(* The theorems.                                                           *)
(***************************************************************************)

\* The invariant of the walk holds in every state of every session.
THEOREM SessionInvariance == Spec => []SessionInv
<1>1. SessionInv /\ [Next]_vars => SessionInv'
  <2> SUFFICES ASSUME SessionInv, [Next]_vars PROVE SessionInv'
    OBVIOUS
  <2>1. CASE RetryBeforeReady \/ GiveUp \/ StreamEnded \/ FailAfterReady
    BY <2>1, RetryKeeps, GiveUpKeeps, ReadyFailuresKeep
  <2>2. CASE UNCHANGED vars
    <3>1. LoopInv' /\ UNCHANGED <<walkVars, failures, gaveUp, ready>>
      BY <2>2 DEF vars, SessionInv, LoopInv
    <3> QED BY <3>1, SessionFrame
  <2> QED BY <2>1, <2>2, LoopStepsKeep DEF Next
<1> QED BY <1>1, SessionInitial, PTL DEF Spec

\* A session's position is always a URL its policy allows, and its attempts stay
\* within the budget, whatever the lengths of the lists of upstreams and candidates.
THEOREM SessionTypes == Spec => []TypeOK
<1>1. SessionInv => TypeOK
  BY DEF SessionInv, PlaceInv, TurnInv, LoopInv, TypeOK, Here
<1> QED BY <1>1, SessionInvariance, PTL

\* No URL of the walk fails a second time before every other has had its turn.
THEOREM EveryUrlHasItsTurn == Spec => []RoundRobin
<1>1. SessionInv => RoundRobin
  <2> SUFFICES ASSUME SessionInv, NEW p \in Walk, NEW q \in Walk
               PROVE  failures[p] <= failures[q] + 1
    BY DEF RoundRobin
  <2>1. CASE gaveUp
    BY <2>1 DEF SessionInv, TurnInv
  <2>2. CASE ~gaveUp
    BY <2>2, PumpAssumption DEF SessionInv, TurnInv
  <2> QED BY <2>1, <2>2
<1> QED BY <1>1, SessionInvariance, PTL

\* A session that was never ready reports failure when, and only when, every URL
\* its policy allows was tried, each exactly once.
THEOREM FailureMeansAllTried == Spec => []GivesUpAfterAll
<1>1. SessionInv => GivesUpAfterAll
  <2> SUFFICES ASSUME SessionInv PROVE GivesUpAfterAll
    OBVIOUS
  <2>1. ASSUME ~gaveUp, ready = "no" PROVE failures[Here] = 0 /\ Here \in Walk
    <3>1. \A p \in Walk : failures[p] = IF p \in Before THEN 0 + 1 ELSE 0
      BY <2>1 DEF SessionInv, TurnInv
    <3> QED BY <3>1, PlaceFacts DEF SessionInv
  <2> QED BY <2>1 DEF SessionInv, TurnInv, GivesUpAfterAll
<1> QED BY <1>1, SessionInvariance, PTL


\* Before readiness the untried URLs are those that had no turn yet; the one the
\* session is at is among them.
LEMMA UntriedCount ==
  ASSUME SessionInv, ready = "no"
  PROVE  /\ Untried = Walk \ Before /\ IsFiniteSet(Untried) /\ Here \in Untried
         /\ Cardinality(Untried) = Cardinality(Walk) - Cardinality(Before)
         /\ Cardinality(Untried) \in Nat \ {0}
         /\ attemptsBeforeReady = Cardinality(Before)
<1>1. PlaceInv /\ ~gaveUp
  BY DEF SessionInv, LoopInv
<1>2. /\ \A p \in Walk : failures[p] = IF p \in Before THEN 0 + 1 ELSE 0
      /\ attemptsBeforeReady = Cardinality(Before)
  BY <1>1 DEF SessionInv, TurnInv
<1>3. Untried = Walk \ Before
  BY <1>2 DEF Untried
<1>4. Here \in Walk /\ Here \notin Before /\ Before \subseteq Walk
  BY <1>1, PlaceFacts
<1>5. /\ IsFiniteSet(Walk) /\ IsFiniteSet(Before) /\ Cardinality(Walk) \in Nat /\ Cardinality(Before) \in Nat
      /\ Cardinality(Before) + 1 <= Cardinality(Walk)
  BY <1>1, BudgetIsWalk, TurnCount
<1>6. IsFiniteSet(Walk \ Before) /\ Cardinality(Walk \ Before) = Cardinality(Walk) - Cardinality(Walk \cap Before)
  BY <1>5, FS_Difference
<1>7. Walk \cap Before = Before
  BY <1>4
<1>8. Cardinality(Untried) = Cardinality(Walk) - Cardinality(Before)
  BY <1>3, <1>6, <1>7, Zenon
<1>9. Cardinality(Untried) \in Nat \ {0}
  BY <1>5, <1>8
<1> QED BY <1>2, <1>3, <1>4, <1>6, <1>8, <1>9

\* A failure before readiness takes the URL the session is at off the untried ones.
LEMMA FailureSpends ==
  ASSUME SessionInv, ready = "no", PumpFails
  PROVE  Untried' = Untried \ {Here}
<1>1. /\ failures \in [Positions(src) -> 0 .. MaxFailures] /\ Here \in Positions(src)
      /\ failures' = [failures EXCEPT ![Here] = @ + 1] /\ UNCHANGED <<src, start>>
  BY DEF SessionInv, PlaceInv, Walk, PumpFails, Pumping, Here
<1>2. Walk' = Walk /\ Walk \subseteq Positions(src)
  BY <1>1 DEF Walk, Positions, IsFallback
<1>3. failures[Here] = 0
  BY UntriedCount DEF Untried
<1>4. failures'[Here] = 1 /\ \A p \in Walk : p # Here => failures'[p] = failures[p]
  BY <1>1, <1>2, <1>3
<1> QED BY <1>2, <1>3, <1>4 DEF Untried

\* The walk implements the countdown of attempts: every failure before readiness
\* spends one untried URL, and the session gives up with the last of them.
THEOREM WalkImplementsAttempts == Spec => ImplementsAttempts
<1>1. Init => Attempts!Made
  <2> SUFFICES ASSUME Init PROVE Attempts!Made
    OBVIOUS
  <2>1. SessionInv /\ ready = "no" /\ pc = "head"
    BY SessionInitial DEF Init
  <2> QED BY <2>1, UntriedCount DEF Attempts!Made
<1>2. SessionInv /\ [Next]_vars => [Attempts!AttemptNext]_(Attempts!attemptVars)
  <2> SUFFICES ASSUME SessionInv, [Next]_vars
               PROVE  Attempts!AttemptNext \/ UNCHANGED Attempts!attemptVars
    OBVIOUS
  <2>1. CASE RetryBeforeReady
    <3>1. ready = "no" /\ ready' = "no" /\ pc # "done" /\ pc' # "done" /\ PumpFails /\ ShouldWalk
      BY <2>1 DEF RetryBeforeReady, PumpFails, Pumping
    <3>2. attemptsBeforeReady + 1 < AttemptBudget
      BY <2>1 DEF RetryBeforeReady
    <3>3. AttemptBudget = Cardinality(Walk) /\ Cardinality(Walk) \in Nat
      BY <3>1, BudgetIsWalk DEF SessionInv
    <3>4. /\ IsFiniteSet(Untried) /\ Here \in Untried /\ Cardinality(Untried) \in Nat
          /\ Cardinality(Untried) = Cardinality(Walk) - attemptsBeforeReady
      BY <3>1, UntriedCount
    <3>5. Cardinality(Untried) > 1
      <4>1. attemptsBeforeReady \in Int
        BY <3>3 DEF SessionInv, TurnInv
      <4> QED BY <3>2, <3>3, <3>4, <4>1
    <3>6. Cardinality(Untried') = Cardinality(Untried) - 1
      BY <3>1, <3>4, FailureSpends, FS_RemoveElement
    <3>7. Attempts!Retry
      BY <3>1, <3>5, <3>6 DEF Attempts!Retry
    <3> QED BY <3>7 DEF Attempts!AttemptNext
  <2>2. CASE GiveUp
    <3>1. ready = "no" /\ ready' = "failed" /\ pc # "done" /\ pc' = "done"
      BY <2>2 DEF GiveUp, PumpFails, Pumping
    <3>2. Cardinality(Untried) \in Nat \ {0} /\ Cardinality(Untried) = Cardinality(Walk) - attemptsBeforeReady
      BY <3>1, UntriedCount
    <3>3. Cardinality(Untried) = 1
      <4>1. CASE ShouldWalk
        <5>1. /\ attemptsBeforeReady + 1 >= AttemptBudget /\ attemptsBeforeReady \in Int
              /\ AttemptBudget = Cardinality(Walk) /\ Cardinality(Walk) \in Nat
          BY <2>2, <4>1, BudgetIsWalk DEF GiveUp, SessionInv, TurnInv
        <5> QED BY <3>2, <5>1
      <4>2. CASE ~ShouldWalk
        <5>1. Walk = {Here} /\ Before = {}
          BY <4>2, BudgetIsWalk DEF SessionInv
        <5>2. Untried = {Here}
          BY <3>1, <5>1, UntriedCount
        <5> QED BY <5>2, FS_Singleton
      <4> QED BY <4>1, <4>2
    <3>4. Attempts!GiveUp
      BY <3>1, <3>3 DEF Attempts!GiveUp
    <3> QED BY <3>4 DEF Attempts!AttemptNext
  <2>3. CASE StreamEnded \/ FailAfterReady
    <3>1. ready = "yes" /\ ready' = "yes" /\ pc = "pump" /\ pc' \in {"done", "backoff"}
      BY <2>3 DEF StreamEnded, FailAfterReady, PumpFails, Pumping
    <3> QED BY <3>1 DEF Attempts!AttemptNext, Attempts!End, Attempts!attemptVars
  <2>4. CASE PumpMedia
    <3>1. ready = "no" /\ ready' = "yes" /\ pc = "pump" /\ pc' = "pump"
      BY <2>4 DEF PumpMedia, Pumping
    <3>2. Attempts!Media
      BY <3>1 DEF Attempts!Media
    <3> QED BY <3>2 DEF Attempts!AttemptNext
  <2>5. ASSUME UNCHANGED <<src, start, ready, failures>>, pc' = pc \/ pc # "done"
        PROVE  Attempts!AttemptNext \/ UNCHANGED Attempts!attemptVars
    <3>1. Untried' = Untried
      BY <2>5 DEF Untried, Walk, Positions, IsFallback
    <3>2. pc' = "done" \/ pc' # "done"
      OBVIOUS
    <3> QED BY <2>5, <3>1, <3>2 DEF Attempts!AttemptNext, Attempts!End, Attempts!attemptVars
  <2>6. CASE BeginIdle \/ IdleStopped \/ IdlePolls \/ IdleTimeout \/ BeginPump
    BY <2>5, <2>6 DEF BeginIdle, IdleStopped, IdlePolls, IdleTimeout, BeginPump, Idling, walkVars
  <2>7. CASE PumpCut
    BY <2>5, <2>7 DEF PumpCut, Pumping
  <2>8. CASE BackoffOver \/ BackoffStopped
    BY <2>5, <2>8 DEF BackoffOver, BackoffStopped, walkVars
  <2>9. CASE Join \/ Leave \/ Stop
    BY <2>5, <2>9 DEF Join, Leave, Stop, Outside, walkVars
  <2>10. CASE UNCHANGED vars
    BY <2>5, <2>10 DEF vars, walkVars
  <2> QED BY <2>1, <2>2, <2>3, <2>4, <2>6, <2>7, <2>8, <2>9, <2>10 DEF Next
<1> QED BY <1>1, <1>2, SessionInvariance, PTL DEF Spec, ImplementsAttempts, Attempts!MadeSpec

=============================================================================
