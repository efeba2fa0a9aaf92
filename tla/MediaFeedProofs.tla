-------------------------- MODULE MediaFeedProofs --------------------------
(***************************************************************************)
(* Proofs about MediaFeed, for any number of viewers, chunks, attempts and *)
(* segments: what viewers are given, and the walk over HLS playlists.      *)
(***************************************************************************)
EXTENDS MediaFeed, SequenceTheorems, TLAPS

(***************************************************************************)
(* Sequences.                                                              *)
(***************************************************************************)

\* Reading an item moves it from the queue to what was read.
LEMMA ReadMoves ==
  ASSUME NEW S, NEW r \in Seq(S), NEW q \in Seq(S), q # <<>>
  PROVE  /\ Append(r, Head(q)) \in Seq(S)
         /\ Tail(q) \in Seq(S) /\ Len(Tail(q)) = Len(q) - 1
         /\ Append(r, Head(q)) \o Tail(q) = r \o q
<1> DEFINE a == Append(r, Head(q))
           t == Tail(q)
           x == a \o t
           y == r \o q
<1>1. /\ Head(q) \in S /\ t \in Seq(S) /\ Len(t) = Len(q) - 1
      /\ \A i \in 1..Len(t) : t[i] = q[i + 1]
      /\ Head(q) = q[1] /\ Len(q) \in Nat /\ Len(q) > 0
  BY HeadTailProperties, LenProperties, EmptySeq
<1>2. /\ a \in Seq(S) /\ Len(a) = Len(r) + 1
      /\ \A i \in 1..Len(r) : a[i] = r[i]
      /\ a[Len(r) + 1] = q[1]
  BY <1>1, AppendProperties
<1> HIDE DEF a, t
<1>3. /\ x \in Seq(S) /\ Len(x) = Len(a) + Len(t)
      /\ \A i \in 1..Len(a) + Len(t) : x[i] = IF i <= Len(a) THEN a[i] ELSE t[i - Len(a)]
  BY <1>1, <1>2, ConcatProperties
<1>4. /\ y \in Seq(S) /\ Len(y) = Len(r) + Len(q)
      /\ \A i \in 1..Len(r) + Len(q) : y[i] = IF i <= Len(r) THEN r[i] ELSE q[i - Len(r)]
  BY ConcatProperties
<1> HIDE DEF x, y
<1>5. Len(r) \in Nat
  BY LenProperties
<1>6. Len(x) = Len(y)
  BY <1>1, <1>2, <1>3, <1>4, <1>5
<1>7. ASSUME NEW i \in 1..Len(x)
      PROVE  x[i] = y[i]
  <2>1. CASE i <= Len(r)
    <3>1. i \in 1..Len(r) /\ i \in 1..Len(r) + Len(q) /\ i \in 1..Len(a) + Len(t) /\ i <= Len(a)
      BY <2>1, <1>1, <1>2, <1>3, <1>5
    <3>2. x[i] = a[i]
      BY <3>1, <1>3
    <3>3. y[i] = r[i]
      BY <2>1, <3>1, <1>4
    <3> QED
      BY <3>1, <3>2, <3>3, <1>2
  <2>2. CASE i = Len(r) + 1
    <3>0. i - Len(r) = 1 /\ i \in 1..Len(r) + Len(q) /\ ~(i <= Len(r))
      <4>1. Len(q) \in Nat /\ Len(q) > 0 /\ Len(r) \in Nat
        BY <1>1, <1>5
      <4> QED
        BY <2>2, <4>1
    <3>1. i - Len(r) = 1 /\ y[i] = q[i - Len(r)]
      BY <3>0, <1>4
    <3>2. i \in 1..Len(a) + Len(t) /\ i <= Len(a)
      BY <2>2, <1>1, <1>2, <1>5
    <3>3. x[i] = a[i]
      BY <3>2, <1>3
    <3>4. a[i] = q[1]
      BY <2>2, <1>2
    <3> QED
      BY <3>1, <3>3, <3>4
  <2>3. CASE i > Len(r) + 1
    <3>0. i \in Int /\ i <= Len(a) + Len(t) /\ Len(a) = Len(r) + 1 /\ Len(t) \in Nat
      BY <1>1, <1>2, <1>3, <1>5
    <3>1. PICK j \in 1..Len(t) : j = i - Len(a)
      <4>1. i - Len(a) \in 1..Len(t)
        BY <2>3, <3>0, <1>5
      <4> QED
        BY <4>1
    <3>2. /\ i - Len(r) = j + 1 /\ ~(i <= Len(r)) /\ ~(i <= Len(a))
          /\ i \in 1..Len(r) + Len(q) /\ i \in 1..Len(a) + Len(t)
      BY <2>3, <3>1, <1>1, <1>2, <1>3, <1>5
    <3>4. y[i] = q[i - Len(r)]
      BY <3>2, <1>4
    <3>5. y[i] = q[j + 1]
      BY <3>2, <3>4
    <3>3. x[i] = t[i - Len(a)]
      BY <3>2, <1>3
    <3> QED
      BY <3>1, <3>3, <3>5, <1>1
  <2>4. i \in Int
    OBVIOUS
  <2> QED
    BY <2>1, <2>2, <2>3, <2>4, <1>5
<1>8. x = y
  BY <1>3, <1>4, <1>6, <1>7, SeqEqual
<1> QED
  BY <1>1, <1>2, <1>8 DEF a, t, x, y

\* An item at the end of the queue is the last one given.
LEMMA QueueGrows ==
  ASSUME NEW S, NEW r \in Seq(S), NEW q \in Seq(S), NEW x \in S
  PROVE  /\ Append(q, x) \in Seq(S) /\ Len(Append(q, x)) = Len(q) + 1
         /\ r \o Append(q, x) = Append(r \o q, x)
<1> DEFINE a == Append(q, x)
           g == r \o q
           b == Append(g, x)
           y == r \o a
<1>1. /\ a \in Seq(S) /\ Len(a) = Len(q) + 1
      /\ \A i \in 1..Len(q) : a[i] = q[i]
      /\ a[Len(q) + 1] = x
  BY AppendProperties
<1>2. /\ g \in Seq(S) /\ Len(g) = Len(r) + Len(q)
      /\ \A i \in 1..Len(r) + Len(q) : g[i] = IF i <= Len(r) THEN r[i] ELSE q[i - Len(r)]
  BY ConcatProperties
<1> HIDE DEF a, g
<1>3. /\ b \in Seq(S) /\ Len(b) = Len(g) + 1
      /\ \A i \in 1..Len(g) : b[i] = g[i]
      /\ b[Len(g) + 1] = x
  BY <1>2, AppendProperties
<1>4. /\ y \in Seq(S) /\ Len(y) = Len(r) + Len(a)
      /\ \A i \in 1..Len(r) + Len(a) : y[i] = IF i <= Len(r) THEN r[i] ELSE a[i - Len(r)]
  BY <1>1, ConcatProperties
<1> HIDE DEF b, y
<1>5. Len(r) \in Nat /\ Len(q) \in Nat
  BY LenProperties
<1>6. ASSUME NEW i \in 1..Len(b)
      PROVE  y[i] = b[i]
  <2>1. CASE i <= Len(r)
    <3>1. /\ i \in 1..Len(r) + Len(q) /\ i \in 1..Len(r) + Len(a) /\ i \in 1..Len(g)
      BY <2>1, <1>1, <1>2, <1>3, <1>5
    <3>2. y[i] = r[i]
      BY <2>1, <3>1, <1>4
    <3>3. b[i] = g[i] /\ g[i] = r[i]
      BY <2>1, <3>1, <1>2, <1>3
    <3> QED
      BY <3>2, <3>3
  <2>2. CASE i > Len(r) /\ i <= Len(g)
    <3>1. PICK j \in 1..Len(q) : j = i - Len(r)
      <4>1. i \in Int /\ i > Len(r) /\ i <= Len(r) + Len(q)
        BY <2>2, <1>2
      <4>2. \A k, l, m \in Int : k > l /\ k <= l + m => k - l \in 1..m
        OBVIOUS
      <4>3. Len(r) \in Int /\ Len(q) \in Int
        BY <1>5
      <4>4. i - Len(r) \in 1..Len(q)
        BY <4>1, <4>2, <4>3, Zenon
      <4> QED
        BY <4>4, Zenon
    <3>2. /\ i \in 1..Len(r) + Len(q) /\ i \in 1..Len(r) + Len(a) /\ i \in 1..Len(g)
          /\ ~(i <= Len(r)) /\ i - Len(r) = j
      BY <2>2, <3>1, <1>1, <1>2, <1>5
    <3>3. b[i] = g[i] /\ g[i] = q[j]
      BY <3>2, <1>2, <1>3
    <3>4. y[i] = a[j]
      BY <3>2, <1>4
    <3> QED
      BY <3>1, <3>3, <3>4, <1>1
  <2>3. CASE i = Len(g) + 1
    <3>1. i - Len(r) = Len(q) + 1 /\ i \in 1..Len(r) + Len(a) /\ ~(i <= Len(r))
      BY <2>3, <1>1, <1>2, <1>5
    <3>2. y[i] = a[i - Len(r)]
      BY <3>1, <1>4
    <3> QED
      BY <2>3, <3>1, <3>2, <1>1, <1>3
  <2>4. i \in Int /\ i <= Len(g) + 1 /\ Len(g) \in Nat
    BY <1>2, <1>3, <1>5
  <2> QED
    BY <2>1, <2>2, <2>3, <2>4, <1>5
<1>7. y = b
  <2>1. Len(y) = Len(b)
    BY <1>1, <1>2, <1>3, <1>4, <1>5
  <2> QED
    BY <1>3, <1>4, <1>6, <2>1, SeqEqual
<1> QED
  BY <1>1, <1>7 DEF a, b, g, y

(***************************************************************************)
(* What a viewer was given, and one item more.                             *)
(***************************************************************************)
LEMMA Bounds ==
  /\ BufferSize \in Nat /\ BufferSize > 0 /\ MaxSeen \in Nat /\ MaxSeen > 0
  /\ Window \in Nat /\ Window > 0 /\ MaxChunks \in Nat /\ MaxAttempts \in Nat
  BY MediaFeedAssumption

\* The chunk after the last one continues the numbering.
LEMMA NumberedGrows ==
  ASSUME NEW g \in Seq(Items), NEW x \in Items, NEW n \in Nat,
         Numbered(g, n), x.n = n + 1
  PROVE  Numbered(Append(g, x), n + 1)
<1> DEFINE b == Append(g, x)
<1>1. /\ Len(b) = Len(g) + 1 /\ Len(g) \in Nat
      /\ \A i \in 1..Len(g) : b[i] = g[i]
      /\ b[Len(g) + 1] = x
  BY AppendProperties, LenProperties
<1> HIDE DEF b
<1>2. ASSUME NEW i \in 2..Len(b)
      PROVE  b[i].n > 0 /\ (b[i - 1].n > 0 => b[i].n = b[i - 1].n + 1)
  <2>1. i \in Int /\ i - 1 \in 1..Len(g) /\ b[i - 1] = g[i - 1]
    BY <1>1
  <2>2. CASE i <= Len(g)
    <3>1. i \in 2..Len(g) /\ b[i] = g[i]
      BY <2>2, <2>1, <1>1
    <3> QED
      BY <3>1, <2>1 DEF Numbered
  <2>3. CASE i = Len(g) + 1
    <3>1. b[i] = x /\ i - 1 = Len(g) /\ g # <<>>
      BY <2>1, <2>3, <1>1, EmptySeq
    <3>2. g[i - 1].n \in {0, n}
      BY <3>1 DEF Numbered
    <3> QED
      BY <3>1, <3>2, <2>1
  <2> QED
    BY <2>1, <2>2, <2>3, <1>1
<1>3. b[Len(b)].n \in {0, n + 1}
  BY <1>1
<1>4. Numbered(b, n + 1)
  BY <1>2, <1>3 DEF Numbered
<1> QED
  BY <1>4 DEF b

LEMMA AnnouncedGrows ==
  ASSUME NEW g \in Seq(Items), NEW x \in Items, Announced(g),
         x.known => \/ Carries(x, x.attempt)
                    \/ \E j \in DOMAIN g : Carries(g[j], x.attempt)
  PROVE  Announced(Append(g, x))
<1> DEFINE b == Append(g, x)
<1>1. /\ Len(b) = Len(g) + 1 /\ Len(g) \in Nat
      /\ DOMAIN g = 1..Len(g) /\ DOMAIN b = 1..Len(b)
      /\ \A i \in 1..Len(g) : b[i] = g[i]
      /\ b[Len(g) + 1] = x
  BY AppendProperties, LenProperties
<1> HIDE DEF b
<1>2. ASSUME NEW i \in DOMAIN b, b[i].n > 0, b[i].known
      PROVE  \E j \in 1..i : Carries(b[j], b[i].attempt)
  <2>1. i \in Int /\ i >= 1
    BY <1>1
  <2>2. CASE i <= Len(g)
    <3>1. i \in DOMAIN g /\ b[i] = g[i]
      BY <2>1, <2>2, <1>1
    <3>2. PICK j \in 1..i : Carries(g[j], g[i].attempt)
      BY <3>1, <1>2 DEF Announced
    <3>3. b[j] = g[j]
      BY <3>2, <2>1, <2>2, <1>1
    <3> QED
      BY <3>1, <3>2, <3>3
  <2>3. CASE i = Len(g) + 1
    <3>1. b[i] = x
      BY <2>3, <1>1
    <3>2. CASE Carries(x, x.attempt)
      <4>1. i \in 1..i
        BY <2>1
      <4> QED
        BY <3>1, <3>2, <4>1
    <3>3. CASE \E j \in DOMAIN g : Carries(g[j], x.attempt)
      <4>1. PICK j \in DOMAIN g : Carries(g[j], x.attempt)
        BY <3>3
      <4>2. j \in 1..i /\ b[j] = g[j]
        BY <4>1, <2>3, <1>1
      <4> QED
        BY <4>1, <4>2, <3>1
    <3> QED
      BY <3>1, <3>2, <3>3, <1>2
  <2> QED
    BY <2>1, <2>2, <2>3, <1>1
<1>3. Announced(b)
  BY <1>2 DEF Announced
<1> QED
  BY <1>3 DEF b


(***************************************************************************)
(* The feed.                                                               *)
(***************************************************************************)
LEMMA QueueFields ==
  ASSUME FeedInv, NEW v \in Viewers, viewers[v] # None
  PROVE  /\ viewers[v] \in Queues
         /\ viewers[v].late \in BOOLEAN /\ viewers[v].wait \in BOOLEAN
         /\ viewers[v].read \in Seq(Items) /\ viewers[v].queue \in Seq(Items)
         /\ Given(v) \in Seq(Items)
         /\ v \in Attached /\ GivenInv(v)
<1>1. viewers[v] \in Queues
  BY DEF FeedInv
<1>2. /\ viewers[v].late \in BOOLEAN /\ viewers[v].wait \in BOOLEAN
      /\ viewers[v].read \in Seq(Items) /\ viewers[v].queue \in Seq(Items)
  BY <1>1 DEF Queues
<1>3. Given(v) \in Seq(Items)
  BY <1>2, ConcatProperties DEF Given
<1>4. v \in Attached
  BY DEF Attached
<1> QED
  BY <1>1, <1>2, <1>3, <1>4 DEF FeedInv

\* The tables a viewer waits for are still on their way, or there are none.
TablesKept ==
  \/ tables' = 0
  \/ TablesOnTheWay'
  \/ UNCHANGED <<tables, attempt>> /\ (TablesOnTheWay => TablesOnTheWay')

\* A viewer to whom nothing is sent.
LEMMA GivenFrame ==
  ASSUME NEW v \in Viewers, GivenInv(v), Given(v)' = Given(v),
         viewers'[v].late = viewers[v].late, viewers'[v].wait = viewers[v].wait,
         Len(viewers'[v].queue) <= BufferSize,
         sent' = sent, TablesKept
  PROVE  GivenInv(v)'
<1>1. tables' # 0 /\ ~viewers'[v].wait =>
        TablesOnTheWay' \/ \E j \in DOMAIN Given(v)' : Carries((Given(v)')[j], attempt')
  BY DEF GivenInv, TablesKept
<1>2. Numbered(Given(v), sent) /\ Announced(Given(v))
  BY DEF GivenInv
<1>3. Numbered(Given(v)', sent') /\ Announced(Given(v)')
  BY <1>2
<1>4. /\ viewers'[v].wait => viewers'[v].late /\ Given(v)' = <<>>
      /\ viewers'[v].late /\ ~viewers'[v].wait =>
           /\ Given(v)' # <<>>
           /\ (Given(v)')[1].key /\ (Given(v)')[1].startup \in {0, (Given(v)')[1].attempt}
  BY DEF GivenInv
<1> QED
  BY <1>1, <1>3, <1>4 DEF GivenInv, Numbered, Announced, Carries

LEMMA FeedFrame ==
  ASSUME FeedInv, UNCHANGED <<viewers, sent>>, TablesKept
  PROVE  FeedInv'
<1>1. ASSUME NEW v \in Attached'
      PROVE  GivenInv(v)'
  <2>1. v \in Viewers /\ viewers[v] # None /\ GivenInv(v)
    BY <1>1 DEF Attached, FeedInv
  <2>2. Given(v)' = Given(v) /\ Len(viewers[v].queue) <= BufferSize
    BY <2>1 DEF Given, GivenInv
  <2> QED
    BY <2>1, <2>2, GivenFrame
<1> QED
  BY <1>1 DEF FeedInv


\* All viewers but one are left alone.
LEMMA OneViewer ==
  ASSUME FeedInv, NEW v \in Viewers, NEW q \in Queues \cup {None},
         viewers' = [viewers EXCEPT ![v] = q], sent' = sent, TablesKept,
         q # None => GivenInv(v)'
  PROVE  FeedInv'
<1>1. viewers' \in [Viewers -> Queues \cup {None}]
  BY DEF FeedInv
<1>2. ASSUME NEW u \in Attached'
      PROVE  GivenInv(u)'
  <2>1. u \in Viewers /\ viewers'[u] # None
    BY <1>2 DEF Attached
  <2>2. CASE u = v
    BY <2>1, <2>2 DEF FeedInv
  <2>3. CASE u # v
    <3>1. viewers'[u] = viewers[u] /\ viewers[u] # None
      BY <2>1, <2>3 DEF FeedInv
    <3>2. GivenInv(u)
      BY <2>1, <3>1 DEF FeedInv, Attached
    <3>3. Given(u)' = Given(u) /\ Len(viewers[u].queue) <= BufferSize
      BY <3>1, <3>2 DEF Given, GivenInv
    <3> QED
      BY <2>1, <3>1, <3>2, <3>3, GivenFrame
  <2> QED
    BY <2>2, <2>3
<1> QED
  BY <1>1, <1>2 DEF FeedInv

LEMMA ItemType ==
  ASSUME PumpInv, NEW n \in Nat, NEW m \in Nat, NEW has \in BOOLEAN, NEW key \in BOOLEAN
  PROVE  /\ Item(n, m, has, key) \in Items
         /\ Item(n, m, has, key).n = n /\ Item(n, m, has, key).startup = m
         /\ Item(n, m, has, key).attempt = attempt /\ Item(n, m, has, key).tables = has
         /\ Item(n, m, has, key).key = key /\ Item(n, m, has, key).known = (tables # 0)
<1>1. attempt \in Nat /\ (tables # 0) \in BOOLEAN
  BY Bounds DEF PumpInv
<1> QED
  BY <1>1 DEF Item, Items

LEMMA AddViewerFeed ==
  ASSUME MediaInv, NEW v \in Viewers, AddViewer(v)
  PROVE  FeedInv'
<1> DEFINE wait == kind = "ffmpeg" /\ everReady /\ seenRAI
           i == Item(0, tables, FALSE, FALSE)
           queue == IF ~wait /\ tables # 0 THEN <<i>> ELSE <<>>
           q == [late |-> wait, wait |-> wait, read |-> <<>>, queue |-> queue]
<1>1. FeedInv /\ PumpInv /\ UNCHANGED <<sent, tables, attempt, chunk>>
  BY DEF MediaInv, AddViewer, feed
<1>2. viewers' = [viewers EXCEPT ![v] = q] /\ wait \in BOOLEAN
  BY DEF AddViewer
<1>3. tables \in Nat /\ attempt \in Nat /\ tables \in {0, attempt} /\ sent \in Nat
  BY <1>1, Bounds DEF PumpInv
<1>4. i \in Items /\ i.n = 0 /\ i.startup = tables
  <2>1. /\ \A m \in Nat : Item(0, m, FALSE, FALSE) \in Items
        /\ \A m \in Nat : Item(0, m, FALSE, FALSE).n = 0 /\ Item(0, m, FALSE, FALSE).startup = m
    <3> SUFFICES ASSUME NEW m \in Nat
                 PROVE  /\ Item(0, m, FALSE, FALSE) \in Items
                        /\ Item(0, m, FALSE, FALSE).n = 0 /\ Item(0, m, FALSE, FALSE).startup = m
      OBVIOUS
    <3>1. attempt \in Nat /\ (tables # 0) \in BOOLEAN
      BY <1>3
    <3> QED
      BY <3>1 DEF Item, Items
  <2> QED
    BY <1>3, <2>1, Zenon
<1> HIDE DEF wait, i
<1>5. queue \in Seq(Items) /\ <<>> \in Seq(Items) /\ Len(queue) <= 1
  BY <1>4
<1>6. q \in Queues
  BY <1>2, <1>5 DEF Queues
<1>7. viewers'[v] = q
  BY <1>1, <1>2 DEF FeedInv
<1>8. Given(v)' = queue
  <2>1. Given(v)' = <<>> \o queue
    BY <1>7 DEF Given
  <2> QED
    BY <2>1, <1>5, ConcatEmptySeq
<1>9. TablesKept
  BY <1>1 DEF TablesKept, TablesOnTheWay
<1>10. GivenInv(v)'
  <2>1. viewers'[v].wait = wait /\ viewers'[v].late = wait /\ viewers'[v].queue = queue
    BY <1>7
  <2>2. CASE wait \/ tables = 0
    <3>1. Given(v)' = <<>> /\ Len(<<>>) = 0 /\ DOMAIN <<>> = {}
      BY <2>2, <1>8, EmptySeq
    <3>2. queue = <<>>
      BY <2>2
    <3>3. Numbered(Given(v)', sent') /\ Announced(Given(v)')
      BY <3>1 DEF Numbered, Announced
    <3>4. Len(queue) <= BufferSize
      BY <3>1, <3>2, Bounds
    <3>5. ~wait => tables' = 0
      BY <2>2, <1>1
    <3> HIDE DEF queue
    <3> QED
      BY <2>1, <3>1, <3>3, <3>4, <3>5, <1>1 DEF GivenInv, Numbered, Announced, Carries
  <2>3. CASE ~wait /\ tables # 0
    <3>1. queue = <<i>>
      BY <2>3
    <3> DEFINE g == <<i>>
    <3>2. Given(v)' = g /\ Len(g) = 1 /\ DOMAIN g = {1} /\ g[1] = i
      BY <3>1, <1>8
    <3> HIDE DEF g, queue
    <3>3. Numbered(g, sent) /\ Announced(g)
      BY <3>2, <1>4 DEF Numbered, Announced
    <3>4. Carries(g[1], attempt)
      BY <3>2, <1>3, <1>4, <2>3 DEF Carries
    <3>5. Len(queue) <= BufferSize
      BY <3>1, <3>2, Bounds DEF g
    <3>6. Numbered(Given(v)', sent') /\ Announced(Given(v)')
      BY <3>2, <3>3, <1>1
    <3>7. \E j \in DOMAIN Given(v)' : Carries((Given(v)')[j], attempt')
      BY <3>2, <3>4, <1>1
    <3> QED
      BY <2>1, <2>3, <3>5, <3>6, <3>7 DEF GivenInv, Numbered, Announced, Carries
  <2> QED
    BY <2>2, <2>3
<1> HIDE DEF q
<1> QED
  BY <1>1, <1>2, <1>6, <1>9, <1>10, OneViewer

LEMMA ReadItemFeed ==
  ASSUME MediaInv, NEW v \in Viewers, ReadItem(v)
  PROVE  FeedInv'
<1> DEFINE r == viewers[v].read
           s == viewers[v].queue
           q == [viewers[v] EXCEPT !.read = Append(@, Head(s)), !.queue = Tail(@)]
<1>1. FeedInv /\ UNCHANGED <<sent, tables, attempt, chunk>>
  BY DEF MediaInv, ReadItem, feed
<1>2. viewers' = [viewers EXCEPT ![v] = q] /\ viewers[v] # None /\ s # <<>>
  BY DEF ReadItem
<1>3. viewers[v] \in Queues /\ r \in Seq(Items) /\ s \in Seq(Items) /\ GivenInv(v)
  BY <1>1, <1>2, QueueFields
<1>4. /\ Append(r, Head(s)) \in Seq(Items)
      /\ Tail(s) \in Seq(Items) /\ Len(Tail(s)) = Len(s) - 1
      /\ Append(r, Head(s)) \o Tail(s) = r \o s
  BY <1>2, <1>3, ReadMoves
<1>5. /\ q \in Queues /\ q.late = viewers[v].late /\ q.wait = viewers[v].wait
      /\ q.read = Append(r, Head(s)) /\ q.queue = Tail(s)
  <2> DEFINE a == Append(r, Head(s))
             t == Tail(s)
  <2>1. a \in Seq(Items) /\ t \in Seq(Items) /\ q = [viewers[v] EXCEPT !.read = a, !.queue = t]
    BY <1>4
  <2> HIDE DEF a, t, q
  <2>2. /\ q \in Queues /\ q.late = viewers[v].late /\ q.wait = viewers[v].wait
        /\ q.read = a /\ q.queue = t
    BY <2>1, <1>3 DEF Queues
  <2> QED
    BY <2>2 DEF a, t
<1>6. viewers'[v] = q
  BY <1>1, <1>2 DEF FeedInv
<1>7. Given(v)' = Given(v)
  BY <1>4, <1>5, <1>6 DEF Given
<1>8. Len(viewers'[v].queue) <= BufferSize
  BY <1>3, <1>4, <1>5, <1>6, Bounds, LenProperties DEF GivenInv
<1>9. TablesKept
  BY <1>1 DEF TablesKept, TablesOnTheWay
<1>10. GivenInv(v)'
  BY <1>1, <1>3, <1>5, <1>6, <1>7, <1>8, <1>9, GivenFrame
<1> HIDE DEF q
<1> QED
  BY <1>1, <1>2, <1>5, <1>9, <1>10, OneViewer


LEMMA RemoveViewerFeed ==
  ASSUME MediaInv, NEW v \in Viewers, RemoveViewer(v)
  PROVE  FeedInv'
<1>1. FeedInv /\ UNCHANGED <<sent, tables, attempt, chunk>>
  BY DEF MediaInv, RemoveViewer
<1>2. viewers' = [viewers EXCEPT ![v] = None]
  BY DEF RemoveViewer
<1>3. TablesKept
  BY <1>1 DEF TablesKept, TablesOnTheWay
<1> QED
  BY <1>1, <1>2, <1>3, OneViewer

\* The viewer gets the chunk, or is dropped.
LEMMA BroadcastFeed ==
  ASSUME MediaInv, Broadcast
  PROVE  FeedInv'
<1>1. /\ FeedInv /\ PumpInv /\ UNCHANGED <<tables, attempt>> /\ sent' = sent + 1
      /\ chunk # None /\ ~chunk.out /\ viewers' = [v \in Viewers |-> Handed(v)]
      /\ chunk' = [chunk EXCEPT !.out = TRUE]
  BY DEF MediaInv, Broadcast
<1>2. /\ chunk \in Chunks /\ chunk.tables \in BOOLEAN /\ chunk.key \in BOOLEAN
      /\ tables \in Nat /\ attempt \in Nat /\ tables \in {0, attempt} /\ sent \in Nat
  BY <1>1, Bounds DEF PumpInv, Chunks
<1>3. chunk' \in Chunks /\ chunk'.out = TRUE
  BY <1>1, <1>2 DEF Chunks
<1>4. ASSUME NEW v \in Viewers, viewers[v] # None
      PROVE  /\ Handed(v) \in Queues \cup {None}
             /\ Handed(v) # None => GivenInv(v)'
  <2>1. /\ viewers[v] \in Queues /\ viewers[v].late \in BOOLEAN /\ viewers[v].wait \in BOOLEAN
        /\ viewers[v].read \in Seq(Items) /\ viewers[v].queue \in Seq(Items)
        /\ Given(v) \in Seq(Items) /\ GivenInv(v) /\ viewers'[v] = Handed(v)
    BY <1>1, <1>4, QueueFields
  <2>2. CASE Passes(v)
    <3>1. viewers'[v] = viewers[v] /\ viewers[v].wait /\ Handed(v) = viewers[v]
      BY <2>1, <2>2, <1>4 DEF Handed, Passes
    <3>2. Given(v)' = Given(v)
      BY <3>1 DEF Given
    <3>3. Given(v)' = <<>> /\ Len(<<>>) = 0 /\ DOMAIN <<>> = {}
      BY <3>1, <3>2, <2>1, EmptySeq DEF GivenInv
    <3>4. Numbered(Given(v)', sent') /\ Announced(Given(v)')
      BY <3>3 DEF Numbered, Announced
    <3>5. Len(viewers'[v].queue) <= BufferSize /\ viewers'[v].wait /\ viewers'[v].late
      BY <3>1, <2>1 DEF GivenInv
    <3>6. GivenInv(v)'
      BY <3>3, <3>4, <3>5 DEF GivenInv, Numbered, Announced, Carries
    <3> QED
      BY <3>1, <3>6, <2>1
  <2>3. CASE ~Passes(v) /\ Full(v)
    BY <2>3, <1>4 DEF Handed
  <2>4. CASE ~Passes(v) /\ ~Full(v)
    <3> DEFINE x == Output(v)
               g == Given(v)
               b == Append(g, x)
               q == [viewers[v] EXCEPT !.wait = FALSE, !.queue = Append(@, x)]
    <3>1. /\ x \in Items /\ x.n = sent + 1 /\ x.attempt = attempt /\ x.known = (tables # 0)
          /\ x.key = chunk.key
          /\ viewers[v].wait => x.startup = tables
          /\ ~viewers[v].wait => x.tables = chunk.tables
      <4>1. sent + 1 \in Nat /\ 0 \in Nat /\ FALSE \in BOOLEAN
        BY <1>2
      <4>2. CASE viewers[v].wait
        <5>1. x = Item(sent + 1, tables, FALSE, chunk.key)
          BY <4>2 DEF Output
        <5>2. (tables # 0) \in BOOLEAN
          OBVIOUS
        <5> HIDE DEF x
        <5> QED
          BY <5>1, <5>2, <4>1, <4>2, <1>2 DEF Item, Items
      <4>3. CASE ~viewers[v].wait
        <5>1. x = Item(sent + 1, 0, chunk.tables, chunk.key)
          BY <4>3 DEF Output
        <5>2. (tables # 0) \in BOOLEAN
          OBVIOUS
        <5> HIDE DEF x
        <5> QED
          BY <5>1, <5>2, <4>1, <4>3, <1>2 DEF Item, Items
      <4> QED
        BY <4>2, <4>3
    <3>2. Handed(v) = q
      BY <2>4, <1>4 DEF Handed
    <3> HIDE DEF x
    <3>3. /\ Append(viewers[v].queue, x) \in Seq(Items)
          /\ Len(Append(viewers[v].queue, x)) = Len(viewers[v].queue) + 1
          /\ viewers[v].read \o Append(viewers[v].queue, x) = b
      <4> DEFINE r == viewers[v].read
                 s == viewers[v].queue
      <4>1. r \in Seq(Items) /\ s \in Seq(Items) /\ x \in Items /\ g = r \o s
        BY <3>1, <2>1 DEF Given
      <4> HIDE DEF r, s, g
      <4>2. /\ Append(s, x) \in Seq(Items) /\ Len(Append(s, x)) = Len(s) + 1
            /\ r \o Append(s, x) = Append(g, x)
        BY <4>1, QueueGrows
      <4> QED
        BY <4>2 DEF r, s
    <3>4. /\ q \in Queues /\ q.wait = FALSE /\ q.late = viewers[v].late
          /\ q.read = viewers[v].read /\ q.queue = Append(viewers[v].queue, x)
      <4> DEFINE a == Append(viewers[v].queue, x)
      <4>1. q = [viewers[v] EXCEPT !.wait = FALSE, !.queue = a] /\ a \in Seq(Items)
        BY <3>3
      <4> HIDE DEF a, q
      <4>2. /\ q \in Queues /\ q.wait = FALSE /\ q.late = viewers[v].late
            /\ q.read = viewers[v].read /\ q.queue = a
        BY <4>1, <2>1 DEF Queues
      <4> QED
        BY <4>2 DEF a
    <3> HIDE DEF q
    <3>5. Given(v)' = b
      BY <2>1, <3>2, <3>3, <3>4 DEF Given
    <3>6. Len(q.queue) <= BufferSize
      <4>1. Len(viewers[v].queue) \in Nat /\ Len(viewers[v].queue) <= BufferSize
        BY <2>1, LenProperties DEF GivenInv
      <4> QED
        BY <4>1, <2>4, <3>3, <3>4, Bounds DEF Full
    <3>7. Numbered(g, sent) /\ Announced(g)
      BY <2>1 DEF GivenInv
    <3>8. /\ b \in Seq(Items) /\ Len(g) \in Nat /\ DOMAIN g = 1..Len(g)
          /\ DOMAIN b = 1..Len(g) + 1 /\ b # <<>>
          /\ \A i \in 1..Len(g) : b[i] = g[i]
          /\ b[Len(g) + 1] = x
      BY <3>1, <2>1, AppendProperties, LenProperties
    <3> HIDE DEF g, b
    <3>9. tables # 0 => Carries(x, attempt) \/ \E j \in DOMAIN g : Carries(g[j], attempt)
      <4>1. SUFFICES ASSUME tables # 0
                     PROVE  Carries(x, attempt) \/ \E j \in DOMAIN g : Carries(g[j], attempt)
        OBVIOUS
      <4>2. CASE viewers[v].wait
        BY <4>1, <4>2, <3>1, <1>2 DEF Carries
      <4>3. CASE ~viewers[v].wait /\ chunk.tables
        BY <4>3, <3>1 DEF Carries
      <4>4. CASE ~viewers[v].wait /\ ~chunk.tables
        BY <4>1, <4>4, <2>1 DEF GivenInv, TablesOnTheWay, g
      <4> QED
        BY <4>2, <4>3, <4>4
    <3>10. Numbered(b, sent + 1) /\ Announced(b)
      <4>1. x.known => Carries(x, x.attempt) \/ \E j \in DOMAIN g : Carries(g[j], x.attempt)
        BY <3>1, <3>9
      <4>2. g \in Seq(Items)
        BY <2>1 DEF g
      <4> QED
        BY <4>1, <4>2, <3>1, <3>7, <1>2, NumberedGrows, AnnouncedGrows DEF b
    <3>11. tables # 0 => \E j \in DOMAIN b : Carries(b[j], attempt)
      <4>1. CASE Carries(x, attempt)
        BY <4>1, <3>8
      <4>2. CASE \E j \in DOMAIN g : Carries(g[j], attempt)
        BY <4>2, <3>8
      <4> QED
        BY <4>1, <4>2, <3>9
    <3>12. q.late => b[1].key /\ b[1].startup \in {0, b[1].attempt}
      <4>1. CASE viewers[v].wait
        <5>1. g = <<>> /\ Len(g) = 0
          BY <4>1, <2>1, EmptySeq DEF GivenInv, g
        <5>2. b[1] = x
          BY <5>1, <3>8
        <5> QED
          BY <5>2, <3>1, <4>1, <1>2, <2>4 DEF Passes
      <4>2. CASE ~viewers[v].wait
        <5>1. q.late => g # <<>> /\ g[1].key /\ g[1].startup \in {0, g[1].attempt}
          BY <4>2, <3>4, <2>1 DEF GivenInv, g
        <5>2. g # <<>> => b[1] = g[1]
          <6>1. g # <<>> => Len(g) # 0
            BY <2>1, EmptySeq DEF g
          <6> QED
            BY <6>1, <3>8
        <5> QED
          BY <5>1, <5>2
      <4> QED
        BY <4>1, <4>2
    <3>13. viewers'[v] = q
      BY <2>1, <3>2
    <3>14. GivenInv(v)'
      <4>1. Numbered(Given(v)', sent') /\ Announced(Given(v)')
        BY <3>5, <3>10, <1>1
      <4>2. tables' # 0 => \E j \in DOMAIN Given(v)' : Carries((Given(v)')[j], attempt')
        BY <3>5, <3>11, <1>1
      <4>3. /\ viewers'[v].wait = FALSE
            /\ Len(viewers'[v].queue) <= BufferSize
            /\ viewers'[v].late => /\ Given(v)' # <<>> /\ (Given(v)')[1].key
                                   /\ (Given(v)')[1].startup \in {0, (Given(v)')[1].attempt}
        BY <3>4, <3>5, <3>6, <3>8, <3>12, <3>13
      <4> QED
        BY <4>1, <4>2, <4>3 DEF GivenInv, Numbered, Announced, Carries
    <3> QED
      BY <3>2, <3>4, <3>14
  <2> QED
    BY <2>2, <2>3, <2>4
<1>5. ASSUME NEW v \in Viewers, viewers[v] = None
      PROVE  Handed(v) = None
  BY <1>5 DEF Handed
<1>6. viewers' \in [Viewers -> Queues \cup {None}]
  BY <1>1, <1>4, <1>5
<1>7. ASSUME NEW v \in Attached'
      PROVE  GivenInv(v)'
  <2>1. v \in Viewers /\ Handed(v) # None
    BY <1>1, <1>7 DEF Attached
  <2>2. viewers[v] # None
    BY <2>1, <1>5
  <2> QED
    BY <2>1, <2>2, <1>4
<1> QED
  BY <1>6, <1>7 DEF FeedInv


(***************************************************************************)
(* The upstream's window.                                                  *)
(***************************************************************************)
LEMMA ProduceServer ==
  ASSUME ServerInv, Produce
  PROVE  ServerInv'
<1> DEFINE list == server.list
           x == [k |-> server.made + 1, seq |-> server.seq]
           all == Append(list, x)
           new == IF Len(all) > Window THEN Tail(all) ELSE all
<1>1. /\ server \in Servers /\ list \in Seq(Segments) /\ server.made \in Nat /\ server.seq \in Nat
      /\ Len(list) <= Window /\ Len(list) <= server.made
      /\ \A j \in DOMAIN list : /\ list[j].k = server.made - Len(list) + j
                                /\ list[j].seq + 1 = server.seq - Len(list) + j
  BY DEF ServerInv, Servers
<1>2. server' = [server EXCEPT !.made = @ + 1, !.seq = @ + 1, !.list = new]
  BY DEF Produce
<1>3. x \in Segments /\ x.k = server.made + 1 /\ x.seq = server.seq
  BY <1>1 DEF Segments
<1> HIDE DEF x
<1>4. /\ all \in Seq(Segments) /\ Len(all) = Len(list) + 1 /\ Len(list) \in Nat
      /\ DOMAIN list = 1..Len(list)
      /\ \A j \in 1..Len(list) : all[j] = list[j]
      /\ all[Len(list) + 1] = x
  BY <1>1, <1>3, AppendProperties, LenProperties
<1> HIDE DEF list, all
<1>5. ASSUME NEW j \in 1..Len(all)
      PROVE  /\ all[j].k = server.made - Len(list) + j
             /\ all[j].seq + 1 = server.seq - Len(list) + j
  <2>1. CASE j <= Len(list)
    <3>1. j \in 1..Len(list) /\ all[j] = list[j]
      BY <2>1, <1>4
    <3> QED
      BY <3>1, <1>1, <1>4
  <2>2. CASE j = Len(list) + 1
    BY <2>2, <1>1, <1>3, <1>4
  <2> QED
    BY <2>1, <2>2, <1>4
<1>6. /\ new \in Seq(Segments) /\ Len(new) <= Window /\ Len(new) <= server.made + 1
      /\ DOMAIN new = 1..Len(new)
      /\ \A j \in 1..Len(new) : /\ new[j].k = (server.made + 1) - Len(new) + j
                                /\ new[j].seq + 1 = (server.seq + 1) - Len(new) + j
  <2>1. CASE Len(all) > Window
    <3>1. new = Tail(all) /\ all # <<>>
      BY <2>1, <1>4, EmptySeq, Bounds
    <3> HIDE DEF new
    <3>2. /\ new \in Seq(Segments) /\ Len(new) = Len(list) /\ DOMAIN new = 1..Len(new)
          /\ \A j \in 1..Len(new) : new[j] = all[j + 1]
      BY <3>1, <1>4, HeadTailProperties, LenProperties
    <3>3. ASSUME NEW j \in 1..Len(new)
          PROVE  /\ new[j].k = (server.made + 1) - Len(new) + j
                 /\ new[j].seq + 1 = (server.seq + 1) - Len(new) + j
      <4>1. j + 1 \in 1..Len(all) /\ new[j] = all[j + 1]
        BY <3>2, <1>4
      <4>2. /\ all[j + 1].k = server.made - Len(list) + (j + 1)
            /\ all[j + 1].seq + 1 = server.seq - Len(list) + (j + 1)
        BY <4>1, <1>5
      <4>3. /\ j \in Int /\ Len(list) \in Nat /\ Len(new) = Len(list)
            /\ server.made \in Nat /\ server.seq \in Nat /\ new[j] = all[j + 1]
        BY <3>2, <4>1, <1>1, <1>4
      <4>4. new[j].k = server.made - Len(list) + (j + 1)
        BY <4>2, <4>3
      <4>5. new[j].seq + 1 = server.seq - Len(list) + (j + 1)
        BY <4>2, <4>3
      <4>6. /\ server.made - Len(list) + (j + 1) = (server.made + 1) - Len(list) + j
            /\ server.seq - Len(list) + (j + 1) = (server.seq + 1) - Len(list) + j
        <5>1. \A m, l, i \in Int : m - l + (i + 1) = (m + 1) - l + i
          OBVIOUS
        <5>2. Len(list) \in Int /\ server.made \in Int /\ server.seq \in Int /\ j \in Int
          BY <4>3
        <5> QED
          BY <5>1, <5>2, Zenon
      <4>7. /\ new[j].k = (server.made + 1) - Len(list) + j
            /\ new[j].seq + 1 = (server.seq + 1) - Len(list) + j
        BY <4>4, <4>5, <4>6, Zenon
      <4>8. Len(new) = Len(list)
        BY <4>3
      <4> QED
        BY <4>7, <4>8, Zenon
    <3>4. Len(new) <= Window /\ Len(new) <= server.made + 1
      <4>1. Len(new) = Len(list) /\ Len(list) <= Window /\ Len(list) <= server.made /\ server.made \in Nat
        BY <3>2, <1>1
      <4> HIDE DEF list
      <4> QED
        BY <4>1, <1>4
    <3> QED
      BY <3>2, <3>3, <3>4, Zenon
  <2>2. CASE ~(Len(all) > Window)
    <3>1. new = all
      BY <2>2
    <3> HIDE DEF new
    <3>2. DOMAIN all = 1..Len(all) /\ Len(all) <= Window
      BY <2>2, <1>4, LenProperties, Bounds
    <3>3. ASSUME NEW j \in 1..Len(all)
          PROVE  /\ all[j].k = (server.made + 1) - Len(all) + j
                 /\ all[j].seq + 1 = (server.seq + 1) - Len(all) + j
      <4>1. /\ all[j].k = server.made - Len(list) + j
            /\ all[j].seq + 1 = server.seq - Len(list) + j
        BY <1>5
      <4>2. /\ Len(all) = Len(list) + 1 /\ Len(list) \in Int /\ j \in Int
            /\ server.made \in Int /\ server.seq \in Int
        BY <1>1, <1>4
      <4>3. \A m, l, i \in Int : m - l + i = (m + 1) - (l + 1) + i
        OBVIOUS
      <4>4. /\ server.made - Len(list) + j = (server.made + 1) - (Len(list) + 1) + j
            /\ server.seq - Len(list) + j = (server.seq + 1) - (Len(list) + 1) + j
        BY <4>2, <4>3, Zenon
      <4> QED
        BY <4>1, <4>2, <4>4, Zenon
    <3>4. Len(all) <= server.made + 1
      BY <1>1, <1>4
    <3> QED
      BY <3>1, <3>2, <3>3, <3>4, <1>4, Zenon
  <2> QED
    BY <2>1, <2>2
<1> HIDE DEF new
<1>7. /\ server' \in Servers /\ server'.list = new
      /\ server'.made = server.made + 1 /\ server'.seq = server.seq + 1
  <2>1. server.made + 1 \in Nat /\ server.seq + 1 \in Nat /\ new \in Seq(Segments)
    BY <1>1, <1>6
  <2> QED
    BY <2>1, <1>1, <1>2 DEF Servers
<1>8. /\ Len(server'.list) <= Window /\ Len(server'.list) <= server'.made
      /\ \A j \in DOMAIN server'.list :
           /\ server'.list[j].k = server'.made - Len(server'.list) + j
           /\ server'.list[j].seq + 1 = server'.seq - Len(server'.list) + j
  <2>1. /\ server'.list = new /\ server'.made = server.made + 1
        /\ server'.seq = server.seq + 1
    BY <1>7
  <2>2. ASSUME NEW j \in DOMAIN server'.list
        PROVE  /\ server'.list[j].k = server'.made - Len(server'.list) + j
               /\ server'.list[j].seq + 1 = server'.seq - Len(server'.list) + j
    BY <2>1, <1>6
  <2>3. Len(server'.list) <= Window /\ Len(server'.list) <= server'.made
    BY <2>1, <1>6
  <2> QED
    BY <2>2, <2>3
<1> QED
  BY <1>7, <1>8 DEF ServerInv

LEMMA OtherServer ==
  ASSUME ServerInv, PackagerRestarts \/ BroadcastEnds
  PROVE  ServerInv'
<1>1. CASE PackagerRestarts
  <2>1. server' = [server EXCEPT !.reset = TRUE, !.seq = 0, !.list = <<>>]
    BY <1>1 DEF PackagerRestarts
  <2>2. <<>> \in Seq(Segments) /\ Len(<<>>) = 0 /\ DOMAIN <<>> = {}
    BY EmptySeq
  <2>3. server' \in Servers /\ server'.list = <<>> /\ server'.made \in Nat
    BY <2>1, <2>2 DEF ServerInv, Servers
  <2> QED
    BY <2>2, <2>3, Bounds DEF ServerInv
<1>2. CASE BroadcastEnds
  <2>1. server' = [server EXCEPT !.ended = TRUE]
    BY <1>2 DEF BroadcastEnds
  <2>2. /\ server' \in Servers /\ server'.list = server.list /\ server'.made = server.made
        /\ server'.seq = server.seq
    BY <2>1 DEF ServerInv, Servers
  <2> QED
    BY <2>2 DEF ServerInv
<1> QED
  BY <1>1, <1>2


(***************************************************************************)
(* The walk.                                                               *)
(***************************************************************************)
LEMMA SeenAddLimit ==
  ASSUME NEW seen \in Seq(Nat), NEW k \in Nat, Len(seen) <= MaxSeen
  PROVE  SeenAdd(seen, k) \in Seq(Nat) /\ Len(SeenAdd(seen, k)) <= MaxSeen
<1>1. CASE k \in Range(seen)
  BY <1>1 DEF SeenAdd
<1>2. CASE k \notin Range(seen) /\ Len(seen) = MaxSeen
  <2>1. seen # <<>>
    BY <1>2, EmptySeq, Bounds
  <2>2. Tail(seen) \in Seq(Nat) /\ Len(Tail(seen)) = Len(seen) - 1
    BY <2>1, HeadTailProperties
  <2>3. Append(Tail(seen), k) \in Seq(Nat) /\ Len(Append(Tail(seen), k)) = Len(Tail(seen)) + 1
    BY <2>2, AppendProperties
  <2> QED
    BY <1>2, <2>2, <2>3, Bounds DEF SeenAdd
<1>3. CASE k \notin Range(seen) /\ Len(seen) # MaxSeen
  <2>1. Append(seen, k) \in Seq(Nat) /\ Len(Append(seen, k)) = Len(seen) + 1 /\ Len(seen) \in Nat
    BY AppendProperties, LenProperties
  <2> QED
    BY <1>3, <2>1, Bounds DEF SeenAdd
<1> QED
  BY <1>1, <1>2, <1>3

LEMMA WalkFields ==
  ASSUME WalkInv, hls # None
  PROVE  /\ hls \in Walks /\ hls.seen \in Seq(Nat) /\ hls.lastSeq \in Int
         /\ hls.started \in BOOLEAN /\ hls.segments \in Seq(Segments) /\ hls.ended \in BOOLEAN
         /\ hls.i \in Nat \ {0} /\ hls.skip \in Nat /\ hls.gotMedia \in BOOLEAN
         /\ hls.first \in Nat /\ hls.fetched \in Seq(Nat) /\ hls.reset \in BOOLEAN
         /\ Len(hls.seen) <= MaxSeen /\ Len(hls.segments) \in Nat
         /\ hls.i <= Len(hls.segments) + 1 /\ hls.skip <= Len(hls.segments)
<1>1. hls \in Walks
  BY DEF WalkInv
<1>2. hls.segments \in Seq(Segments)
  BY <1>1 DEF Walks
<1>3. Len(hls.segments) \in Nat
  BY <1>2, LenProperties
<1> QED
  BY <1>1, <1>3 DEF Walks, WalkInv

\* The segment the walk is at.
LEMMA SegmentFields ==
  ASSUME WalkInv, hls # None, hls.i <= Len(hls.segments)
  PROVE  /\ hls.i \in DOMAIN hls.segments /\ hls.i \in 1..Len(hls.segments)
         /\ Segment \in Segments /\ Segment.k \in Nat /\ Segment.seq \in Nat
<1>1. /\ hls.segments \in Seq(Segments) /\ hls.i \in Nat \ {0}
      /\ Len(hls.segments) \in Nat
  BY WalkFields
<1>2. hls.i \in 1..Len(hls.segments) /\ DOMAIN hls.segments = 1..Len(hls.segments)
  BY <1>1, LenProperties
<1>3. hls.segments[hls.i] \in Segments
  BY <1>1, <1>2, ElementOfSeq
<1> QED
  BY <1>2, <1>3 DEF Segment, Segments

\* The walk is one segment further.
LEMMA StepWalk ==
  ASSUME WalkInv, hls # None, hls.i <= Len(hls.segments), NEW n \in Int,
         hls' = [hls EXCEPT !.i = @ + 1, !.seen = SeenAdd(@, Segment.k), !.lastSeq = n],
         pc' = "walk"
  PROVE  /\ WalkInv' /\ hls' # None /\ hls'.i = hls.i + 1
         /\ hls'.seen = SeenAdd(hls.seen, Segment.k) /\ hls'.lastSeq = n
         /\ hls'.started = hls.started /\ hls'.segments = hls.segments
         /\ hls'.skip = hls.skip /\ hls'.first = hls.first /\ hls'.fetched = hls.fetched
         /\ hls'.reset = hls.reset
<1> DEFINE seen == SeenAdd(hls.seen, Segment.k)
<1>1. hls \in Walks /\ hls.i + 1 \in Nat \ {0} /\ hls.i + 1 <= Len(hls.segments) + 1
  BY WalkFields
<1>2. seen \in Seq(Nat) /\ Len(seen) <= MaxSeen
  BY WalkFields, SegmentFields, SeenAddLimit
<1>3. hls' = [hls EXCEPT !.i = hls.i + 1, !.seen = seen, !.lastSeq = n]
  BY <1>1 DEF Walks
<1> HIDE DEF seen
<1>4. /\ hls' \in Walks /\ hls'.i = hls.i + 1 /\ hls'.seen = seen /\ hls'.lastSeq = n
      /\ hls'.started = hls.started /\ hls'.segments = hls.segments
      /\ hls'.skip = hls.skip /\ hls'.first = hls.first /\ hls'.fetched = hls.fetched
      /\ hls'.reset = hls.reset
  BY <1>1, <1>2, <1>3 DEF Walks
<1>5. hls' # None
  BY <1>4, NoneAssumption
<1>6. WalkInv'
  BY <1>1, <1>2, <1>4, <1>5, WalkFields DEF WalkInv
<1> QED
  BY <1>4, <1>5, <1>6 DEF seen

LEMMA MarkSegmentWalk ==
  ASSUME WalkInv, MarkSegment
  PROVE  /\ hls # None /\ hls.i <= Len(hls.segments) /\ MaxOf(hls.lastSeq, Segment.seq) \in Int
         /\ hls' = [hls EXCEPT !.i = @ + 1, !.seen = SeenAdd(@, Segment.k),
                               !.lastSeq = MaxOf(hls.lastSeq, Segment.seq)]
         /\ pc' = "walk" /\ WalkInv'
<1>1. /\ pc = "walk" /\ hls.i <= hls.skip /\ pc' = pc /\ hls # None
      /\ hls' = [hls EXCEPT !.i = @ + 1, !.seen = SeenAdd(@, Segment.k),
                            !.lastSeq = MaxOf(@, Segment.seq)]
  BY DEF MarkSegment, Marking, WalkInv
<1>2. hls.i <= Len(hls.segments) /\ hls.lastSeq \in Int
  BY <1>1, WalkFields
<1>3. MaxOf(hls.lastSeq, Segment.seq) \in Int
  BY <1>1, <1>2, SegmentFields DEF MaxOf
<1>4. hls' = [hls EXCEPT !.i = @ + 1, !.seen = SeenAdd(@, Segment.k),
                         !.lastSeq = MaxOf(hls.lastSeq, Segment.seq)]
  BY <1>1
<1> QED
  BY <1>1, <1>2, <1>3, <1>4, StepWalk

LEMMA SegmentDoneWalk ==
  ASSUME WalkInv, SegmentDone
  PROVE  /\ hls # None /\ hls.i <= Len(hls.segments) /\ MaxOf(hls.lastSeq, Segment.seq) \in Int
         /\ hls' = [hls EXCEPT !.i = @ + 1, !.seen = SeenAdd(@, Segment.k),
                               !.lastSeq = MaxOf(hls.lastSeq, Segment.seq)]
         /\ pc' = "walk" /\ WalkInv'
<1>1. /\ pc = "segment" /\ pc' = "walk" /\ hls # None /\ hls.i <= Len(hls.segments)
      /\ hls' = [hls EXCEPT !.i = @ + 1, !.seen = SeenAdd(@, Segment.k),
                            !.lastSeq = MaxOf(@, Segment.seq)]
  BY DEF SegmentDone, WalkInv
<1>2. hls.lastSeq \in Int
  BY <1>1, WalkFields
<1>3. MaxOf(hls.lastSeq, Segment.seq) \in Int
  BY <1>1, <1>2, SegmentFields DEF MaxOf
<1>4. hls' = [hls EXCEPT !.i = @ + 1, !.seen = SeenAdd(@, Segment.k),
                         !.lastSeq = MaxOf(hls.lastSeq, Segment.seq)]
  BY <1>1
<1> QED
  BY <1>1, <1>2, <1>3, <1>4, StepWalk

LEMMA SkipSegmentWalk ==
  ASSUME WalkInv, SkipSegment
  PROVE  /\ hls # None /\ hls.i <= Len(hls.segments) /\ hls.lastSeq \in Int
         /\ hls' = [hls EXCEPT !.i = @ + 1, !.seen = SeenAdd(@, Segment.k),
                               !.lastSeq = hls.lastSeq]
         /\ pc' = "walk" /\ WalkInv'
<1>1. /\ pc = "walk" /\ hls.i <= Len(hls.segments) /\ pc' = pc /\ hls # None
      /\ hls' = [hls EXCEPT !.i = @ + 1, !.seen = SeenAdd(@, Segment.k)]
  BY DEF SkipSegment, Walking, WalkInv
<1>2. hls.lastSeq \in Int /\ hls \in Walks
  BY <1>1, WalkFields
<1>4. hls' = [hls EXCEPT !.i = @ + 1, !.seen = SeenAdd(@, Segment.k), !.lastSeq = hls.lastSeq]
  BY <1>1, <1>2 DEF Walks
<1> QED
  BY <1>1, <1>2, <1>4, StepWalk


LEMMA FetchSegmentWalk ==
  ASSUME WalkInv, FetchSegment
  PROVE  /\ hls # None /\ hls.i <= Len(hls.segments) /\ WalkInv' /\ hls' # None
         /\ hls'.fetched = Append(hls.fetched, Segment.k)
         /\ hls'.seen = hls.seen /\ hls'.lastSeq = hls.lastSeq /\ hls'.started = hls.started
         /\ hls'.segments = hls.segments /\ hls'.i = hls.i /\ hls'.skip = hls.skip
         /\ hls'.first = hls.first /\ hls'.reset = hls.reset
<1> DEFINE fetched == Append(hls.fetched, Segment.k)
<1>1. /\ pc = "walk" /\ hls.i <= Len(hls.segments) /\ pc' = "segment" /\ hls # None
      /\ hls' = [hls EXCEPT !.gotMedia = FALSE, !.fetched = Append(@, Segment.k)]
  BY DEF FetchSegment, Walking, WalkInv
<1>2. hls \in Walks /\ fetched \in Seq(Nat)
  BY <1>1, WalkFields, SegmentFields, AppendProperties
<1>3. hls' = [hls EXCEPT !.gotMedia = FALSE, !.fetched = fetched]
  BY <1>1
<1> HIDE DEF fetched
<1>4. /\ hls' \in Walks /\ hls'.fetched = fetched
      /\ hls'.seen = hls.seen /\ hls'.lastSeq = hls.lastSeq /\ hls'.started = hls.started
      /\ hls'.segments = hls.segments /\ hls'.i = hls.i /\ hls'.skip = hls.skip
      /\ hls'.first = hls.first /\ hls'.reset = hls.reset
  BY <1>2, <1>3 DEF Walks
<1>5. hls' # None
  BY <1>4, NoneAssumption
<1>6. WalkInv'
  BY <1>1, <1>4, <1>5 DEF WalkInv
<1> QED
  BY <1>1, <1>4, <1>5, <1>6 DEF fetched

LEMMA LoadPlaylistWalk ==
  ASSUME WalkInv, ServerInv, LoadPlaylist
  PROVE  /\ hls # None /\ pc = "playlist" /\ pc' = "walk" /\ WalkInv' /\ hls' # None
         /\ server.list # <<>> /\ server.list \in Seq(Segments)
         /\ hls'.started = TRUE /\ hls'.segments = server.list /\ hls'.i = 1
         /\ hls'.skip = StartIdx(server.list, server.ended)
         /\ hls'.first = IF hls.started THEN hls.first
                         ELSE server.list[IF server.ended THEN 1 ELSE Len(server.list)].k
         /\ hls'.seen = hls.seen /\ hls'.lastSeq = hls.lastSeq /\ hls'.fetched = hls.fetched
         /\ hls'.reset = hls.reset
<1> DEFINE list == server.list
           ended == server.ended
           skip == StartIdx(list, ended)
           first == IF hls.started THEN hls.first ELSE list[IF ended THEN 1 ELSE Len(list)].k
<1>1. /\ pc = "playlist" /\ pc' = "walk" /\ hls # None /\ list # <<>>
      /\ hls' = [hls EXCEPT !.started = TRUE, !.segments = list, !.ended = ended, !.i = 1,
                            !.skip = skip, !.first = first]
  <2>1. pc = "playlist" /\ pc' = "walk" /\ hls # None /\ list # <<>>
    BY DEF LoadPlaylist, WalkInv
  <2>2. hls' = [hls EXCEPT !.started = TRUE, !.segments = server.list, !.ended = server.ended,
               !.i = 1, !.skip = StartIdx(server.list, server.ended),
               !.first = IF hls.started THEN @
                         ELSE server.list[IF server.ended THEN 1 ELSE Len(server.list)].k]
    BY DEF LoadPlaylist
  <2>3. hls \in Walks
    BY <2>1, WalkFields
  <2> QED
    BY <2>1, <2>2, <2>3 DEF Walks
<1>2. list \in Seq(Segments) /\ ended \in BOOLEAN /\ Len(list) \in Nat /\ Len(list) > 0
  BY <1>1, LenProperties, EmptySeq DEF ServerInv, Servers
<1>3. skip \in Nat /\ skip <= Len(list)
  BY <1>2 DEF StartIdx
<1>4. first \in Nat
  <2>1. list[1] \in Segments /\ list[Len(list)] \in Segments
    BY <1>2, ElementOfSeq
  <2> QED
    BY <2>1, <1>1, WalkFields DEF Segments
<1> HIDE DEF list, ended, skip, first
<1>5. /\ hls' \in Walks /\ hls'.started = TRUE /\ hls'.segments = list /\ hls'.i = 1
      /\ hls'.skip = skip /\ hls'.first = first
      /\ hls'.seen = hls.seen /\ hls'.lastSeq = hls.lastSeq /\ hls'.fetched = hls.fetched
      /\ hls'.reset = hls.reset
  <2> DEFINE w == [hls EXCEPT !.started = TRUE, !.segments = list, !.ended = ended, !.i = 1,
                              !.skip = skip, !.first = first]
  <2>1. hls \in Walks /\ hls' = w
    BY <1>1, WalkFields
  <2>2. list \in Seq(Segments) /\ ended \in BOOLEAN /\ skip \in Nat /\ first \in Nat
    BY <1>2, <1>3, <1>4
  <2>3. w \in Walks
    <3> DEFINE u == [hls EXCEPT !.started = TRUE, !.ended = ended]
    <3>1. u \in Walks
      BY <2>1, <2>2 DEF Walks
    <3> DEFINE t == [u EXCEPT !.segments = list, !.i = 1]
    <3>2. w = [t EXCEPT !.skip = skip, !.first = first]
      BY <2>1 DEF Walks
    <3> HIDE DEF u
    <3>3. t \in Walks
      <4>1. 1 \in Nat \ {0}
        OBVIOUS
      <4> QED
        BY <3>1, <2>2, <4>1, Zenon DEF Walks
    <3> HIDE DEF t, w
    <3> QED
      BY <3>2, <3>3, <2>2 DEF Walks
  <2>4. /\ w.started = TRUE /\ w.segments = list /\ w.i = 1 /\ w.skip = skip /\ w.first = first
        /\ w.seen = hls.seen /\ w.lastSeq = hls.lastSeq /\ w.fetched = hls.fetched
        /\ w.reset = hls.reset
    BY <2>1 DEF Walks
  <2> HIDE DEF w
  <2> QED
    BY <2>1, <2>3, <2>4
<1>6. hls' # None
  BY <1>5, NoneAssumption
<1>7. WalkInv'
  BY <1>1, <1>2, <1>3, <1>5, <1>6, WalkFields DEF WalkInv
<1> QED
  BY <1>1, <1>2, <1>5, <1>6, <1>7 DEF list, ended, skip, first

LEMMA StartAttemptWalk ==
  ASSUME WalkInv, ServerInv, StartAttempt
  PROVE  WalkInv'
<1>1. CASE kind = "hls"
  <2>1. pc' = "playlist" /\ hls' = NewPlaylistWalk
    BY <1>1 DEF StartAttempt
  <2>2. /\ <<>> \in Seq(Nat) /\ <<>> \in Seq(Segments) /\ Len(<<>>) = 0
        /\ server.reset \in BOOLEAN
    BY EmptySeq DEF ServerInv, Servers
  <2>3. NewPlaylistWalk \in Walks
    BY <2>2 DEF NewPlaylistWalk, Walks
  <2>4. /\ NewPlaylistWalk.seen = <<>> /\ NewPlaylistWalk.i = 1 /\ NewPlaylistWalk.skip = 0
        /\ NewPlaylistWalk.segments = <<>>
    BY DEF NewPlaylistWalk
  <2>5. hls' # None
    BY <2>1, <2>3, NoneAssumption
  <2> QED
    BY <2>1, <2>2, <2>3, <2>4, <2>5, Bounds DEF WalkInv
<1>2. CASE kind # "hls"
  BY <1>2 DEF StartAttempt, WalkInv
<1> QED
  BY <1>1, <1>2

LEMMA MarkReadyWalk ==
  ASSUME WalkInv, PumpInv, MarkReady
  PROVE  /\ WalkInv' /\ (hls = None <=> hls' = None)
         /\ hls # None =>
              /\ hls'.seen = hls.seen /\ hls'.lastSeq = hls.lastSeq /\ hls'.started = hls.started
              /\ hls'.segments = hls.segments /\ hls'.i = hls.i /\ hls'.skip = hls.skip
              /\ hls'.first = hls.first /\ hls'.reset = hls.reset /\ hls'.fetched = hls.fetched
<1>1. CASE pc = "segment"
  <2>1. hls # None /\ hls \in Walks /\ hls' = [hls EXCEPT !.gotMedia = TRUE] /\ pc' = pc
    BY <1>1 DEF WalkInv, MarkReady
  <2>2. /\ hls' \in Walks
        /\ hls'.seen = hls.seen /\ hls'.lastSeq = hls.lastSeq /\ hls'.started = hls.started
        /\ hls'.segments = hls.segments /\ hls'.i = hls.i /\ hls'.skip = hls.skip
        /\ hls'.first = hls.first /\ hls'.reset = hls.reset /\ hls'.fetched = hls.fetched
    BY <2>1 DEF Walks
  <2>3. hls' # None
    BY <2>2, NoneAssumption
  <2> QED
    BY <1>1, <2>1, <2>2, <2>3 DEF WalkInv
<1>2. CASE pc # "segment"
  BY <1>2 DEF MarkReady, WalkInv
<1> QED
  BY <1>1, <1>2


(***************************************************************************)
(* MediaInv is inductive.                                                  *)
(***************************************************************************)
LEMMA MediaInit == Init => MediaInv
<1> SUFFICES ASSUME Init PROVE MediaInv
  OBVIOUS
<1>1. PumpInv
  <2>1. /\ kind \in {"ts", "ffmpeg", "hls"} /\ pc = "idle" /\ attempt = 0 /\ cancel = "called"
        /\ chunk = None /\ sent = 0 /\ tables = 0
    BY DEF Init
  <2>2. seenRAI \in BOOLEAN /\ everReady \in BOOLEAN
    BY DEF Init
  <2>3. attempt \in 0..MaxAttempts /\ sent \in 0..MaxChunks /\ tables \in {0, attempt}
    BY <2>1, Bounds
  <2> QED
    BY <2>1, <2>2, <2>3 DEF PumpInv
<1>2. FeedInv
  <2>1. viewers = [v \in Viewers |-> None]
    BY DEF Init
  <2>2. viewers \in [Viewers -> Queues \cup {None}] /\ Attached = {}
    BY <2>1 DEF Attached
  <2> QED
    BY <2>2 DEF FeedInv
<1>3. ServerInv
  <2>1. <<>> \in Seq(Segments) /\ Len(<<>>) = 0 /\ DOMAIN <<>> = {}
    BY EmptySeq
  <2>2. server = [list |-> <<>>, made |-> 0, seq |-> 0, reset |-> FALSE, ended |-> FALSE]
    BY DEF Init
  <2>3. server \in Servers /\ server.list = <<>> /\ server.made = 0
    BY <2>1, <2>2 DEF Servers
  <2> QED
    BY <2>1, <2>3, Bounds DEF ServerInv
<1>4. WalkInv
  BY DEF Init, WalkInv
<1> QED
  BY <1>1, <1>2, <1>3, <1>4 DEF MediaInv

\* Viewers come, go and read.
LEMMA ViewerKeepsMedia ==
  ASSUME MediaInv, NEW v \in Viewers, AddViewer(v) \/ ReadItem(v) \/ RemoveViewer(v)
  PROVE  MediaInv'
<1>1. FeedInv'
  BY AddViewerFeed, ReadItemFeed, RemoveViewerFeed
<1>2. /\ UNCHANGED <<kind, pc, attempt, chunk, sent, tables, seenRAI, everReady, server, hls>>
      /\ cancel' \in {"armed", "taken", "called"}
  BY DEF AddViewer, ReadItem, RemoveViewer, TakeCancel, feed, MediaInv, PumpInv
<1>3. PumpInv'
  BY <1>2 DEF MediaInv, PumpInv
<1>4. ServerInv' /\ WalkInv'
  BY <1>2 DEF MediaInv, ServerInv, WalkInv
<1> QED
  BY <1>1, <1>3, <1>4 DEF MediaInv

LEMMA CallCancelKeepsMedia ==
  ASSUME MediaInv, CallCancel
  PROVE  MediaInv'
<1>1. UNCHANGED <<kind, pc, attempt, chunk, sent, tables, seenRAI, everReady, viewers, server, hls>>
  BY DEF CallCancel
<1>2. TablesKept
  BY <1>1 DEF TablesKept, TablesOnTheWay
<1>3. FeedInv'
  BY <1>1, <1>2, FeedFrame DEF MediaInv
<1>4. PumpInv'
  BY <1>1 DEF MediaInv, PumpInv, CallCancel
<1>5. ServerInv' /\ WalkInv'
  BY <1>1 DEF MediaInv, ServerInv, WalkInv
<1> QED
  BY <1>3, <1>4, <1>5 DEF MediaInv

LEMMA StartAttemptKeepsMedia ==
  ASSUME MediaInv, StartAttempt
  PROVE  MediaInv'
<1>1. /\ UNCHANGED <<kind, chunk, sent, everReady, viewers, server>> /\ tables' = 0
      /\ seenRAI' = FALSE /\ pc = "idle" /\ attempt < MaxAttempts /\ attempt' = attempt + 1
      /\ cancel' = "armed" /\ pc' \in {"copy", "playlist"}
  BY DEF StartAttempt, ApplyCurrentUpstream
<1>2. FeedInv'
  BY <1>1, FeedFrame DEF MediaInv, TablesKept
<1>3. chunk = None
  BY <1>1 DEF MediaInv, PumpInv
<1>4. PumpInv'
  <2>1. attempt' \in 0..MaxAttempts /\ attempt' > 0
    BY <1>1, Bounds DEF MediaInv, PumpInv
  <2>2. /\ kind' \in {"ts", "ffmpeg", "hls"} /\ sent' \in 0..MaxChunks
        /\ everReady' \in BOOLEAN /\ chunk' = None
    BY <1>1, <1>3 DEF MediaInv, PumpInv
  <2> QED
    BY <2>1, <2>2, <1>1 DEF PumpInv
<1>5. ServerInv' /\ WalkInv'
  BY <1>1, StartAttemptWalk DEF MediaInv, ServerInv
<1> QED
  BY <1>2, <1>4, <1>5 DEF MediaInv

LEMMA AttemptEndsKeepsMedia ==
  ASSUME MediaInv, AttemptEnds
  PROVE  MediaInv'
<1>1. /\ UNCHANGED <<kind, attempt, cancel, chunk, sent, tables, seenRAI, everReady, viewers, server>>
      /\ pc' = "idle" /\ hls' = None /\ chunk = None
  BY DEF AttemptEnds, feed
<1>2. TablesKept
  BY <1>1 DEF TablesKept, TablesOnTheWay
<1>3. FeedInv'
  BY <1>1, <1>2, FeedFrame DEF MediaInv
<1>4. PumpInv'
  BY <1>1 DEF MediaInv, PumpInv
<1>5. ServerInv' /\ WalkInv'
  BY <1>1 DEF MediaInv, ServerInv, WalkInv
<1> QED
  BY <1>3, <1>4, <1>5 DEF MediaInv

LEMMA StopKeepsMedia ==
  ASSUME MediaInv, Stop
  PROVE  MediaInv'
<1>1. /\ UNCHANGED <<kind, attempt, sent, tables, seenRAI, everReady, server>>
      /\ pc' = "stopped" /\ hls' = None /\ chunk' = None /\ viewers' = [v \in Viewers |-> None]
      /\ cancel' \in {"armed", "taken", "called"}
  BY DEF Stop, TakeCancel, MediaInv, PumpInv
<1>2. FeedInv'
  BY <1>1 DEF FeedInv, Attached
<1>3. PumpInv'
  BY <1>1 DEF MediaInv, PumpInv
<1>4. ServerInv' /\ WalkInv'
  BY <1>1 DEF MediaInv, ServerInv, WalkInv
<1> QED
  BY <1>2, <1>3, <1>4 DEF MediaInv

LEMMA CopyReadsKeepsMedia ==
  ASSUME MediaInv, NEW has \in BOOLEAN, NEW key \in BOOLEAN, CopyReads(has, key)
  PROVE  MediaInv'
<1>1. /\ UNCHANGED <<kind, pc, attempt, cancel, sent, everReady, viewers, server, hls>>
      /\ chunk = None /\ chunk' = [tables |-> has, key |-> key, out |-> FALSE]
      /\ tables' = IF has THEN attempt ELSE tables
      /\ sent < MaxChunks /\ pc \in {"copy", "segment"}
  BY DEF CopyReads, Copying
<1>2. seenRAI' \in BOOLEAN
  BY DEF CopyReads
<1>3. /\ chunk' \in Chunks /\ chunk'.out = FALSE /\ chunk'.tables = has /\ chunk' # None
  <2>1. chunk' \in Chunks
    BY <1>1, Zenon DEF Chunks
  <2>2. chunk'.out = FALSE /\ chunk'.tables = has
    BY <1>1, Zenon
  <2> QED
    BY <2>1, <2>2, NoneAssumption
<1>4. TablesKept
  <2>1. CASE has
    BY <2>1, <1>3 DEF TablesKept, TablesOnTheWay
  <2>2. CASE ~has
    BY <2>2, <1>1 DEF TablesKept, TablesOnTheWay
  <2> QED
    BY <2>1, <2>2
<1>5. FeedInv'
  BY <1>1, <1>4, FeedFrame DEF MediaInv
<1>6. PumpInv'
  <2>1. tables' \in {0, attempt} /\ (has => tables' = attempt)
    BY <1>1 DEF MediaInv, PumpInv
  <2> QED
    BY <2>1, <1>1, <1>2, <1>3 DEF MediaInv, PumpInv
<1>7. ServerInv' /\ WalkInv'
  BY <1>1 DEF MediaInv, ServerInv, WalkInv
<1> QED
  BY <1>5, <1>6, <1>7 DEF MediaInv

LEMMA BroadcastKeepsMedia ==
  ASSUME MediaInv, Broadcast
  PROVE  MediaInv'
<1>1. /\ UNCHANGED <<kind, pc, attempt, tables, seenRAI, everReady, server, hls>>
      /\ chunk # None /\ ~chunk.out /\ sent' = sent + 1 /\ chunk' = [chunk EXCEPT !.out = TRUE]
      /\ cancel' \in {"armed", "taken", "called"}
  BY DEF Broadcast, TakeCancel, MediaInv, PumpInv
<1>2. chunk \in Chunks /\ sent < MaxChunks
  BY <1>1 DEF MediaInv, PumpInv
<1>3. chunk' \in Chunks /\ chunk'.out = TRUE /\ chunk'.tables = chunk.tables
  BY <1>1, <1>2 DEF Chunks
<1>4. PumpInv'
  BY <1>1, <1>2, <1>3, Bounds DEF MediaInv, PumpInv
<1>5. ServerInv' /\ WalkInv'
  BY <1>1 DEF MediaInv, ServerInv, WalkInv
<1> QED
  BY <1>4, <1>5, BroadcastFeed DEF MediaInv

LEMMA MarkReadyKeepsMedia ==
  ASSUME MediaInv, MarkReady
  PROVE  MediaInv'
<1>1. /\ UNCHANGED <<kind, pc, attempt, cancel, sent, tables, seenRAI, viewers, server>>
      /\ everReady' = TRUE /\ chunk' = None /\ chunk.out
  BY DEF MarkReady
<1>2. TablesKept
  BY <1>1 DEF TablesKept, TablesOnTheWay
<1>3. FeedInv'
  BY <1>1, <1>2, FeedFrame DEF MediaInv
<1>4. PumpInv'
  BY <1>1 DEF MediaInv, PumpInv
<1>5. ServerInv' /\ WalkInv'
  BY <1>1, MarkReadyWalk DEF MediaInv, ServerInv
<1> QED
  BY <1>3, <1>4, <1>5 DEF MediaInv

\* The upstream and the walk leave the feed alone.
LEMMA PlaylistKeepsFeed ==
  ASSUME MediaInv, UNCHANGED <<kind, feed, viewers>>,
         pc' = pc \/ (chunk = None /\ attempt > 0
                      /\ pc' \in {"playlist", "walk", "segment"})
  PROVE  PumpInv' /\ FeedInv'
<1>1. UNCHANGED <<kind, attempt, cancel, chunk, sent, tables, seenRAI, everReady, viewers>>
  BY DEF feed
<1>2. TablesKept
  BY <1>1 DEF TablesKept, TablesOnTheWay
<1>3. FeedInv'
  BY <1>1, <1>2, FeedFrame DEF MediaInv
<1>4. PumpInv'
  BY <1>1 DEF MediaInv, PumpInv
<1> QED
  BY <1>3, <1>4

LEMMA UpstreamKeepsMedia ==
  ASSUME MediaInv, Produce \/ PackagerRestarts \/ BroadcastEnds
  PROVE  MediaInv'
<1>1. UNCHANGED <<kind, pc, feed, viewers, hls>>
  BY DEF Produce, PackagerRestarts, BroadcastEnds
<1>2. PumpInv' /\ FeedInv'
  BY <1>1, PlaylistKeepsFeed
<1>3. ServerInv'
  BY ProduceServer, OtherServer DEF MediaInv
<1>4. WalkInv'
  BY <1>1 DEF MediaInv, WalkInv
<1> QED
  BY <1>2, <1>3, <1>4 DEF MediaInv

LEMMA WalkKeepsMedia ==
  ASSUME MediaInv,
         LoadPlaylist \/ MarkSegment \/ SkipSegment \/ FetchSegment \/ SegmentDone \/ ReloadPlaylist
  PROVE  MediaInv'
<1>1. /\ UNCHANGED <<kind, feed, viewers, server>>
      /\ pc \in {"playlist", "walk", "segment"} /\ pc' \in {"playlist", "walk", "segment"}
      /\ pc = "segment" => chunk = None
  BY DEF LoadPlaylist, MarkSegment, SkipSegment, FetchSegment, SegmentDone, ReloadPlaylist,
         Marking, Walking, Walked
<1>2. chunk = None /\ attempt > 0
  BY <1>1 DEF MediaInv, PumpInv
<1>3. PumpInv' /\ FeedInv'
  BY <1>1, <1>2, PlaylistKeepsFeed
<1>4. ServerInv'
  BY <1>1 DEF MediaInv, ServerInv
<1>5. WalkInv'
  <2>1. CASE ReloadPlaylist
    BY <2>1 DEF ReloadPlaylist, Walked, WalkInv, MediaInv
  <2> QED
    BY <2>1, LoadPlaylistWalk, MarkSegmentWalk, SkipSegmentWalk, FetchSegmentWalk, SegmentDoneWalk
       DEF MediaInv
<1> QED
  BY <1>3, <1>4, <1>5 DEF MediaInv

LEMMA MediaStep == MediaInv /\ [Next]_vars => MediaInv'
<1> SUFFICES ASSUME MediaInv, [Next]_vars PROVE MediaInv'
  OBVIOUS
<1>1. CASE UNCHANGED vars
  <2>1. UNCHANGED <<kind, feed, viewers, pc, server, hls>>
    BY <1>1 DEF vars
  <2>2. PumpInv' /\ FeedInv'
    BY <2>1, PlaylistKeepsFeed
  <2> QED
    BY <2>1, <2>2 DEF MediaInv, ServerInv, WalkInv
<1>2. CASE \E v \in Viewers : AddViewer(v) \/ ReadItem(v) \/ RemoveViewer(v)
  BY <1>2, ViewerKeepsMedia
<1>3. CASE \E has, key \in BOOLEAN : CopyReads(has, key)
  BY <1>3, CopyReadsKeepsMedia
<1>4. CASE SessionStops \/ LoadEnded \/ PlaylistEnds
  BY <1>4, StopKeepsMedia DEF SessionStops, LoadEnded, PlaylistEnds
<1>5. CASE CallCancel \/ StartAttempt \/ AttemptEnds \/ Broadcast \/ MarkReady
  BY <1>5, CallCancelKeepsMedia, StartAttemptKeepsMedia, AttemptEndsKeepsMedia,
     BroadcastKeepsMedia, MarkReadyKeepsMedia
<1>6. CASE Produce \/ PackagerRestarts \/ BroadcastEnds
  BY <1>6, UpstreamKeepsMedia
<1>7. CASE LoadPlaylist \/ MarkSegment \/ SkipSegment \/ FetchSegment \/ SegmentDone \/ ReloadPlaylist
  BY <1>7, WalkKeepsMedia
<1> QED
  BY <1>1, <1>2, <1>3, <1>4, <1>5, <1>6, <1>7 DEF Next


(***************************************************************************)
(* Theorems about the feed.                                                *)
(***************************************************************************)
\* The pump, the queues, the upstream's window and the walk are well formed at
\* every step of broadcast, attach, pumpOnce and pumpHLS.
THEOREM MediaInvariance == Spec => []MediaInv
<1>1. Init => MediaInv
  BY MediaInit
<1>2. MediaInv /\ [Next]_vars => MediaInv'
  BY MediaStep
<1> QED
  BY <1>1, <1>2, PTL DEF Spec

\* Queues and the list of segments seen keep to their capacity and the walk stays
\* within its playlist, whatever the capacities are.
THEOREM MediaTypes == Spec => []TypeOK
<1>1. MediaInv => TypeOK
  <2> SUFFICES ASSUME MediaInv PROVE TypeOK
    OBVIOUS
  <2>1. tables \in 0..attempt
    BY Bounds DEF MediaInv, PumpInv
  <2>2. \A v \in Attached : Len(viewers[v].queue) <= BufferSize
    BY DEF MediaInv, FeedInv, GivenInv
  <2>3. pc \in {"walk", "segment"} =>
          Len(hls.seen) <= MaxSeen /\ hls.i \in 1..Len(hls.segments) + 1
    <3> SUFFICES ASSUME pc \in {"walk", "segment"}
                 PROVE  Len(hls.seen) <= MaxSeen /\ hls.i \in 1..Len(hls.segments) + 1
      OBVIOUS
    <3>1. hls # None /\ WalkInv
      BY DEF MediaInv, WalkInv
    <3> QED
      BY <3>1, WalkFields
  <2>4. pc = "segment" => hls.i <= Len(hls.segments)
    BY DEF MediaInv, WalkInv
  <2> QED
    BY <2>1, <2>2, <2>3, <2>4 DEF MediaInv, PumpInv, TypeOK
<1> QED
  BY <1>1, MediaInvariance, PTL

\* broadcast never leaves a viewer attached that missed a chunk.
THEOREM ServedWithoutHoles == Spec => []NoHoles
<1>1. MediaInv => NoHoles
  BY DEF MediaInv, FeedInv, GivenInv, Numbered, NoHoles
<1> QED
  BY <1>1, MediaInvariance, PTL

\* A late joiner of a transcoded stream starts at a keyframe, behind tables of the
\* attempt that keyframe belongs to.
THEOREM LateJoinersStartClean == Spec => []LateJoinerStartsClean
<1>1. MediaInv => LateJoinerStartsClean
  <2> SUFFICES ASSUME MediaInv, NEW v \in Attached, viewers[v].late, Given(v) # <<>>
               PROVE  Given(v)[1].key /\ Given(v)[1].startup \in {0, Given(v)[1].attempt}
    BY DEF LateJoinerStartsClean
  <2> QED
    BY DEF MediaInv, FeedInv, GivenInv
<1> QED
  BY <1>1, MediaInvariance, PTL

\* A viewer has the tables of an attempt before media of that attempt, across
\* reconnects: applyCurrentUpstreamLocked forgets the old ones.
THEOREM TablesComeFirst == Spec => []TablesBeforeMedia
<1>1. MediaInv => TablesBeforeMedia
  BY DEF MediaInv, FeedInv, GivenInv, Announced, Carries, TablesBeforeMedia
<1> QED
  BY <1>1, MediaInvariance, PTL


(***************************************************************************)
(* The list of segments seen.  Its entries are at least as far apart as    *)
(* their places, so what it forgets lies a whole list behind.              *)
(***************************************************************************)
Gaps(seen) == \A a, b \in DOMAIN seen : a < b => seen[b] - seen[a] >= b - a

\* A segment of the playlist is in the list, or newer than it and not walked.
Covers(seen, segs, i) ==
  \A j \in DOMAIN segs :
    segs[j].k \in Range(seen) \/ (j >= i /\ \A a \in DOMAIN seen : seen[a] < segs[j].k)

\* A new entry is appended; the first one may go.
LEMMA SeenAddShape ==
  ASSUME NEW seen \in Seq(Nat), NEW k \in Nat, k \notin Range(seen), Len(seen) <= MaxSeen
  PROVE  \E d \in {0, 1} :
           /\ d = 1 => Len(seen) = MaxSeen
           /\ SeenAdd(seen, k) \in Seq(Nat)
           /\ Len(SeenAdd(seen, k)) = Len(seen) - d + 1 /\ Len(seen) >= d
           /\ \A a \in 1..(Len(seen) - d) : SeenAdd(seen, k)[a] = seen[a + d]
           /\ SeenAdd(seen, k)[Len(seen) - d + 1] = k
<1> DEFINE new == SeenAdd(seen, k)
<1>1. Len(seen) \in Nat
  BY LenProperties
<1>2. CASE Len(seen) = MaxSeen
  <2> DEFINE t == Tail(seen)
  <2>1. seen # <<>>
    BY <1>2, EmptySeq, Bounds
  <2>2. /\ t \in Seq(Nat) /\ Len(t) = Len(seen) - 1
        /\ \A a \in 1..Len(t) : t[a] = seen[a + 1]
    BY <2>1, HeadTailProperties
  <2>3. new = Append(t, k)
    BY <1>2 DEF SeenAdd
  <2> HIDE DEF t, new
  <2>4. /\ new \in Seq(Nat) /\ Len(new) = Len(t) + 1
        /\ \A a \in 1..Len(t) : new[a] = t[a]
        /\ new[Len(t) + 1] = k
    BY <2>2, <2>3, AppendProperties
  <2>5. \A a \in 1..(Len(seen) - 1) : new[a] = seen[a + 1]
    BY <2>2, <2>4
  <2>6. Len(new) = Len(seen) - 1 + 1 /\ Len(seen) >= 1 /\ new[Len(seen) - 1 + 1] = k
    BY <1>1, <1>2, <2>2, <2>4, Bounds
  <2>7. /\ 1 = 1 => Len(seen) = MaxSeen
        /\ new \in Seq(Nat)
        /\ Len(new) = Len(seen) - 1 + 1 /\ Len(seen) >= 1
        /\ \A a \in 1..(Len(seen) - 1) : new[a] = seen[a + 1]
        /\ new[Len(seen) - 1 + 1] = k
    BY <1>2, <2>4, <2>5, <2>6
  <2> QED
    BY <2>7 DEF new
<1>3. CASE Len(seen) # MaxSeen
  <2>1. new = Append(seen, k)
    BY <1>3 DEF SeenAdd
  <2> HIDE DEF new
  <2>2. /\ new \in Seq(Nat) /\ Len(new) = Len(seen) + 1
        /\ \A a \in 1..Len(seen) : new[a] = seen[a]
        /\ new[Len(seen) + 1] = k
    BY <2>1, AppendProperties
  <2>3. Len(seen) - 0 = Len(seen) /\ \A a \in 1..Len(seen) : a + 0 = a
    BY <1>1
  <2>4. /\ 0 = 1 => Len(seen) = MaxSeen
        /\ new \in Seq(Nat)
        /\ Len(new) = Len(seen) - 0 + 1 /\ Len(seen) >= 0
        /\ \A a \in 1..(Len(seen) - 0) : new[a] = seen[a + 0]
        /\ new[Len(seen) - 0 + 1] = k
    BY <1>1, <2>2, <2>3
  <2> QED
    BY <2>4 DEF new
<1> QED
  BY <1>2, <1>3


\* The list takes in the segment the walk is at: no segment of the playlist is
\* forgotten while the playlist is no longer than the list.
LEMMA SeenAddCovers ==
  ASSUME Window <= MaxSeen, NEW segs \in Seq(Segments), NEW seen \in Seq(Nat),
         NEW i \in 1..Len(segs), NEW k \in Nat, k = segs[i].k,
         Len(segs) <= Window, Len(seen) <= MaxSeen,
         \A j \in DOMAIN segs : segs[j].k = segs[1].k + j - 1,
         Gaps(seen), Covers(seen, segs, i),
         \A a \in DOMAIN seen : seen[a] <= segs[Len(segs)].k
  PROVE  /\ Gaps(SeenAdd(seen, k)) /\ Covers(SeenAdd(seen, k), segs, i + 1)
         /\ \A a \in DOMAIN SeenAdd(seen, k) : SeenAdd(seen, k)[a] <= segs[Len(segs)].k
         /\ k \in Range(SeenAdd(seen, k))
         /\ \A b \in DOMAIN seen : \E c \in DOMAIN SeenAdd(seen, k) : seen[b] <= SeenAdd(seen, k)[c]
         /\ k \notin Range(seen) =>
              /\ \A a \in DOMAIN seen : seen[a] < k
              /\ SeenAdd(seen, k)[Len(SeenAdd(seen, k))] = k
              /\ SeenAdd(seen, k) # <<>>
              /\ Range(SeenAdd(seen, k)) \subseteq Range(seen) \cup {k}
<1> DEFINE new == SeenAdd(seen, k)
<1>0. /\ DOMAIN seen = 1..Len(seen) /\ Len(seen) \in Nat
      /\ DOMAIN segs = 1..Len(segs) /\ Len(segs) \in Nat
      /\ \A a \in 1..Len(seen) : seen[a] \in Nat
      /\ \A j \in 1..Len(segs) : segs[j] \in Segments /\ segs[j].k \in Nat
  <2>1. /\ DOMAIN seen = 1..Len(seen) /\ Len(seen) \in Nat
        /\ DOMAIN segs = 1..Len(segs) /\ Len(segs) \in Nat
    BY LenProperties
  <2>2. \A a \in 1..Len(seen) : seen[a] \in Nat
    BY ElementOfSeq
  <2>3. \A j \in 1..Len(segs) : segs[j] \in Segments
    BY ElementOfSeq
  <2> QED
    BY <2>1, <2>2, <2>3 DEF Segments
<1>1. CASE k \in Range(seen)
  <2>1. new = seen
    BY <1>1 DEF SeenAdd
  <2>2. Covers(seen, segs, i + 1)
    <3> SUFFICES ASSUME NEW j \in DOMAIN segs, segs[j].k \notin Range(seen)
                 PROVE  j >= i + 1 /\ \A a \in DOMAIN seen : seen[a] < segs[j].k
      BY DEF Covers
    <3>1. j >= i /\ \A a \in DOMAIN seen : seen[a] < segs[j].k
      BY DEF Covers
    <3>2. j # i
      BY <1>1
    <3> QED
      BY <3>1, <3>2, <1>0
  <2>3. \A b \in DOMAIN seen : \E c \in DOMAIN seen : seen[b] <= seen[c]
    BY <1>0
  <2> QED
    BY <1>1, <2>1, <2>2, <2>3
<1>2. CASE k \notin Range(seen)
  <2>1. PICK d \in {0, 1} :
           /\ d = 1 => Len(seen) = MaxSeen
           /\ new \in Seq(Nat)
           /\ Len(new) = Len(seen) - d + 1 /\ Len(seen) >= d
           /\ \A a \in 1..(Len(seen) - d) : new[a] = seen[a + d]
           /\ new[Len(seen) - d + 1] = k
    BY <1>2, SeenAddShape
  <2> HIDE DEF new
  <2> DEFINE n == Len(seen) - d
  <2>2. /\ n \in Nat /\ d \in Nat /\ d <= 1 /\ Len(seen) = n + d /\ DOMAIN new = 1..(n + 1)
        /\ Len(new) = n + 1 /\ new[n + 1] = k
        /\ \A a \in 1..n : new[a] = seen[a + d] /\ a + d \in 1..Len(seen)
    <3>1. DOMAIN new = 1..Len(new)
      BY <2>1, LenProperties
    <3>2. n \in Nat /\ d \in Nat /\ d <= 1 /\ Len(seen) = n + d
      BY <1>0, <2>1
    <3>3. \A a \in 1..n : a + d \in 1..Len(seen)
      BY <3>2
    <3> QED
      BY <2>1, <3>1, <3>2, <3>3
  <2> HIDE DEF n
  <2>3. \A a \in DOMAIN seen : seen[a] < k
    BY <1>0, <1>2 DEF Covers
  <2>4. Range(new) \subseteq Range(seen) \cup {k} /\ k \in Range(new)
    <3>1. ASSUME NEW a \in 1..(n + 1)
          PROVE  new[a] \in Range(seen) \cup {k}
      <4>1. CASE a = n + 1
        BY <4>1, <2>2
      <4>2. CASE a \in 1..n
        BY <4>2, <2>2, <1>0 DEF Range
      <4> QED
        BY <4>1, <4>2, <2>2
    <3>2. n + 1 \in DOMAIN new
      BY <2>2
    <3> QED
      BY <3>1, <3>2, <2>2 DEF Range
  <2>5. Gaps(new)
    <3> SUFFICES ASSUME NEW a \in 1..(n + 1), NEW b \in 1..(n + 1), a < b
                 PROVE  new[b] - new[a] >= b - a
      BY <2>2 DEF Gaps
    <3>1. a \in 1..n /\ new[a] = seen[a + d] /\ a + d \in DOMAIN seen
      BY <2>2, <1>0
    <3>2. CASE b = n + 1
      <4>1. new[b] = k /\ seen[a + d] < k /\ seen[a + d] \in Nat
        BY <3>1, <3>2, <2>2, <2>3, <1>0
      <4>2. CASE a + d = n + d
        <5>1. PICK x \in Nat : x = seen[a + d] /\ x < k
          BY <4>1
        <5>2. b - a = 1
          <6>1. a \in Int /\ n \in Int /\ d \in Int
            BY <3>1, <2>2
          <6>2. a = n
            BY <4>2, <6>1
          <6> QED
            BY <3>2, <6>1, <6>2
        <5>3. k - x >= 1
          BY <5>1, <1>0
        <5>4. new[b] - new[a] = k - x
          BY <3>1, <4>1, <5>1
        <5> QED
          BY <5>2, <5>3, <5>4
      <4>3. CASE a + d < n + d
        <5>1. n + d \in DOMAIN seen /\ a \in Int
          BY <4>3, <3>1, <2>2, <1>0
        <5>2. seen[n + d] - seen[a + d] >= (n + d) - (a + d)
          BY <5>1, <4>3, <3>1 DEF Gaps
        <5>3. seen[n + d] < k /\ seen[n + d] \in Nat
          BY <5>1, <2>3, <1>0
        <5>4. (n + d) - (a + d) = n - a /\ b - a = (n - a) + 1 /\ n - a \in Int
          BY <5>1, <3>2, <2>2
        <5>5. k - seen[a + d] >= (n - a) + 1
          <6>1. \A x, y, z, m \in Int : y - x >= m /\ y < z => z - x >= m + 1
            OBVIOUS
          <6>2. seen[a + d] \in Int /\ seen[n + d] \in Int /\ k \in Int
            BY <5>3, <4>1, <1>0
          <6>3. seen[n + d] - seen[a + d] >= n - a
            <7>1. (n + d) - (a + d) = n - a
              BY <5>4
            <7> QED
              BY <5>2, <7>1, Zenon
          <6> QED
            BY <6>1, <6>2, <6>3, <5>3, <5>4, Zenon
        <5> QED
          BY <5>4, <5>5, <4>1, <3>1
      <4> QED
        BY <4>2, <4>3, <3>1, <2>2
    <3>3. CASE b \in 1..n
      <4>1. new[b] = seen[b + d] /\ b + d \in DOMAIN seen /\ a + d < b + d
        BY <3>3, <2>2, <1>0
      <4>2. seen[b + d] - seen[a + d] >= (b + d) - (a + d)
        BY <3>1, <4>1 DEF Gaps
      <4>3. (b + d) - (a + d) = b - a
        BY <2>2
      <4> QED
        BY <3>1, <4>1, <4>2, <4>3
    <3> QED
      BY <3>2, <3>3, <2>2
  <2>6. ASSUME NEW j \in DOMAIN segs, segs[j].k \in Range(seen)
        PROVE  segs[j].k \in Range(new)
    <3>1. PICK a \in 1..Len(seen) : seen[a] = segs[j].k
      BY <2>6, <1>0 DEF Range
    <3>2. CASE a > d
      <4>1. a - d \in 1..n /\ (a - d) + d = a
        BY <3>1, <3>2, <2>2, <1>0
      <4>2. new[a - d] = seen[a] /\ a - d \in DOMAIN new
        BY <4>1, <2>2
      <4> QED
        BY <3>1, <4>2 DEF Range
    <3>3. CASE a <= d
      <4>1. a = 1 /\ d = 1 /\ Len(seen) = MaxSeen
        BY <3>1, <3>3, <2>1, <2>2, <1>0
      <4>2. k - seen[1] >= MaxSeen
        <5>1. seen[1] \in Nat /\ Len(seen) \in DOMAIN seen /\ seen[Len(seen)] \in Nat
          BY <4>1, <1>0, Bounds
        <5>2. seen[Len(seen)] < k
          BY <5>1, <2>3
        <5>3. seen[Len(seen)] - seen[1] >= Len(seen) - 1
          <6>1. CASE Len(seen) = 1
            BY <6>1, <5>1
          <6>2. CASE Len(seen) > 1
            <7>1. 1 \in DOMAIN seen /\ 1 < Len(seen)
              BY <6>2, <1>0
            <7> QED
              BY <7>1, <5>1 DEF Gaps
          <6> QED
            BY <6>1, <6>2, <4>1, <1>0, Bounds
        <5> QED
          BY <5>1, <5>2, <5>3, <4>1, <1>0
      <4>3. k = segs[1].k + i - 1 /\ seen[1] = segs[1].k + j - 1
        BY <3>1, <4>1, <1>0
      <4>4. k - seen[1] < Len(segs)
        <5>1. i \in Int /\ j \in Int /\ i <= Len(segs) /\ j >= 1 /\ 1 \in 1..Len(segs)
          BY <1>0
        <5>2. segs[1].k \in Int /\ Len(segs) \in Int
          <6>1. \A y \in Nat : y \in Int
            OBVIOUS
          <6> QED
            BY <6>1, <5>1, <1>0, Zenon
        <5>3. \A s, l, u, w \in Int : u <= l /\ w >= 1 => (s + u - 1) - (s + w - 1) < l
          OBVIOUS
        <5> QED
          BY <5>1, <5>2, <5>3, <4>3, Zenon
      <4> QED
        BY <4>2, <4>3, <4>4, <1>0, Bounds
    <3> QED
      BY <3>2, <3>3, <2>2, <1>0
  <2>7. Covers(new, segs, i + 1)
    <3> SUFFICES ASSUME NEW j \in DOMAIN segs, segs[j].k \notin Range(new)
                 PROVE  j >= i + 1 /\ \A a \in DOMAIN new : new[a] < segs[j].k
      BY DEF Covers
    <3>1. j >= i /\ \A a \in DOMAIN seen : seen[a] < segs[j].k
      BY <2>6 DEF Covers
    <3>2. j # i
      BY <2>4
    <3>3. j >= i + 1
      BY <3>1, <3>2, <1>0
    <3>4. k < segs[j].k
      <4>1. 1 \in DOMAIN segs /\ i \in DOMAIN segs /\ segs[1].k \in Nat
        BY <1>0
      <4>2. segs[j].k = segs[1].k + (j - 1) /\ k = segs[1].k + (i - 1)
        BY <4>1
      <4>3. i \in Int /\ j \in Int /\ segs[1].k \in Int
        BY <4>1, <1>0
      <4>4. \A x, p, q \in Int : q >= p + 1 => x + (p - 1) < x + (q - 1)
        OBVIOUS
      <4> QED
        BY <3>3, <4>2, <4>3, <4>4, Zenon
    <3>5. ASSUME NEW a \in 1..(n + 1)
          PROVE  new[a] < segs[j].k
      <4>1. CASE a = n + 1
        BY <4>1, <3>4, <2>2
      <4>2. CASE a \in 1..n
        BY <4>2, <3>1, <2>2, <1>0
      <4> QED
        BY <4>1, <4>2, <2>2
    <3> QED
      BY <3>3, <3>5, <2>2
  <2>8. ASSUME NEW a \in DOMAIN new
        PROVE  new[a] <= segs[Len(segs)].k
    <3>1. k <= segs[Len(segs)].k
      <4>1. /\ 1 \in DOMAIN segs /\ i \in DOMAIN segs /\ Len(segs) \in DOMAIN segs
            /\ segs[1].k \in Nat
        BY <1>0
      <4>2. segs[Len(segs)].k = segs[1].k + (Len(segs) - 1) /\ k = segs[1].k + (i - 1)
        BY <4>1
      <4>3. i \in Int /\ Len(segs) \in Int /\ i <= Len(segs) /\ segs[1].k \in Int
        BY <4>1, <1>0
      <4>4. \A x, p, q \in Int : p <= q => x + (p - 1) <= x + (q - 1)
        OBVIOUS
      <4> QED
        BY <4>2, <4>3, <4>4, Zenon
    <3>2. CASE a = n + 1
      BY <3>1, <3>2, <2>2
    <3>3. CASE a \in 1..n
      BY <3>3, <2>2, <1>0
    <3> QED
      BY <3>2, <3>3, <2>2
  <2>9. \A b \in DOMAIN seen : \E c \in DOMAIN new : seen[b] <= new[c]
    <3>1. n + 1 \in DOMAIN new /\ new[n + 1] = k
      BY <2>2
    <3>2. \A b \in DOMAIN seen : seen[b] <= k
      BY <2>3, <1>0
    <3> QED
      BY <3>1, <3>2
  <2>10. new[Len(new)] = k /\ new # <<>>
    BY <2>2, EmptySeq
  <2> QED
    BY <2>3, <2>4, <2>5, <2>7, <2>8, <2>9, <2>10, <1>2 DEF new
<1> QED
  BY <1>1, <1>2


(***************************************************************************)
(* OrderInv is inductive, while a playlist is no longer than the list of   *)
(* segments seen.                                                          *)
(***************************************************************************)
SameWalk ==
  /\ hls'.seen = hls.seen /\ hls'.lastSeq = hls.lastSeq /\ hls'.started = hls.started
  /\ hls'.segments = hls.segments /\ hls'.i = hls.i /\ hls'.skip = hls.skip
  /\ hls'.first = hls.first /\ hls'.reset = hls.reset /\ hls'.fetched = hls.fetched

LEMMA OrderFrame ==
  ASSUME OrderInv, hls # None, SameWalk, UNCHANGED server, pc' = "segment" <=> pc = "segment"
  PROVE  OrderInv'
<1>1. SnapshotInv /\ SeenInv /\ FetchedInv /\ NumberingInv
  BY DEF OrderInv
<1>2. SnapshotInv'
  BY <1>1 DEF SnapshotInv, SameWalk
<1>3. SeenInv'
  BY <1>1 DEF SeenInv, SameWalk
<1>4. FetchedInv'
  BY <1>1 DEF FetchedInv, SameWalk, Segment
<1>5. NumberingInv'
  BY <1>1 DEF NumberingInv, SameWalk
<1> QED
  BY <1>2, <1>3, <1>4, <1>5 DEF OrderInv

LEMMA StartAttemptOrder ==
  ASSUME MediaInv, StartAttempt
  PROVE  OrderInv'
<1>1. CASE kind # "hls"
  BY <1>1 DEF StartAttempt, OrderInv
<1>2. CASE kind = "hls"
  <2>1. hls' = NewPlaylistWalk /\ pc' = "playlist" /\ server' = server
    BY <1>2 DEF StartAttempt
  <2>2. /\ hls'.seen = <<>> /\ hls'.segments = <<>> /\ hls'.fetched = <<>>
        /\ hls'.started = FALSE /\ hls'.lastSeq = -1 /\ hls'.reset = server.reset
    BY <2>1 DEF NewPlaylistWalk
  <2>3. DOMAIN <<>> = {} /\ Len(<<>>) = 0 /\ Range(<<>>) = {} /\ Window >= 0
    BY EmptySeq, Bounds DEF Range
  <2>4. SnapshotInv'
    BY <2>1, <2>2, <2>3 DEF SnapshotInv
  <2>5. SeenInv'
    BY <2>2, <2>3 DEF SeenInv
  <2>6. FetchedInv'
    BY <2>1, <2>2, <2>3 DEF FetchedInv
  <2>7. NumberingInv'
    BY <2>2, <2>3 DEF NumberingInv
  <2> QED
    BY <2>4, <2>5, <2>6, <2>7 DEF OrderInv
<1> QED
  BY <1>1, <1>2

\* The window of the upstream moves on under the walk.
LEMMA ProduceOrder ==
  ASSUME MediaInv, OrderInv, hls # None, Produce
  PROVE  OrderInv'
<1> DEFINE segs == hls.segments
           list == server.list
           m == server.made
<1>1. SnapshotInv /\ SeenInv /\ FetchedInv /\ NumberingInv /\ ServerInv /\ ServerInv'
  BY ProduceServer DEF OrderInv, MediaInv
<1>2. /\ UNCHANGED <<pc, hls>>
      /\ server \in Servers /\ m \in Nat /\ server.seq \in Nat /\ list \in Seq(Segments)
  BY <1>1 DEF Produce, ServerInv, Servers
<1> DEFINE all == Append(list, [k |-> m + 1, seq |-> server.seq])
           new == IF Len(all) > Window THEN Tail(all) ELSE all
<1>3. /\ server'.made = m + 1 /\ server'.seq = server.seq + 1 /\ server'.reset = server.reset
      /\ server'.list = new
  <2>1. server' = [server EXCEPT !.made = @ + 1, !.seq = @ + 1, !.list = new]
    BY DEF Produce
  <2> HIDE DEF new
  <2> QED
    BY <2>1, <1>2 DEF Servers
<1>4. Len(new) \in Nat /\ Len(new) <= Len(list) + 1 /\ new \in Seq(Segments) /\ Len(list) \in Nat
  <2>1. all \in Seq(Segments) /\ Len(all) = Len(list) + 1 /\ Len(list) \in Nat
    <3>1. [k |-> m + 1, seq |-> server.seq] \in Segments
      BY <1>2 DEF Segments
    <3> QED
      BY <3>1, <1>2, AppendProperties, LenProperties
  <2> HIDE DEF all
  <2>2. Len(all) > Window => Tail(all) \in Seq(Segments) /\ Len(Tail(all)) = Len(all) - 1
    BY <2>1, EmptySeq, HeadTailProperties, Bounds
  <2> QED
    BY <2>1, <2>2
<1> HIDE DEF new, all
<1>5. SnapshotInv'
  <2>1. /\ \A j \in DOMAIN segs : segs[j].k \in Nat /\ segs[j].k <= m
        /\ DOMAIN segs = 1..Len(segs) /\ Len(segs) \in Nat
    <3>1. segs \in Seq(Segments)
      BY WalkFields DEF MediaInv
    <3>2. \A j \in 1..Len(segs) : segs[j] \in Segments
      BY <3>1, ElementOfSeq
    <3> QED
      BY <3>1, <3>2, <1>1, LenProperties DEF Segments, SnapshotInv
  <2>2. ASSUME segs # <<>>, NEW j \in DOMAIN new
        PROVE  segs[1].k <= new[j].k
    <3>1. 1 \in DOMAIN segs
      BY <2>1, <2>2, EmptySeq, WalkFields DEF MediaInv
    <3>2. segs[1].k \in Nat /\ segs[1].k <= m
      BY <2>1, <3>1
    <3>3. segs[1].k <= (m - Len(list)) + 1
      <4>1. CASE Len(list) = 0
        BY <4>1, <3>2, <1>2
      <4>2. CASE Len(list) > 0
        <5>1. 1 \in DOMAIN list
          BY <4>2, <1>2, <1>4, LenProperties
        <5> QED
          BY <5>1, <2>2, <1>1 DEF SnapshotInv, ServerInv
      <4> QED
        BY <4>1, <4>2, <1>4
    <3>4. new[j].k = (m + 1) - Len(new) + j
      BY <1>1, <1>3, <2>2 DEF ServerInv
    <3>5. j \in Int /\ j >= 1
      BY <1>4, LenProperties
    <3> HIDE DEF m, list, segs
    <3>6. \A x, y, a, b, i \in Int : x <= (y - a) + 1 /\ b <= a + 1 /\ i >= 1 => x <= (y + 1) - b + i
      OBVIOUS
    <3>7. segs[1].k \in Int /\ m \in Int /\ Len(list) \in Int /\ Len(new) \in Int
      BY <3>2, <1>2, <1>4 DEF m
    <3> QED
      BY <3>3, <3>4, <3>5, <3>6, <3>7, <1>4, Zenon
  <2>3. \A j \in DOMAIN segs : segs[j].k <= m + 1
    BY <2>1, <1>2
  <2> QED
    BY <2>2, <2>3, <1>1, <1>2, <1>3 DEF SnapshotInv
<1>6. SeenInv' /\ FetchedInv'
  BY <1>1, <1>2 DEF SeenInv, FetchedInv, Segment
<1>7. NumberingInv'
  <2> SUFFICES ASSUME hls.reset = server.reset
               PROVE  /\ \A j \in DOMAIN segs : segs[j].seq + 1 + (m + 1) = segs[j].k + (server.seq + 1)
                      /\ IF hls.seen = <<>> THEN hls.lastSeq = -1
                         ELSE hls.lastSeq + 1 + (m + 1) = hls.seen[Len(hls.seen)] + (server.seq + 1)
                      /\ \A k \in Range(hls.seen) : k >= hls.first => k \in Range(hls.fetched)
    BY <1>2, <1>3 DEF NumberingInv
  <2>2. m \in Int /\ server.seq \in Int /\ hls.lastSeq \in Int
    BY <1>2, WalkFields DEF MediaInv
  <2>3. ASSUME NEW j \in DOMAIN segs
        PROVE  segs[j].seq + 1 + (m + 1) = segs[j].k + (server.seq + 1)
    <3>1. segs[j].seq + 1 + m = segs[j].k + server.seq
      BY <1>1 DEF NumberingInv
    <3>2. segs \in Seq(Segments)
      BY WalkFields DEF MediaInv
    <3> HIDE DEF segs
    <3>5. j \in 1..Len(segs)
      BY <3>2, <2>3, LenProperties
    <3>3. segs[j] \in Segments
      BY <3>2, <3>5, ElementOfSeq
    <3>4. segs[j].seq \in Int /\ segs[j].k \in Int
      BY <3>3 DEF Segments
    <3> HIDE DEF m
    <3> QED
      BY <3>1, <3>4, <2>2
  <2>4. hls.seen # <<>> => hls.lastSeq + 1 + (m + 1) = hls.seen[Len(hls.seen)] + (server.seq + 1)
    <3> SUFFICES ASSUME hls.seen # <<>>
                 PROVE  hls.lastSeq + 1 + (m + 1) = hls.seen[Len(hls.seen)] + (server.seq + 1)
      OBVIOUS
    <3>1. hls.lastSeq + 1 + m = hls.seen[Len(hls.seen)] + server.seq
      BY <1>1 DEF NumberingInv
    <3>2. hls.seen \in Seq(Nat)
      BY WalkFields DEF MediaInv
    <3>3. hls.seen[Len(hls.seen)] \in Int
      <4>1. Len(hls.seen) \in 1..Len(hls.seen)
        BY <3>2, EmptySeq, LenProperties
      <4>2. hls.seen[Len(hls.seen)] \in Nat
        BY <3>2, <4>1, ElementOfSeq
      <4> QED
        BY <4>2
    <3>4. PICK x \in Int, y \in Int, a \in Int, b \in Int :
            x = hls.lastSeq /\ y = hls.seen[Len(hls.seen)] /\ a = m /\ b = server.seq
      BY <3>3, <2>2
    <3>5. x + 1 + (a + 1) = y + (b + 1)
      <4>1. x + 1 + a = y + b
        BY <3>1, <3>4
      <4> QED
        BY <4>1
    <3> QED
      BY <3>4, <3>5
  <2> QED
    BY <2>3, <2>4, <1>1 DEF NumberingInv
<1> QED
  BY <1>2, <1>5, <1>6, <1>7 DEF OrderInv


LEMMA OtherServerOrder ==
  ASSUME MediaInv, OrderInv, hls # None, PackagerRestarts \/ BroadcastEnds
  PROVE  OrderInv'
<1>1. /\ SnapshotInv /\ SeenInv /\ FetchedInv /\ NumberingInv /\ UNCHANGED <<pc, hls>>
      /\ server \in Servers /\ hls.reset \in BOOLEAN
  BY WalkFields DEF OrderInv, MediaInv, ServerInv, PackagerRestarts, BroadcastEnds
<1>2. SeenInv' /\ FetchedInv'
  BY <1>1 DEF SeenInv, FetchedInv, Segment
<1>3. CASE PackagerRestarts
  <2>1. ~server.reset /\ server' = [server EXCEPT !.reset = TRUE, !.seq = 0, !.list = <<>>]
    BY <1>3 DEF PackagerRestarts
  <2>2. server'.list = <<>> /\ server'.made = server.made /\ server'.reset = TRUE
    BY <2>1, <1>1 DEF Servers
  <2>3. SnapshotInv'
    <3>1. DOMAIN <<>> = {}
      BY EmptySeq
    <3> QED
      BY <3>1, <2>2, <1>1 DEF SnapshotInv
  <2>4. hls.reset = FALSE
    BY <2>1, <1>1 DEF SnapshotInv
  <2>5. NumberingInv'
    BY <2>2, <2>4, <1>1 DEF NumberingInv
  <2> QED
    BY <2>3, <2>5, <1>2 DEF OrderInv
<1>4. CASE BroadcastEnds
  <2>1. server' = [server EXCEPT !.ended = TRUE]
    BY <1>4 DEF BroadcastEnds
  <2>2. /\ server'.list = server.list /\ server'.made = server.made /\ server'.seq = server.seq
        /\ server'.reset = server.reset
    BY <2>1, <1>1 DEF Servers
  <2>3. SnapshotInv' /\ NumberingInv'
    BY <2>2, <1>1 DEF SnapshotInv, NumberingInv
  <2> QED
    BY <2>3, <1>2 DEF OrderInv
<1> QED
  BY <1>3, <1>4

\* A segment is fetched that is newer than everything fetched before.
LEMMA FetchSegmentOrder ==
  ASSUME MediaInv, OrderInv, FetchSegment
  PROVE  OrderInv'
<1> DEFINE f == hls.fetched
           k == Segment.k
           g == Append(f, k)
<1>1. /\ hls # None /\ hls.i <= Len(hls.segments) /\ WalkInv /\ hls' # None
      /\ hls'.fetched = g
      /\ hls'.seen = hls.seen /\ hls'.lastSeq = hls.lastSeq /\ hls'.started = hls.started
      /\ hls'.segments = hls.segments /\ hls'.i = hls.i /\ hls'.skip = hls.skip
      /\ hls'.first = hls.first /\ hls'.reset = hls.reset
      /\ server' = server
  BY FetchSegmentWalk DEF MediaInv, FetchSegment
<1>2. pc = "walk" /\ pc' = "segment" /\ k \notin Range(hls.seen)
  BY DEF FetchSegment, Walking, Known
<1>3. SnapshotInv /\ SeenInv /\ FetchedInv /\ NumberingInv
  BY <1>1 DEF OrderInv
<1>4. /\ k \in Nat /\ f \in Seq(Nat) /\ hls.i \in DOMAIN hls.segments /\ hls.seen \in Seq(Nat)
      /\ k = hls.segments[hls.i].k
  BY <1>1, WalkFields, SegmentFields DEF Segment
<1>5. \A a \in DOMAIN hls.seen : hls.seen[a] < k
  BY <1>2, <1>3, <1>4 DEF SeenInv
<1> HIDE DEF k
<1>6. /\ Len(g) = Len(f) + 1 /\ Len(f) \in Nat /\ DOMAIN f = 1..Len(f) /\ DOMAIN g = 1..Len(g)
      /\ \A a \in 1..Len(f) : g[a] = f[a] /\ f[a] \in Nat
      /\ g[Len(f) + 1] = k /\ g # <<>>
  <2>1. /\ g \in Seq(Nat) /\ Len(g) = Len(f) + 1
        /\ \A a \in 1..Len(f) : g[a] = f[a]
        /\ g[Len(f) + 1] = k
    BY <1>4, AppendProperties
  <2>2. \A a \in 1..Len(f) : f[a] \in Nat
    BY <1>4, ElementOfSeq
  <2> QED
    BY <2>1, <2>2, <1>4, LenProperties, EmptySeq
<1> HIDE DEF f, g
<1>7. \A a \in 1..Len(f) : f[a] < k /\ \E b \in DOMAIN hls.seen : f[a] <= hls.seen[b]
  <2> SUFFICES ASSUME NEW a \in 1..Len(f)
               PROVE  f[a] < k /\ \E b \in DOMAIN hls.seen : f[a] <= hls.seen[b]
    OBVIOUS
  <2>1. PICK b \in DOMAIN hls.seen : f[a] <= hls.seen[b]
    BY <1>2, <1>3, <1>6 DEF FetchedInv, f
  <2>2. hls.seen[b] < k /\ hls.seen[b] \in Nat
    BY <1>4, <1>5, LenProperties, ElementOfSeq
  <2>3. \A x, y, z \in Int : x <= y /\ y < z => x < z
    OBVIOUS
  <2>4. f[a] \in Int /\ hls.seen[b] \in Int /\ k \in Int
    BY <2>2, <1>4, <1>6
  <2>5. f[a] < k
    BY <2>1, <2>2, <2>3, <2>4, Zenon
  <2> QED
    BY <2>1, <2>5
<1>8. SnapshotInv' /\ SeenInv'
  BY <1>1, <1>3 DEF SnapshotInv, SeenInv
<1>9. FetchedInv'
  <2>1. ASSUME NEW a \in DOMAIN g, NEW b \in DOMAIN g, a < b
        PROVE  g[a] < g[b]
    <3>1. a \in 1..Len(f) /\ g[a] = f[a]
      BY <2>1, <1>6
    <3>2. CASE b = Len(f) + 1
      BY <3>1, <3>2, <1>6, <1>7
    <3>3. CASE b \in 1..Len(f)
      <4>1. f[a] < f[b]
        BY <2>1, <3>1, <3>3, <1>3, <1>6 DEF FetchedInv, f
      <4> QED
        BY <3>1, <3>3, <4>1, <1>6
    <3> QED
      BY <3>2, <3>3, <1>6
  <2>2. ASSUME NEW a \in DOMAIN g
        PROVE  a = Len(g) \/ \E b \in DOMAIN hls.seen : g[a] <= hls.seen[b]
    <3>1. a = Len(g) \/ a \in 1..Len(f)
      BY <1>6
    <3> QED
      BY <3>1, <1>6, <1>7
  <2>3. g[Len(g)] = k
    BY <1>6
  <2>4. (Segment.k)' = k
    BY <1>1 DEF Segment, k
  <2> QED
    BY <2>1, <2>2, <2>3, <2>4, <1>1, <1>2, <1>6 DEF FetchedInv
<1>10. NumberingInv'
  <2>1. Range(f) \subseteq Range(g)
    BY <1>6 DEF Range
  <2>2. hls.reset = server.reset =>
          \A j \in Range(hls.seen) : j >= hls.first => j \in Range(g)
    BY <2>1, <1>3 DEF NumberingInv, f
  <2> QED
    BY <2>2, <1>1, <1>3 DEF NumberingInv
<1> QED
  BY <1>8, <1>9, <1>10 DEF OrderInv


\* A new playlist: a segment of it that is not newer than the old playlist was in
\* the old one, so that it is in the list of segments seen or newer than it.
LEMMA LoadPlaylistOrder ==
  ASSUME MediaInv, OrderInv, LoadPlaylist
  PROVE  OrderInv'
<1> DEFINE segs == hls.segments
           seen == hls.seen
           list == server.list
           m == server.made
           n == Len(list)
<1>1. /\ hls # None /\ pc = "playlist" /\ pc' = "walk" /\ WalkInv /\ hls' # None
      /\ list # <<>> /\ list \in Seq(Segments)
      /\ hls'.started = TRUE /\ hls'.segments = list /\ hls'.i = 1
      /\ hls'.skip = StartIdx(list, server.ended)
      /\ hls'.first = IF hls.started THEN hls.first
                      ELSE list[IF server.ended THEN 1 ELSE Len(list)].k
      /\ hls'.seen = seen /\ hls'.lastSeq = hls.lastSeq /\ hls'.fetched = hls.fetched
      /\ hls'.reset = hls.reset /\ server' = server /\ ServerInv
  BY LoadPlaylistWalk DEF MediaInv, LoadPlaylist
<1>2. SnapshotInv /\ SeenInv /\ FetchedInv /\ NumberingInv
  BY <1>1 DEF OrderInv
<1>3. /\ n \in Nat /\ n > 0 /\ n <= Window /\ DOMAIN list = 1..n /\ m \in Nat /\ server.seq \in Nat
      /\ server.ended \in BOOLEAN
  BY <1>1, EmptySeq, LenProperties DEF ServerInv, Servers
<1>4. \A j \in 1..n : /\ list[j].k = (m - n) + j /\ list[j].seq + 1 = (server.seq - n) + j
                      /\ list[j] \in Segments /\ list[j].k \in Nat /\ list[j].seq \in Nat
  <2>1. \A j \in 1..n : list[j] \in Segments
    BY <1>1, ElementOfSeq
  <2> QED
    BY <2>1, <1>1, <1>3 DEF ServerInv, Segments
<1>5. /\ segs \in Seq(Segments) /\ Len(segs) \in Nat /\ DOMAIN segs = 1..Len(segs)
      /\ \A j \in 1..Len(segs) : segs[j].k \in Nat
      /\ seen \in Seq(Nat) /\ DOMAIN seen = 1..Len(seen) /\ \A a \in DOMAIN seen : seen[a] \in Nat
  <2>1. segs \in Seq(Segments) /\ seen \in Seq(Nat)
    BY <1>1, WalkFields
  <2>2. \A j \in 1..Len(segs) : segs[j] \in Segments
    BY <2>1, ElementOfSeq
  <2>3. \A a \in 1..Len(seen) : seen[a] \in Nat
    BY <2>1, ElementOfSeq
  <2> QED
    BY <2>1, <2>2, <2>3, LenProperties DEF Segments
<1>6. ASSUME NEW j \in 1..n
      PROVE  list[j].k = list[1].k + j - 1 /\ list[j].k <= m /\ list[1].k <= list[j].k
  <2>1. PICK x \in Int, y \in Int : x = m - n /\ y = j
    BY <1>3
  <2>2. list[j].k = x + y /\ list[1].k = x + 1 /\ y >= 1 /\ x + y <= m
    BY <2>1, <1>3, <1>4
  <2>3. x + y = (x + 1) + (y - 1) /\ x + 1 <= x + y
    BY <2>2
  <2> QED
    BY <2>1, <2>2, <2>3
<1>7. list[n].k = m
  <2>1. n \in 1..n
    BY <1>3
  <2>2. list[n].k = (m - n) + n
    BY <2>1, <1>4
  <2>3. PICK x \in Int, y \in Int : x = m /\ y = n
    BY <1>3
  <2>4. (x - y) + y = x
    OBVIOUS
  <2> QED
    BY <2>2, <2>3, <2>4
<1>8. SnapshotInv'
  <2>1. ASSUME NEW j \in 1..n, j <= hls'.skip
        PROVE  list[j].k < hls'.first
    <3>1. ~hls.started /\ ~server.ended /\ hls'.skip = n - 1
      BY <2>1, <1>1 DEF StartIdx
    <3>2. hls'.first = list[n].k
      BY <3>1, <1>1
    <3>3. list[j].k = (m - n) + j /\ j <= n - 1 /\ j \in Int
      BY <2>1, <3>1, <1>4
    <3> QED
      BY <3>2, <3>3, <1>3, <1>7
  <2>2. hls.reset => server.reset
    BY <1>2 DEF SnapshotInv
  <2> HIDE DEF list, n, m
  <2>3. SnapshotInv'
    BY <2>1, <2>2, <1>1, <1>3, <1>6 DEF SnapshotInv, list, n, m
  <2> QED
    BY <2>3
<1>9. SeenInv'
  <2>1. Gaps(seen)
    BY <1>2 DEF SeenInv, Gaps
  <2>2. ASSUME seen # <<>>
        PROVE  /\ segs # <<>> /\ Len(segs) \in DOMAIN segs /\ 1 \in DOMAIN segs
               /\ \A a \in DOMAIN seen : seen[a] <= segs[Len(segs)].k
    BY <2>2, <1>2, <1>5, EmptySeq DEF SeenInv
  <2>3. ASSUME NEW a \in DOMAIN seen
        PROVE  seen[a] <= list[n].k
    <3>1. seen # <<>>
      BY <2>3, EmptySeq
    <3>2. seen[a] <= segs[Len(segs)].k /\ segs[Len(segs)].k <= m
      <4>1. \A j \in DOMAIN segs : segs[j].k <= m
        BY <1>2 DEF SnapshotInv
      <4> QED
        BY <2>2, <3>1, <4>1, Zenon
    <3>3. PICK x \in Int : x = segs[Len(segs)].k
      BY <2>2, <3>1, <1>5
    <3>4. PICK y \in Int : y = seen[a]
      BY <2>3, <1>5
    <3>5. PICK z \in Int : z = m
      BY <1>3
    <3>6. y <= z
      BY <3>2, <3>3, <3>4, <3>5
    <3> QED
      BY <3>4, <3>5, <3>6, <1>7
  <2>4. ASSUME NEW j \in 1..n, list[j].k \notin Range(seen), NEW a \in DOMAIN seen
        PROVE  seen[a] < list[j].k
    <3>1. seen # <<>>
      BY <2>4, EmptySeq
    <3>2. segs[1].k <= list[j].k
      BY <3>1, <2>2, <1>2, <1>3 DEF SnapshotInv
    <3>3. list[j].k \in Nat /\ segs[1].k \in Nat /\ segs[Len(segs)].k \in Nat
      BY <3>1, <2>2, <1>4, <1>5
    <3>4. CASE list[j].k > segs[Len(segs)].k
      <4>1. seen[a] <= segs[Len(segs)].k
        BY <3>1, <2>2
      <4>2. \A x, y, z \in Int : x <= y /\ z > y => x < z
        OBVIOUS
      <4>3. seen[a] \in Int /\ list[j].k \in Int /\ segs[Len(segs)].k \in Int
        <5>1. seen[a] \in Int
          BY <2>4, <1>5
        <5> QED
          BY <3>3, <5>1
      <4> QED
        BY <4>1, <4>2, <4>3, <3>4, Zenon
    <3>5. CASE list[j].k <= segs[Len(segs)].k
      <4>1. segs[Len(segs)].k = segs[1].k + (Len(segs) - 1)
        BY <3>1, <2>2, <1>2 DEF SnapshotInv
      <4>2. PICK p \in Nat, q \in Nat, l \in Nat :
              p = list[j].k /\ q = segs[1].k /\ l = Len(segs)
        BY <3>3, <1>5
      <4>3. p - q + 1 \in 1..Len(segs)
        <5>1. q <= p /\ p <= q + (l - 1)
          BY <4>1, <4>2, <3>2, <3>5
        <5>2. p - q + 1 \in 1..l
          BY <5>1
        <5> QED
          BY <5>2, <4>2
      <4>4. PICK b \in DOMAIN segs : b = p - q + 1
        BY <4>3, <1>5
      <4>5. segs[b].k = segs[1].k + (b - 1)
        BY <1>2 DEF SnapshotInv
      <4>6. q + (b - 1) = p
        BY <4>4
      <4>7. segs[b].k = list[j].k
        BY <4>2, <4>5, <4>6
      <4> QED
        BY <4>7, <2>4, <1>2 DEF SeenInv
    <3> QED
      BY <3>3, <3>4, <3>5
  <2>5. \A j \in DOMAIN list : list[j].k \in Range(seen)
                               \/ (j >= 1 /\ \A a \in DOMAIN seen : seen[a] < list[j].k)
    BY <2>4, <1>3
  <2>6. list[Len(list)].k = list[n].k
    OBVIOUS
  <2> QED
    BY <2>1, <2>3, <2>5, <2>6, <1>1 DEF SeenInv, Gaps
<1>10. FetchedInv'
  BY <1>1, <1>2 DEF FetchedInv
<1>11. NumberingInv'
  <2> SUFFICES ASSUME hls.reset = server.reset
               PROVE  /\ \A j \in DOMAIN list : list[j].seq + 1 + m = list[j].k + server.seq
                      /\ IF seen = <<>> THEN hls.lastSeq = -1
                         ELSE hls.lastSeq + 1 + m = seen[Len(seen)] + server.seq
                      /\ \A k \in Range(seen) : k >= hls'.first => k \in Range(hls.fetched)
    BY <1>1 DEF NumberingInv
  <2>1. ASSUME NEW j \in DOMAIN list
        PROVE  list[j].seq + 1 + m = list[j].k + server.seq
    <3>1. j \in 1..n
      BY <1>3
    <3>2. PICK x \in Int, y \in Int, s \in Int, a \in Int, b \in Int :
            x = list[j].k /\ y = list[j].seq /\ s = server.seq /\ a = m /\ b = j - n
      <4>1. list[j].k \in Int /\ list[j].seq \in Int
        BY <3>1, <1>4
      <4>2. server.seq \in Int /\ m \in Int /\ j - n \in Int
        BY <3>1, <1>3
      <4> QED
        BY <4>1, <4>2
    <3>3. x = a + b /\ y + 1 = s + b
      <4>1. list[j].k = (m - n) + j /\ list[j].seq + 1 = (server.seq - n) + j
        BY <3>1, <1>4
      <4>2. PICK c \in Int, d \in Int : c = n /\ d = j
        BY <3>1, <1>3
      <4>3. x = (a - c) + d /\ y + 1 = (s - c) + d /\ b = d - c
        BY <4>1, <4>2, <3>2
      <4> QED
        BY <4>3
    <3>4. y + 1 + a = x + s
      BY <3>3
    <3> QED
      BY <3>2, <3>4
  <2>2. ASSUME NEW k \in Range(seen), k >= hls'.first
        PROVE  k \in Range(hls.fetched)
    <3>1. seen # <<>>
      BY EmptySeq DEF Range
    <3>2. hls.started
      BY <3>1, <1>2 DEF SeenInv, SnapshotInv
    <3> QED
      BY <2>2, <3>2, <1>1, <1>2 DEF NumberingInv
  <2> QED
    BY <2>1, <2>2, <1>2 DEF NumberingInv
<1> QED
  BY <1>8, <1>9, <1>10, <1>11 DEF OrderInv


\* While the numbering lasts, the number of a segment tells what the list of
\* segments seen tells.
LEMMA NumbersTell ==
  ASSUME MediaInv, OrderInv, hls # None, hls.i <= Len(hls.segments), hls.reset = server.reset
  PROVE  IF Segment.k \in Range(hls.seen) THEN Segment.seq <= hls.lastSeq
         ELSE hls.lastSeq < Segment.seq
<1> DEFINE seen == hls.seen
           last == Len(seen)
<1>1. SeenInv /\ NumberingInv /\ WalkInv /\ ServerInv
  BY DEF OrderInv, MediaInv
<1>2. /\ Segment.k \in Nat /\ Segment.seq \in Nat /\ hls.i \in DOMAIN hls.segments
      /\ Segment = hls.segments[hls.i]
  BY <1>1, SegmentFields DEF Segment
<1>3. seen \in Seq(Nat) /\ hls.lastSeq \in Int /\ server.made \in Nat /\ server.seq \in Nat
  BY <1>1, WalkFields DEF ServerInv, Servers
<1>4. Segment.seq + 1 + server.made = Segment.k + server.seq
  BY <1>1, <1>2 DEF NumberingInv
<1>5. last \in Nat /\ DOMAIN seen = 1..last /\ (seen # <<>> => last > 0)
      /\ \A a \in 1..last : seen[a] \in Nat
  <2>1. \A a \in 1..last : seen[a] \in Nat
    BY <1>3, ElementOfSeq
  <2> QED
    BY <2>1, <1>3, LenProperties, EmptySeq
<1>6. CASE seen = <<>>
  <2>1. hls.lastSeq = -1 /\ Range(seen) = {}
    BY <1>1, <1>6, EmptySeq DEF NumberingInv, Range
  <2> QED
    BY <2>1, <1>2
<1>7. CASE seen # <<>>
  <2>1. hls.lastSeq + 1 + server.made = seen[last] + server.seq /\ last \in DOMAIN seen
    BY <1>1, <1>5, <1>7 DEF NumberingInv
  <2>2. PICK x \in Int, y \in Int, k \in Int, t \in Int, a \in Int, b \in Int :
          /\ x = hls.lastSeq /\ y = Segment.seq /\ k = Segment.k /\ t = seen[last]
          /\ a = server.made /\ b = server.seq
    <3>1. seen[last] \in Int
      BY <2>1, <1>5
    <3>2. /\ hls.lastSeq \in Int /\ Segment.seq \in Int /\ Segment.k \in Int
          /\ server.made \in Int /\ server.seq \in Int
      BY <1>2, <1>3
    <3> HIDE DEF seen, last
    <3> QED
      BY <3>1, <3>2
  <2>3. x + 1 + a = t + b /\ y + 1 + a = k + b
    BY <2>1, <2>2, <1>4
  <2>4. CASE Segment.k \in Range(seen)
    <3>1. PICK c \in 1..last : seen[c] = Segment.k
      BY <2>4, <1>5 DEF Range
    <3>2. k <= t
      <4>1. CASE c = last
        BY <4>1, <3>1, <2>2
      <4>2. CASE c < last
        <5>1. seen[last] - seen[c] >= last - c
          BY <4>2, <3>1, <2>1, <1>1, <1>5 DEF SeenInv
        <5>2. t - k >= last - c
          BY <5>1, <3>1, <2>2
        <5>3. last - c > 0 /\ last - c \in Int
          BY <4>2, <1>5
        <5> HIDE DEF last
        <5> QED
          BY <5>2, <5>3
      <4> QED
        BY <4>1, <4>2, <1>5
    <3>3. y <= x
      BY <3>2, <2>3
    <3> QED
      BY <3>3, <2>2, <2>4
  <2>5. CASE Segment.k \notin Range(seen)
    <3>1. seen[last] < Segment.k
      BY <2>1, <2>5, <1>1, <1>2 DEF SeenInv
    <3>2. t < k
      BY <3>1, <2>2
    <3>3. x < y
      BY <3>2, <2>3
    <3> QED
      BY <3>3, <2>2, <2>5
  <2> QED
    BY <2>4, <2>5
<1> QED
  BY <1>6, <1>7

\* The walk passes a segment.
LEMMA StepOrder ==
  ASSUME Window <= MaxSeen, MediaInv, OrderInv, hls # None, hls.i <= Len(hls.segments),
         NEW n \in Int, UNCHANGED server, pc' = "walk",
         hls' = [hls EXCEPT !.i = @ + 1, !.seen = SeenAdd(@, Segment.k), !.lastSeq = n],
         hls.reset = server.reset =>
           IF Segment.k \in Range(hls.seen) THEN n = hls.lastSeq
           ELSE n = Segment.seq /\ (Segment.k >= hls.first => Segment.k \in Range(hls.fetched))
  PROVE  OrderInv'
<1> DEFINE segs == hls.segments
           seen == hls.seen
           k == Segment.k
           new == SeenAdd(seen, k)
<1>1. /\ hls' # None /\ hls'.i = hls.i + 1 /\ hls'.seen = new /\ hls'.lastSeq = n
      /\ hls'.started = hls.started /\ hls'.segments = segs /\ hls'.skip = hls.skip
      /\ hls'.first = hls.first /\ hls'.fetched = hls.fetched /\ hls'.reset = hls.reset
  BY StepWalk DEF MediaInv
<1>2. SnapshotInv /\ SeenInv /\ FetchedInv /\ NumberingInv /\ WalkInv
  BY DEF OrderInv, MediaInv
<1>3. /\ hls.i \in 1..Len(segs) /\ k \in Nat /\ k = segs[hls.i].k /\ segs \in Seq(Segments)
      /\ seen \in Seq(Nat) /\ Len(seen) <= MaxSeen
  BY <1>2, WalkFields, SegmentFields DEF Segment
<1>4. segs # <<>> /\ Len(segs) <= Window /\ \A j \in DOMAIN segs : segs[j].k = segs[1].k + j - 1
  BY <1>2, <1>3, EmptySeq DEF SnapshotInv
<1>5. /\ Gaps(seen) /\ Covers(seen, segs, hls.i)
      /\ \A a \in DOMAIN seen : seen[a] <= segs[Len(segs)].k
  <2>1. \A a \in DOMAIN seen : seen # <<>>
    BY EmptySeq
  <2> QED
    BY <2>1, <1>2 DEF SeenInv, Gaps, Covers
<1> HIDE DEF k, seen, segs
<1>6. /\ Gaps(new) /\ Covers(new, segs, hls.i + 1)
      /\ \A a \in DOMAIN new : new[a] <= segs[Len(segs)].k
      /\ k \in Range(new)
      /\ \A b \in DOMAIN seen : \E c \in DOMAIN new : seen[b] <= new[c]
      /\ k \notin Range(seen) =>
           /\ \A a \in DOMAIN seen : seen[a] < k
           /\ new[Len(new)] = k
           /\ new # <<>>
           /\ Range(new) \subseteq Range(seen) \cup {k}
  <2> DEFINE i == hls.i
  <2>1. /\ segs \in Seq(Segments) /\ seen \in Seq(Nat) /\ i \in 1..Len(segs) /\ k \in Nat
        /\ k = segs[i].k /\ Covers(seen, segs, i)
    BY <1>3, <1>5
  <2> HIDE DEF i
  <2>2. /\ Gaps(new) /\ Covers(new, segs, i + 1)
        /\ \A a \in DOMAIN new : new[a] <= segs[Len(segs)].k
        /\ k \in Range(new)
        /\ \A b \in DOMAIN seen : \E c \in DOMAIN new : seen[b] <= new[c]
        /\ k \notin Range(seen) =>
             /\ \A a \in DOMAIN seen : seen[a] < k
             /\ new[Len(new)] = k
             /\ new # <<>>
             /\ Range(new) \subseteq Range(seen) \cup {k}
    BY <2>1, <1>3, <1>4, <1>5, SeenAddCovers, Zenon
  <2> QED
    BY <2>2 DEF i
<1>7. k \in Range(seen) => new = seen
  BY DEF SeenAdd
<1> HIDE DEF new
<1>8. SnapshotInv'
  BY <1>1, <1>2 DEF SnapshotInv, segs
<1>9. SeenInv'
  BY <1>1, <1>4, <1>6 DEF SeenInv, Gaps, Covers
<1>10. FetchedInv'
  <2>1. ASSUME NEW a \in DOMAIN hls.fetched
        PROVE  \E c \in DOMAIN new : hls.fetched[a] <= new[c]
    <3>1. CASE pc = "segment" /\ a = Len(hls.fetched)
      <4>1. hls.fetched[a] = k
        BY <3>1, <1>2 DEF FetchedInv, k
      <4>2. PICK c \in DOMAIN new : new[c] = k
        BY <1>6 DEF Range
      <4> QED
        BY <4>1, <4>2, <1>3
    <3>2. CASE ~(pc = "segment" /\ a = Len(hls.fetched))
      <4>1. PICK b \in DOMAIN seen : hls.fetched[a] <= seen[b]
        BY <3>2, <1>2 DEF FetchedInv, seen
      <4>2. PICK c \in DOMAIN new : seen[b] <= new[c]
        BY <1>6
      <4>3. hls.fetched[a] \in Int /\ seen[b] \in Int /\ new[c] \in Int
        <5>1. hls.fetched \in Seq(Nat) /\ new \in Seq(Nat)
          BY <1>2, <1>3, WalkFields, SeenAddLimit DEF new
        <5>2. hls.fetched[a] \in Nat
          BY <5>1, ElementOfSeq, LenProperties
        <5>3. seen[b] \in Nat
          BY <1>3, <4>1, ElementOfSeq, LenProperties
        <5>4. new[c] \in Nat
          BY <5>1, <4>2, ElementOfSeq, LenProperties
        <5> QED
          BY <5>2, <5>3, <5>4
      <4>4. \A x, y, z \in Int : x <= y /\ y <= z => x <= z
        OBVIOUS
      <4> QED
        BY <4>1, <4>2, <4>3, <4>4, Zenon
    <3> QED
      BY <3>1, <3>2
  <2> QED
    BY <2>1, <1>1, <1>2 DEF FetchedInv
<1>11. NumberingInv'
  <2> SUFFICES ASSUME hls.reset = server.reset
               PROVE  /\ \A j \in DOMAIN segs :
                           segs[j].seq + 1 + server.made = segs[j].k + server.seq
                      /\ IF new = <<>> THEN n = -1
                         ELSE n + 1 + server.made = new[Len(new)] + server.seq
                      /\ \A x \in Range(new) : x >= hls.first => x \in Range(hls.fetched)
    BY <1>1 DEF NumberingInv
  <2>1. \A j \in DOMAIN segs : segs[j].seq + 1 + server.made = segs[j].k + server.seq
    BY <1>2 DEF NumberingInv, segs
  <2>2. CASE k \in Range(seen)
    <3>1. new = seen /\ n = hls.lastSeq
      BY <2>2, <1>7 DEF k, seen
    <3> QED
      BY <3>1, <2>1, <1>2 DEF NumberingInv, seen
  <2>3. CASE k \notin Range(seen)
    <3>1. n = Segment.seq /\ (k >= hls.first => k \in Range(hls.fetched))
      BY <2>3 DEF k, seen
    <3>2. new # <<>> /\ new[Len(new)] = k
      BY <2>3, <1>6
    <3>3. Segment.seq + 1 + server.made = k + server.seq
      <4>1. hls.i \in DOMAIN segs /\ Segment = segs[hls.i]
        BY <1>3, LenProperties DEF Segment, segs
      <4> QED
        BY <4>1, <2>1 DEF k
    <3>4. \A x \in Range(new) : x >= hls.first => x \in Range(hls.fetched)
      <4>1. \A x \in Range(seen) : x >= hls.first => x \in Range(hls.fetched)
        BY <1>2 DEF NumberingInv, seen
      <4> QED
        BY <4>1, <3>1, <2>3, <1>6
    <3> QED
      BY <2>1, <3>1, <3>2, <3>3, <3>4
  <2> QED
    BY <2>2, <2>3
<1> QED
  BY <1>8, <1>9, <1>10, <1>11 DEF OrderInv


LEMMA MarkSegmentOrder ==
  ASSUME Window <= MaxSeen, MediaInv, OrderInv, MarkSegment
  PROVE  OrderInv'
<1> DEFINE n == MaxOf(hls.lastSeq, Segment.seq)
<1>1. /\ hls # None /\ hls.i <= Len(hls.segments) /\ n \in Int
      /\ hls' = [hls EXCEPT !.i = @ + 1, !.seen = SeenAdd(@, Segment.k), !.lastSeq = n]
      /\ pc' = "walk" /\ server' = server /\ WalkInv
  BY MarkSegmentWalk DEF MediaInv, MarkSegment
<1>2. hls.i \in DOMAIN hls.segments /\ Segment.k \in Nat /\ Segment.seq \in Nat
      /\ hls.lastSeq \in Int /\ hls.first \in Nat
  BY <1>1, SegmentFields, WalkFields
<1>3. Segment.k < hls.first
  <2>1. hls.i <= hls.skip
    BY DEF MarkSegment, Marking
  <2> QED
    BY <2>1, <1>1, <1>2 DEF OrderInv, SnapshotInv, Segment
<1>4. hls.reset = server.reset =>
        IF Segment.k \in Range(hls.seen) THEN n = hls.lastSeq
        ELSE n = Segment.seq /\ (Segment.k >= hls.first => Segment.k \in Range(hls.fetched))
  <2> SUFFICES ASSUME hls.reset = server.reset
               PROVE  IF Segment.k \in Range(hls.seen) THEN n = hls.lastSeq
                      ELSE n = Segment.seq /\ ~(Segment.k >= hls.first)
    OBVIOUS
  <2>1. IF Segment.k \in Range(hls.seen) THEN Segment.seq <= hls.lastSeq
        ELSE hls.lastSeq < Segment.seq
    BY <1>1, NumbersTell
  <2> QED
    BY <2>1, <1>2, <1>3 DEF MaxOf
<1> HIDE DEF n
<1> QED
  BY <1>1, <1>4, StepOrder

LEMMA SegmentDoneOrder ==
  ASSUME Window <= MaxSeen, MediaInv, OrderInv, SegmentDone
  PROVE  OrderInv'
<1> DEFINE n == MaxOf(hls.lastSeq, Segment.seq)
<1>1. /\ hls # None /\ hls.i <= Len(hls.segments) /\ n \in Int
      /\ hls' = [hls EXCEPT !.i = @ + 1, !.seen = SeenAdd(@, Segment.k), !.lastSeq = n]
      /\ pc' = "walk" /\ server' = server /\ WalkInv /\ pc = "segment"
  BY SegmentDoneWalk DEF MediaInv, SegmentDone
<1>2. Segment.seq \in Nat /\ hls.lastSeq \in Int /\ hls.fetched \in Seq(Nat)
  BY <1>1, SegmentFields, WalkFields
<1>3. Segment.k \notin Range(hls.seen) /\ Segment.k \in Range(hls.fetched)
  <2>1. /\ hls.fetched # <<>> /\ hls.fetched[Len(hls.fetched)] = Segment.k
        /\ Segment.k \notin Range(hls.seen)
    BY <1>1 DEF OrderInv, FetchedInv
  <2>2. Len(hls.fetched) \in DOMAIN hls.fetched
    BY <2>1, <1>2, LenProperties, EmptySeq
  <2> QED
    BY <2>1, <2>2 DEF Range
<1>4. hls.reset = server.reset => n = Segment.seq
  <2> SUFFICES ASSUME hls.reset = server.reset PROVE n = Segment.seq
    OBVIOUS
  <2>1. hls.lastSeq < Segment.seq
    BY <1>1, <1>3, NumbersTell
  <2> QED
    BY <2>1, <1>2 DEF MaxOf
<1> HIDE DEF n
<1> QED
  BY <1>1, <1>3, <1>4, StepOrder

\* Only a segment in the list is passed over while the numbering lasts.
LEMMA SkipSegmentOrder ==
  ASSUME Window <= MaxSeen, MediaInv, OrderInv, SkipSegment
  PROVE  OrderInv'
<1>1. /\ hls # None /\ hls.i <= Len(hls.segments) /\ hls.lastSeq \in Int
      /\ hls' = [hls EXCEPT !.i = @ + 1, !.seen = SeenAdd(@, Segment.k), !.lastSeq = hls.lastSeq]
      /\ pc' = "walk" /\ server' = server /\ WalkInv
  BY SkipSegmentWalk DEF MediaInv, SkipSegment
<1>2. hls.reset = server.reset => Segment.k \in Range(hls.seen)
  <2> SUFFICES ASSUME hls.reset = server.reset, Segment.k \notin Range(hls.seen)
               PROVE  FALSE
    OBVIOUS
  <2>1. hls.lastSeq < Segment.seq
    BY <1>1, NumbersTell
  <2>2. Segment.seq <= hls.lastSeq
    BY DEF SkipSegment, Known
  <2> QED
    BY <2>1, <2>2, <1>1, SegmentFields
<1> QED
  BY <1>1, <1>2, StepOrder

LEMMA OrderStep ==
  ASSUME Window <= MaxSeen, MediaInv, OrderInv, [Next]_vars
  PROVE  OrderInv'
<1>1. CASE hls = None
  <2>1. CASE StartAttempt
    BY <2>1, StartAttemptOrder
  <2>2. pc \notin {"playlist", "walk", "segment"}
    BY <1>1 DEF MediaInv, WalkInv
  <2>3. CASE MarkReady
    BY <2>2, <2>3, <1>1 DEF MarkReady, OrderInv
  <2>4. CASE ~StartAttempt /\ ~MarkReady
    <3>1. hls' = None
      BY <1>1, <2>2, <2>4 DEF Next, vars, AddViewer, ReadItem, RemoveViewer, CallCancel, AttemptEnds,
         SessionStops, LoadEnded, PlaylistEnds, Stop, CopyReads, Broadcast, Produce,
         PackagerRestarts, BroadcastEnds, LoadPlaylist, MarkSegment, SkipSegment, FetchSegment,
         SegmentDone, ReloadPlaylist, Marking, Walking, Walked
    <3> QED
      BY <3>1 DEF OrderInv
  <2> QED
    BY <2>1, <2>3, <2>4
<1>2. CASE hls # None
  <2>1. CASE UNCHANGED <<hls, server, pc>>
    BY <2>1, <1>2, OrderFrame DEF SameWalk
  <2>2. CASE hls' = None
    BY <2>2 DEF OrderInv
  <2>3. CASE MarkReady
    <3>1. SameWalk /\ UNCHANGED <<server, pc>>
      BY <2>3, <1>2, MarkReadyWalk DEF MediaInv, SameWalk, MarkReady
    <3> QED
      BY <3>1, <1>2, OrderFrame
  <2>4. CASE ReloadPlaylist
    <3>1. SameWalk /\ server' = server /\ pc = "walk" /\ pc' = "playlist"
      BY <2>4 DEF ReloadPlaylist, Walked, SameWalk
    <3> QED
      BY <3>1, <1>2, OrderFrame
  <2>5. CASE Produce
    BY <2>5, <1>2, ProduceOrder
  <2>6. CASE PackagerRestarts \/ BroadcastEnds
    BY <2>6, <1>2, OtherServerOrder
  <2>7. CASE StartAttempt
    BY <2>7, StartAttemptOrder
  <2>8. CASE LoadPlaylist \/ FetchSegment
    BY <2>8, LoadPlaylistOrder, FetchSegmentOrder
  <2>9. CASE MarkSegment \/ SkipSegment \/ SegmentDone
    BY <2>9, MarkSegmentOrder, SkipSegmentOrder, SegmentDoneOrder
  <2>10. CASE AttemptEnds \/ SessionStops \/ LoadEnded \/ PlaylistEnds
    BY <2>2, <2>10 DEF AttemptEnds, SessionStops, LoadEnded, PlaylistEnds, Stop
  <2>11. CASE \/ UNCHANGED vars \/ CallCancel \/ Broadcast
              \/ \E v \in Viewers : AddViewer(v) \/ ReadItem(v) \/ RemoveViewer(v)
              \/ \E has, key \in BOOLEAN : CopyReads(has, key)
    BY <2>1, <2>11 DEF vars, CallCancel, Broadcast, AddViewer, ReadItem, RemoveViewer, CopyReads
  <2> QED
    BY <2>3, <2>4, <2>5, <2>6, <2>7, <2>8, <2>9, <2>10, <2>11 DEF Next
<1> QED
  BY <1>1, <1>2

(***************************************************************************)
(* Theorems about the walk.                                                *)
(***************************************************************************)
\* The playlist, the list of segments seen and the ones fetched stay in step, if
\* the upstream's playlists are no longer than maxSeenSegments.
THEOREM OrderInvariance ==
  ASSUME Window <= MaxSeen
  PROVE  Spec => []OrderInv
<1>1. Init => OrderInv
  BY DEF Init, OrderInv
<1>2. MediaInv /\ OrderInv /\ [Next]_vars => OrderInv'
  BY OrderStep
<1> QED
  BY <1>1, <1>2, MediaInvariance, PTL DEF Spec

\* pumpHLS sends no segment twice and none out of order within an attempt, through
\* reloads, forgotten entries and a restart of the numbering.
THEOREM SegmentsSentOnce ==
  ASSUME Window <= MaxSeen
  PROVE  Spec => []SegmentsOnce
<1>1. OrderInv => SegmentsOnce
  BY DEF OrderInv, FetchedInv, SegmentsOnce
<1> QED
  BY <1>1, OrderInvariance, PTL

\* A walk over a playlist leaves no segment out from the live edge on.
THEOREM SegmentsAllSent ==
  ASSUME Window <= MaxSeen
  PROVE  Spec => []NoSegmentSkipped
<1>1. MediaInv /\ OrderInv => NoSegmentSkipped
  <2> SUFFICES ASSUME MediaInv, OrderInv, Walked, hls.reset = server.reset,
                      NEW s \in Range(hls.segments), s.k >= hls.first
               PROVE  s.k \in Range(hls.fetched)
    BY DEF NoSegmentSkipped
  <2>1. hls # None /\ WalkInv
    BY DEF Walked, MediaInv, WalkInv
  <2>2. /\ hls.segments \in Seq(Segments) /\ hls.i \in Nat /\ Len(hls.segments) \in Nat
        /\ hls.i > Len(hls.segments)
    BY <2>1, WalkFields DEF Walked
  <2>3. PICK j \in DOMAIN hls.segments : hls.segments[j] = s
    BY DEF Range
  <2>4. ~(j >= hls.i)
    BY <2>2, LenProperties
  <2>5. s.k \in Range(hls.seen)
    BY <2>1, <2>3, <2>4 DEF OrderInv, SeenInv
  <2> QED
    BY <2>1, <2>5 DEF OrderInv, NumberingInv
<1> QED
  BY <1>1, MediaInvariance, OrderInvariance, PTL


=============================================================================
