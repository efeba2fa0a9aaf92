----------------------------- MODULE MediaFeed -----------------------------
(***************************************************************************)
(* The media path of one session (internal/core/stream): an attempt reads  *)
(* its upstream, a TS stream (pumpMPEGTS), ffmpeg's output (pumpTranscode) *)
(* or the segments of an HLS playlist (pumpHLS), and broadcasts what it    *)
(* read to the queues of the viewers.                                      *)
(*                                                                         *)
(* A chunk is what one Read of the upstream yields: it may hold the        *)
(* stream's tables (PAT and PMT) and a keyframe (random access indicator). *)
(* Chunks are numbered.  Which upstream an attempt uses, and whether       *)
(* another attempt follows, is SessionPump's subject; here all attempts of *)
(* a session read the same kind of upstream.                               *)
(***************************************************************************)
EXTENDS Integers, Sequences, Functions

CONSTANTS
  Viewers,
  BufferSize,    \* capacity of a viewer's queue
  MaxSeen,       \* maxSeenSegments
  Window,        \* segments the upstream's playlist holds
  MaxChunks, MaxAttempts, MaxSegments,   \* bounds on what the upstream sends
  None

ASSUME MediaFeedAssumption ==
  {BufferSize, MaxSeen, Window, MaxChunks, MaxAttempts, MaxSegments} \subseteq Nat \ {0}

VARIABLES
  kind,        \* what the attempts read: "ts", "ffmpeg" (source.Transcode), "hls"
  pc,          \* where the pump is
  attempt,     \* number of attempts so far
  cancel,      \* pumpCancel of this attempt: "armed", "taken" under s.mu, "called"
  chunk,       \* what copyMPEGTS is handing out, or None
  sent,        \* number of chunks broadcast
  tables,      \* attempt the cached PAT and PMTs were read in, 0 for none
  seenRAI, everReady,
  viewers,     \* s.viewers with their queues; None for a viewer not attached
  server,      \* the upstream's HLS playlist
  hls          \* local variables of pumpHLS

feed == <<attempt, cancel, chunk, sent, tables, seenRAI, everReady>>
vars == <<kind, pc, feed, viewers, server, hls>>

Attached == {v \in Viewers : viewers[v] # None}

(***************************************************************************)
(* Viewers.  An item of a queue is a chunk with the tables put in front of *)
(* it (startup: the attempt they are from) and whether the stream's tables *)
(* were known when it was sent; number 0 stands for tables alone.          *)
(***************************************************************************)
Item(n, startup, has, key) ==
  [n |-> n, startup |-> startup, attempt |-> attempt, tables |-> has, key |-> key,
   known |-> tables # 0]

\* What a viewer has been handed so far: its queue after what it has read.
Given(v) == viewers[v].read \o viewers[v].queue

\* Emptying s.viewers takes pumpCancel; it is called after the unlock.
TakeCancel == cancel' = IF cancel = "armed" THEN "taken" ELSE cancel

Init ==
  /\ kind \in {"ts", "ffmpeg", "hls"}
  /\ pc = "idle" /\ attempt = 0 /\ cancel = "called" /\ chunk = None /\ sent = 0
  /\ tables = 0 /\ seenRAI = FALSE /\ everReady = FALSE
  /\ viewers = [v \in Viewers |-> None]
  /\ server = [list |-> <<>>, made |-> 0, seq |-> 0, reset |-> FALSE, ended |-> FALSE]
  /\ hls = None

\* Mutant: a late joiner of a pass-through stream gets no tables.
AddViewerWithoutTables(v) ==
  LET wait == kind = "ffmpeg" /\ everReady /\ seenRAI IN
  /\ viewers[v] = None /\ pc # "stopped"
  /\ viewers' = [viewers EXCEPT ![v] = [late |-> wait, wait |-> wait, read |-> <<>>, queue |-> <<>>]]
  /\ UNCHANGED <<kind, pc, feed, server, hls>>

\* Transcoded late joiners wait for a keyframe; the others get the tables now.
AddViewer(v) ==
  LET wait == kind = "ffmpeg" /\ everReady /\ seenRAI IN
  /\ viewers[v] = None /\ pc # "stopped"
  /\ viewers' = [viewers EXCEPT ![v] =
       [late |-> wait, wait |-> wait, read |-> <<>>,
        queue |-> IF ~wait /\ tables # 0 THEN <<Item(0, tables, FALSE, FALSE)>> ELSE <<>>]]
  /\ UNCHANGED <<kind, pc, feed, server, hls>>

\* viewerReader.Read
ReadItem(v) ==
  /\ viewers[v] # None /\ viewers[v].queue # <<>>
  /\ viewers' = [viewers EXCEPT ![v] =
       [viewers[v] EXCEPT !.read = Append(@, Head(viewers[v].queue)), !.queue = Tail(@)]]
  /\ UNCHANGED <<kind, pc, feed, server, hls>>

RemoveViewer(v) ==
  /\ viewers[v] # None
  /\ viewers' = [viewers EXCEPT ![v] = None]
  /\ IF Attached = {v} THEN TakeCancel ELSE UNCHANGED cancel
  /\ UNCHANGED <<kind, pc, attempt, chunk, sent, tables, seenRAI, everReady, server, hls>>

CallCancel ==
  /\ cancel = "taken"
  /\ cancel' = "called"
  /\ UNCHANGED <<kind, pc, attempt, chunk, sent, tables, seenRAI, everReady, viewers, server, hls>>

(***************************************************************************)
(* An attempt.                                                             *)
(***************************************************************************)
\* Mutant: the tables of the last attempt are kept.
ApplyUpstreamKeepsTables == UNCHANGED <<tables, seenRAI>>

\* applyCurrentUpstreamLocked
ApplyCurrentUpstream == tables' = 0 /\ seenRAI' = FALSE

NewPlaylistWalk ==
  [seen |-> <<>>, lastSeq |-> -1, started |-> FALSE, segments |-> <<>>, ended |-> FALSE, i |-> 1,
   skip |-> 0, gotMedia |-> FALSE, first |-> 0, fetched |-> <<>>, reset |-> server.reset]

\* pumpOnce: a TS body (or ffmpeg's output), or a playlist.
StartAttempt ==
  /\ pc = "idle" /\ Attached # {} /\ attempt < MaxAttempts
  /\ attempt' = attempt + 1
  /\ ApplyCurrentUpstream
  /\ cancel' = "armed"
  /\ IF kind = "hls" THEN pc' = "playlist" /\ hls' = NewPlaylistWalk
                     ELSE pc' = "copy" /\ hls' = None
  /\ UNCHANGED <<kind, chunk, sent, everReady, viewers, server>>

\* Any error of the upstream, its end, and the attempt's context.
AttemptEnds ==
  /\ pc \in {"copy", "playlist", "walk", "segment"} /\ chunk = None
  /\ pc' = "idle" /\ hls' = None
  /\ UNCHANGED <<kind, feed, viewers, server>>

\* session.stop, also after errStreamEnded.
Stop ==
  /\ pc' = "stopped" /\ hls' = None
  /\ viewers' = [v \in Viewers |-> None]
  /\ TakeCancel
  /\ chunk' = None
  /\ UNCHANGED <<kind, attempt, sent, tables, seenRAI, everReady, server>>

\* The manager, or the session's own loop, ends it.
SessionStops == pc # "stopped" /\ Stop

\* copyMPEGTS reads a chunk and observes it (observeFramed) ...
Copying == pc = "copy" \/ (pc = "segment" /\ ~hls.gotMedia)

\* A segment is one chunk, with tables and a keyframe.
CopyReads(has, key) ==
  /\ Copying /\ chunk = None
  /\ kind = "hls" => has /\ key
  /\ Attached # {} /\ cancel # "called" /\ sent < MaxChunks
  /\ chunk' = [tables |-> has, key |-> key, out |-> FALSE]
  /\ tables' = IF has THEN attempt ELSE tables
  /\ seenRAI' = (seenRAI \/ key)
  /\ UNCHANGED <<kind, pc, attempt, cancel, sent, everReady, viewers, server, hls>>

\* ... then hands it out.  A waiting viewer starts at the keyframe, with the
\* cached tables in front; what precedes the keyframe is cut off.
Passes(v) == viewers[v].wait /\ ~chunk.key

Output(v) ==
  IF viewers[v].wait THEN Item(sent + 1, tables, FALSE, chunk.key)
  ELSE Item(sent + 1, 0, chunk.tables, chunk.key)

Full(v) == Len(viewers[v].queue) = BufferSize

\* Mutant: a slow viewer misses the chunk and stays.
HandedKeepingSlow(v) ==
  IF viewers[v] = None \/ Passes(v) \/ Full(v) THEN viewers[v]
  ELSE [viewers[v] EXCEPT !.wait = FALSE, !.queue = Append(@, Output(v))]

\* A viewer whose queue is full is dropped.
Handed(v) ==
  IF viewers[v] = None \/ Passes(v) THEN viewers[v]
  ELSE IF Full(v) THEN None
  ELSE [viewers[v] EXCEPT !.wait = FALSE, !.queue = Append(@, Output(v))]

Broadcast ==
  /\ chunk # None /\ ~chunk.out
  /\ viewers' = [v \in Viewers |-> Handed(v)]
  /\ IF \A v \in Viewers : Handed(v) = None THEN TakeCancel ELSE UNCHANGED cancel
  /\ sent' = sent + 1
  /\ chunk' = [chunk EXCEPT !.out = TRUE]
  /\ UNCHANGED <<kind, pc, attempt, tables, seenRAI, everReady, server, hls>>

MarkReady ==
  /\ chunk # None /\ chunk.out
  /\ everReady' = TRUE
  /\ chunk' = None
  /\ hls' = IF pc = "segment" THEN [hls EXCEPT !.gotMedia = TRUE] ELSE hls
  /\ UNCHANGED <<kind, pc, attempt, cancel, sent, tables, seenRAI, viewers, server>>

(***************************************************************************)
(* HLS.  A segment is its place in the broadcast, which stands for its     *)
(* URI, and its media sequence number.                                     *)
(***************************************************************************)
\* The upstream (external): a sliding window, a restart of its packager with
\* new numbers, the end of the broadcast.
Produce ==
  /\ kind = "hls" /\ server.made < MaxSegments /\ ~server.ended
  /\ LET all == Append(server.list, [k |-> server.made + 1, seq |-> server.seq])
     IN server' = [server EXCEPT !.made = @ + 1, !.seq = @ + 1,
                     !.list = IF Len(all) > Window THEN Tail(all) ELSE all]
  /\ UNCHANGED <<kind, pc, feed, viewers, hls>>

PackagerRestarts ==
  /\ kind = "hls" /\ ~server.reset /\ ~server.ended
  /\ server' = [server EXCEPT !.reset = TRUE, !.seq = 0, !.list = <<>>]
  /\ UNCHANGED <<kind, pc, feed, viewers, hls>>

BroadcastEnds ==
  /\ kind = "hls" /\ ~server.ended
  /\ server' = [server EXCEPT !.ended = TRUE]
  /\ UNCHANGED <<kind, pc, feed, viewers, hls>>

\* Mutant: nothing is forgotten.
SeenAddForever(seen, k) == IF k \in Range(seen) THEN seen ELSE Append(seen, k)

\* seenSet.add: the oldest URI is forgotten.
SeenAdd(seen, k) ==
  IF k \in Range(seen) THEN seen
  ELSE IF Len(seen) = MaxSeen THEN Append(Tail(seen), k) ELSE Append(seen, k)

MaxOf(a, b) == IF a > b THEN a ELSE b

\* Mutant: the newest segment is marked as well.
StartPastLiveEdge(segs, ended) == IF hls.started \/ ended THEN 0 ELSE Len(segs)

\* How many segments to mark as sent: the first playlist, when it is a live one,
\* is started at its newest segment.
StartIdx(segs, ended) == IF hls.started \/ ended THEN 0 ELSE Len(segs) - 1

\* An empty live playlist is loaded again later.
LoadPlaylist ==
  /\ pc = "playlist" /\ Attached # {} /\ cancel # "called" /\ server.list # <<>>
  /\ pc' = "walk"
  /\ hls' = [hls EXCEPT !.started = TRUE, !.segments = server.list, !.ended = server.ended,
               !.i = 1, !.skip = StartIdx(server.list, server.ended),
               !.first = IF hls.started THEN @
                         ELSE server.list[IF server.ended THEN 1 ELSE Len(server.list)].k]
  /\ UNCHANGED <<kind, feed, viewers, server>>

LoadEnded ==
  /\ pc = "playlist" /\ server.list = <<>> /\ server.ended /\ everReady
  /\ Attached # {} /\ Stop

Segment == hls.segments[hls.i]
Marking == pc = "walk" /\ hls.i <= hls.skip
Walking == pc = "walk" /\ hls.i > hls.skip /\ hls.i <= Len(hls.segments)
Walked == pc = "walk" /\ hls.i > Len(hls.segments)

\* The segments before the live edge count as sent.
MarkSegment ==
  /\ Marking
  /\ hls' = [hls EXCEPT !.i = @ + 1, !.seen = SeenAdd(@, Segment.k),
                        !.lastSeq = MaxOf(@, Segment.seq)]
  /\ UNCHANGED <<kind, pc, feed, viewers, server>>

\* Mutant: without the list of URIs, numbers alone tell.
KnownByNumber(seg) == hls.lastSeq >= 0 /\ seg.seq > 0 /\ seg.seq <= hls.lastSeq

Known(seg) ==
  \/ seg.k \in Range(hls.seen)
  \/ seg.seq > 0 /\ hls.lastSeq >= 0 /\ seg.seq <= hls.lastSeq

SkipSegment ==
  /\ Walking /\ Known(Segment)
  /\ hls' = [hls EXCEPT !.i = @ + 1, !.seen = SeenAdd(@, Segment.k)]
  /\ UNCHANGED <<kind, pc, feed, viewers, server>>

FetchSegment ==
  /\ Walking /\ ~Known(Segment) /\ cancel # "called"
  /\ pc' = "segment"
  /\ hls' = [hls EXCEPT !.gotMedia = FALSE, !.fetched = Append(@, Segment.k)]
  /\ UNCHANGED <<kind, feed, viewers, server>>

\* The segment is over, or copyMPEGTS left it because nobody watches.
SegmentDone ==
  /\ pc = "segment" /\ chunk = None
  /\ hls.gotMedia \/ Attached = {} \/ cancel = "called"
  /\ pc' = "walk"
  /\ hls' = [hls EXCEPT !.i = @ + 1, !.seen = SeenAdd(@, Segment.k),
                        !.lastSeq = MaxOf(@, Segment.seq)]
  /\ UNCHANGED <<kind, feed, viewers, server>>

\* After the last segment the playlist is loaded again, unless it has ended.
ReloadPlaylist ==
  /\ Walked /\ ~hls.ended
  /\ pc' = "playlist"
  /\ UNCHANGED <<kind, feed, viewers, server, hls>>

PlaylistEnds == Walked /\ hls.ended /\ everReady /\ Attached # {} /\ Stop

Next ==
  \/ \E v \in Viewers : AddViewer(v) \/ ReadItem(v) \/ RemoveViewer(v)
  \/ CallCancel \/ StartAttempt \/ AttemptEnds \/ SessionStops
  \/ \E has, key \in BOOLEAN : CopyReads(has, key)
  \/ Broadcast \/ MarkReady
  \/ Produce \/ PackagerRestarts \/ BroadcastEnds
  \/ LoadPlaylist \/ LoadEnded \/ MarkSegment \/ SkipSegment \/ FetchSegment \/ SegmentDone
  \/ ReloadPlaylist \/ PlaylistEnds

Spec == Init /\ [][Next]_vars

(***************************************************************************)
(* Properties.                                                             *)
(***************************************************************************)
\* Queues and the list of segments sent keep to their capacity, and the walk
\* stays within the playlist.
TypeOK ==
  /\ pc \in {"idle", "copy", "playlist", "walk", "segment", "stopped"}
  /\ cancel \in {"armed", "taken", "called"}
  /\ tables \in 0..attempt /\ attempt \in 0..MaxAttempts /\ sent \in 0..MaxChunks
  /\ \A v \in Attached : Len(viewers[v].queue) <= BufferSize
  /\ pc \in {"walk", "segment"} => Len(hls.seen) <= MaxSeen /\ hls.i \in 1..Len(hls.segments) + 1
  /\ pc = "segment" => hls.i <= Len(hls.segments)

\* A viewer that is served has every chunk since its first: one that cannot
\* keep up is dropped, it never misses a chunk and stays.  Tables alone are only
\* sent to one that joins.
NoHoles ==
  \A v \in Attached :
    LET g == Given(v) IN
    /\ \A i \in 2..Len(g) : g[i].n > 0 /\ (g[i - 1].n > 0 => g[i].n = g[i - 1].n + 1)
    /\ g # <<>> => g[Len(g)].n \in {0, sent}

\* A late joiner of a transcoded stream starts at a keyframe, and the tables in
\* front of it are those of the attempt the keyframe is from.
LateJoinerStartsClean ==
  \A v \in Attached : viewers[v].late /\ Given(v) # <<>> =>
    LET first == Given(v)[1] IN first.key /\ first.startup \in {0, first.attempt}

\* No viewer gets media of an attempt before that attempt's tables, once the
\* session knows them.
TablesBeforeMedia ==
  \A v \in Attached : \A i \in DOMAIN Given(v) :
    Given(v)[i].n > 0 /\ Given(v)[i].known =>
      \E j \in 1..i : \/ Given(v)[j].startup = Given(v)[i].attempt
                      \/ Given(v)[j].tables /\ Given(v)[j].attempt = Given(v)[i].attempt

\* Within an attempt HLS segments go out in order, each once.
SegmentsOnce ==
  hls # None => \A i, j \in DOMAIN hls.fetched : i < j => hls.fetched[i] < hls.fetched[j]

\* When a playlist has been walked, every segment in it from the one the attempt
\* started at has been sent, unless the numbering restarted under way.
NoSegmentSkipped ==
  Walked /\ hls.reset = server.reset =>
    \A s \in Range(hls.segments) : s.k >= hls.first => s.k \in Range(hls.fetched)

-----------------------------------------------------------------------------
(***************************************************************************)
(* The inductive invariant behind the properties.  The feed: what each     *)
(* viewer has been given so far.  The walk: how the segments of the        *)
(* playlist, the list of segments seen and the ones fetched are related.   *)
(***************************************************************************)
Items ==
  [n : Nat, startup : Nat, attempt : Nat, tables : BOOLEAN, key : BOOLEAN, known : BOOLEAN]
Queues == [late : BOOLEAN, wait : BOOLEAN, read : Seq(Items), queue : Seq(Items)]
Chunks == [tables : BOOLEAN, key : BOOLEAN, out : BOOLEAN]
Segments == [k : Nat, seq : Nat]
Servers == [list : Seq(Segments), made : Nat, seq : Nat, reset : BOOLEAN, ended : BOOLEAN]
Walks ==
  [seen : Seq(Nat), lastSeq : Int, started : BOOLEAN, segments : Seq(Segments), ended : BOOLEAN,
   i : Nat \ {0}, skip : Nat, gotMedia : BOOLEAN, first : Nat, fetched : Seq(Nat), reset : BOOLEAN]

\* None is no viewer's queue, no chunk and no walk.
ASSUME NoneAssumption == None \notin Queues /\ None \notin Chunks /\ None \notin Walks

\* The cached tables are of the attempt in progress; a chunk belongs to it.
PumpInv ==
  /\ kind \in {"ts", "ffmpeg", "hls"}
  /\ pc \in {"idle", "copy", "playlist", "walk", "segment", "stopped"}
  /\ cancel \in {"armed", "taken", "called"}
  /\ attempt \in 0..MaxAttempts /\ tables \in {0, attempt} /\ sent \in 0..MaxChunks
  /\ seenRAI \in BOOLEAN /\ everReady \in BOOLEAN
  /\ pc \in {"copy", "playlist", "walk", "segment"} => attempt > 0
  /\ chunk \in Chunks \cup {None}
  /\ chunk # None =>
       /\ pc \in {"copy", "segment"}
       /\ chunk.tables => tables = attempt
       /\ ~chunk.out => sent < MaxChunks

\* A chunk with the tables is about to reach the viewers.
TablesOnTheWay == chunk # None /\ ~chunk.out /\ chunk.tables

Carries(it, n) == it.startup = n \/ (it.tables /\ it.attempt = n)

Numbered(g, n) ==
  /\ \A i \in 2..Len(g) : g[i].n > 0 /\ (g[i - 1].n > 0 => g[i].n = g[i - 1].n + 1)
  /\ g # <<>> => g[Len(g)].n \in {0, n}

Announced(g) ==
  \A i \in DOMAIN g : g[i].n > 0 /\ g[i].known => \E j \in 1..i : Carries(g[j], g[i].attempt)

\* What a viewer was given: a late joiner starts at a keyframe, and one that does
\* not wait has the tables of this attempt or is about to get them.
GivenInv(v) ==
  /\ Len(viewers[v].queue) <= BufferSize
  /\ viewers[v].wait => viewers[v].late /\ Given(v) = <<>>
  /\ viewers[v].late /\ ~viewers[v].wait =>
       /\ Given(v) # <<>>
       /\ Given(v)[1].key /\ Given(v)[1].startup \in {0, Given(v)[1].attempt}
  /\ Numbered(Given(v), sent)
  /\ Announced(Given(v))
  /\ tables # 0 /\ ~viewers[v].wait =>
       TablesOnTheWay \/ \E j \in DOMAIN Given(v) : Carries(Given(v)[j], attempt)

FeedInv ==
  /\ viewers \in [Viewers -> Queues \cup {None}]
  /\ \A v \in Attached : GivenInv(v)

\* The window: the newest segments, numbered without a gap.
ServerInv ==
  /\ server \in Servers
  /\ Len(server.list) <= Window /\ Len(server.list) <= server.made
  /\ \A j \in DOMAIN server.list :
       /\ server.list[j].k = server.made - Len(server.list) + j
       /\ server.list[j].seq + 1 = server.seq - Len(server.list) + j

\* The walk stays within its playlist, and the list of segments seen has a limit.
WalkInv ==
  /\ hls # None <=> pc \in {"playlist", "walk", "segment"}
  /\ hls # None =>
       /\ hls \in Walks
       /\ Len(hls.seen) <= MaxSeen
       /\ hls.i <= Len(hls.segments) + 1 /\ hls.skip <= Len(hls.segments)
       /\ pc = "segment" => hls.i <= Len(hls.segments)

MediaInv == PumpInv /\ FeedInv /\ ServerInv /\ WalkInv

\* The playlist being walked is a former window, and the window has moved on.
SnapshotInv ==
  LET segs == hls.segments IN
  /\ hls.started <=> segs # <<>>
  /\ hls.reset => server.reset
  /\ Len(segs) <= Window
  /\ \A j \in DOMAIN segs :
       /\ segs[j].k = segs[1].k + j - 1
       /\ segs[j].k <= server.made
       /\ j <= hls.skip => segs[j].k < hls.first
  /\ segs # <<>> => \A j \in DOMAIN server.list : segs[1].k <= server.list[j].k

\* A segment of the playlist that is not in the list of segments seen is newer
\* than everything in it, and has not been walked.
SeenInv ==
  LET segs == hls.segments
      seen == hls.seen
  IN /\ \A a, b \in DOMAIN seen : a < b => seen[b] - seen[a] >= b - a
     /\ seen # <<>> => segs # <<>> /\ \A a \in DOMAIN seen : seen[a] <= segs[Len(segs)].k
     /\ \A j \in DOMAIN segs :
          segs[j].k \in Range(seen) \/ (j >= hls.i /\ \A a \in DOMAIN seen : seen[a] < segs[j].k)

FetchedInv ==
  LET last == Len(hls.fetched) IN
  /\ \A a, b \in DOMAIN hls.fetched : a < b => hls.fetched[a] < hls.fetched[b]
  /\ \A a \in DOMAIN hls.fetched :
       (pc = "segment" /\ a = last) \/ \E b \in DOMAIN hls.seen : hls.fetched[a] <= hls.seen[b]
  /\ pc = "segment" => /\ hls.fetched # <<>> /\ hls.fetched[last] = Segment.k
                       /\ Segment.k \notin Range(hls.seen)

\* While the numbering lasts, numbers follow the broadcast: nothing is taken for
\* known because of its number alone.
NumberingInv ==
  hls.reset = server.reset =>
    /\ \A j \in DOMAIN hls.segments :
         hls.segments[j].seq + 1 + server.made = hls.segments[j].k + server.seq
    /\ IF hls.seen = <<>> THEN hls.lastSeq = -1
       ELSE hls.lastSeq + 1 + server.made = hls.seen[Len(hls.seen)] + server.seq
    /\ \A k \in Range(hls.seen) : k >= hls.first => k \in Range(hls.fetched)

OrderInv == hls # None => SnapshotInv /\ SeenInv /\ FetchedInv /\ NumberingInv

=============================================================================
