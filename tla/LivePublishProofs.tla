------------------------- MODULE LivePublishProofs -------------------------
(***************************************************************************)
(* Proofs about LivePublish, for any number of channels, handlers, viewers *)
(* and commits: PublishInv is inductive, and the properties follow.        *)
(***************************************************************************)
EXTENDS LivePublish, TLAPS

(***************************************************************************)
(* The requests in progress.                                               *)
(***************************************************************************)

\* What each kind of request carries.
LEMMA OpFields ==
  ASSUME NEW o \in Ops
  PROVE  /\ o.pc \in {"idle", "commit", "after", "upstreams", "publish", "saved", "lock",
                      "load", "block"}
         /\ o.pc = "idle" => o = IdleOp
         /\ o.pc \in {"commit", "after", "upstreams", "publish"} => o.c \in Channels
         /\ o.pc \in {"commit", "after", "upstreams"} => o.before \in Sources
         /\ o.pc \in {"upstreams", "publish"} => o.rev \in 1..MaxRev
         /\ o.pc = "upstreams" => o.transcode \in BOOLEAN
         /\ o.pc \in {"publish", "saved", "lock", "load", "block"} => o.todo \subseteq Channels
         /\ o.pc \in {"publish", "lock", "load"} => o.invalidate \in BOOLEAN
         /\ o.pc = "publish" => o.kind \in {"proxy", "ids"} \/ o.todo = {}
         /\ o.pc = "load" => o.kind \in {"proxy", "ids"}
         /\ o.pc = "block" =>
              /\ o.remove \subseteq Channels
              /\ o = [pc |-> "block", remove |-> o.remove, todo |-> o.todo]
BY DEF Ops, IdleOp

\* What a viewer's request carries.
LEMMA ViewFields ==
  ASSUME NEW w \in Views
  PROVE  /\ w.pc \in {"idle", "upstreams", "subscribe", "retry"}
         /\ w.pc # "idle" => w.c \in Channels
         /\ w.pc \in {"upstreams", "subscribe"} =>
              /\ w.row \in Rows
              /\ w = [pc |-> w.pc, c |-> w.c, row |-> w.row]
BY DEF Views, IdleViewer

\* A request past its lock is the only one.
LEMMA OnlyHolder ==
  ASSUME ShapeInv, NEW h \in Handlers, op[h].pc \notin {"idle", "lock"}
  PROVE  mu = h /\ \A g \in Handlers \ {h} : op[g].pc \in {"idle", "lock"}
BY DEF ShapeInv, TypeOK

LEMMA NoHolder ==
  ASSUME ShapeInv, mu = None
  PROVE  \A g \in Handlers : op[g].pc \in {"idle", "lock"}
BY NoneAssumption DEF ShapeInv, TypeOK

\* A handler's step is its own.
LEMMA Moves ==
  ASSUME NEW h \in Handlers, NEW request, Goto(h, request), op \in [Handlers -> Ops]
  PROVE  /\ op'[h] = request
         /\ \A g \in Handlers \ {h} : op'[g] = op[g]
         /\ request \in Ops => op' \in [Handlers -> Ops]
BY DEF Goto

\* channelMu is taken from nobody and released by its holder.
LEMMA MuKept ==
  ASSUME ShapeInv, NEW h \in Handlers, NEW request, Goto(h, request),
         \/ /\ request.pc \notin {"idle", "lock"} /\ mu' = h
            /\ op[h].pc \notin {"idle", "lock"} \/ mu = None
         \/ /\ request.pc \in {"idle", "lock"} /\ mu' = None
            /\ op[h].pc \notin {"idle", "lock"} \/ mu = None
         \/ request.pc \in {"idle", "lock"} /\ op[h].pc \in {"idle", "lock"} /\ mu' = mu
  PROVE  /\ mu' \in Handlers \cup {None}
         /\ \A g \in Handlers : mu' = g <=> op'[g].pc \notin {"idle", "lock"}
<1>1. op'[h] = request /\ \A g \in Handlers \ {h} : op'[g] = op[g]
  BY Moves DEF ShapeInv
<1> QED
  BY <1>1, OnlyHolder, NoHolder, NoneAssumption DEF ShapeInv, TypeOK

\* The rest of a publication.
LEMMA RestMoves ==
  ASSUME ShapeInv, NEW h \in Handlers, NEW kind, NEW todo \in SUBSET Channels,
         NEW invalidate \in BOOLEAN, kind \in {"proxy", "ids"} \/ todo = {},
         op[h].pc \notin {"idle", "lock"} \/ mu = None,
         PublishRest(h, kind, todo, invalidate)
  PROVE  /\ op' \in [Handlers -> Ops]
         /\ \A g \in Handlers \ {h} : op'[g] = op[g]
         /\ op'[h].pc \in {"idle", "load"}
         /\ Pending(h)' = todo
         /\ \A c \in Channels : Retires(h, c)' <=> c \in todo /\ invalidate
         /\ mu' \in Handlers \cup {None}
         /\ \A g \in Handlers : mu' = g <=> op'[g].pc \notin {"idle", "lock"}
<1>1. CASE todo = {}
  <2>1. Goto(h, IdleOp) /\ mu' = None
    BY <1>1 DEF PublishRest, Return
  <2>2. op'[h] = IdleOp /\ \A g \in Handlers \ {h} : op'[g] = op[g]
    BY <2>1, Moves DEF ShapeInv
  <2>3. op' \in [Handlers -> Ops]
    BY <2>1, Moves DEF ShapeInv, Ops
  <2>4. /\ mu' \in Handlers \cup {None}
        /\ \A g \in Handlers : mu' = g <=> op'[g].pc \notin {"idle", "lock"}
    BY <2>1, MuKept DEF IdleOp
  <2> QED
    BY <1>1, <2>2, <2>3, <2>4 DEF IdleOp, Pending, Retires
<1>2. CASE todo # {}
  <2> DEFINE request == [pc |-> "load", kind |-> kind, todo |-> todo, invalidate |-> invalidate]
  <2>1. Goto(h, request) /\ mu' = h
    BY <1>2 DEF PublishRest
  <2>2. request \in Ops
    BY <1>2 DEF Ops
  <2>3. /\ op'[h] = request /\ op' \in [Handlers -> Ops]
        /\ \A g \in Handlers \ {h} : op'[g] = op[g]
    BY <2>1, <2>2, Moves DEF ShapeInv
  <2>4. /\ mu' \in Handlers \cup {None}
        /\ \A g \in Handlers : mu' = g <=> op'[g].pc \notin {"idle", "lock"}
    BY <2>1, MuKept
  <2> QED
    BY <2>3, <2>4 DEF Pending, Retires
<1> QED
  BY <1>1, <1>2

(***************************************************************************)
(* One channel, as its row says it is to be served.                        *)
(***************************************************************************)
Gone(c) ==
  rows[c] = None /\ ~Blocking(c) =>
    /\ sessions[c] = None
    /\ \A v \in Viewers : Holds(v, c) => c \in blocked

Published(c) ==
  rows[c] # None /\ ~Unpublished(c) =>
    /\ revisions[c] \in {0, rows[c].rev}
    /\ c \notin blocked
    /\ \A v \in Viewers : Holds(v, c) => rows[c].rev \in {viewer[v].row.rev, revisions[c]}

Sourced(c) ==
  rows[c] # None /\ ~Retiring(c) =>
    /\ sessions[c] \in {None, <<c, Source(rows[c])>>}
    /\ \A v \in Viewers : Holds(v, c) =>
         \/ Source(viewer[v].row) = Source(rows[c])
         \/ revisions[c] \notin {0, viewer[v].row.rev}
         \/ c \in blocked

Served(c) == Gone(c) /\ Published(c) /\ Sourced(c)

\* The last three parts of the invariant, channel by channel.
LEMMA ServedParts ==
  (\A c \in Channels \ owed : Served(c)) <=> GoneInv /\ RevisionInv /\ SourceInv
BY DEF Served, Gone, Published, Sourced, GoneInv, RevisionInv, SourceInv

LEMMA ServedPartsPrime ==
  (\A c \in Channels \ owed' : Served(c)') <=> GoneInv' /\ RevisionInv' /\ SourceInv'
BY DEF Served, Gone, Published, Sourced, GoneInv, RevisionInv, SourceInv

\* A step that neither tells the manager of c nor forgets work that c needs.
LEMMA ServedFrame ==
  ASSUME NEW c \in Channels, Served(c), viewer' = viewer,
         revisions'[c] = revisions[c], sessions'[c] = sessions[c],
         c \in blocked' <=> c \in blocked,
         rows'[c] = None /\ ~Blocking(c)' => rows[c] = None /\ ~Blocking(c),
         rows'[c] # None /\ ~Unpublished(c)' => rows'[c] = rows[c] /\ ~Unpublished(c),
         rows'[c] # None /\ ~Retiring(c)' =>
           rows[c] # None /\ Source(rows'[c]) = Source(rows[c]) /\ ~Retiring(c)
  PROVE  Served(c)'
<1>1. \A v \in Viewers : Holds(v, c)' <=> Holds(v, c)
  BY DEF Holds
<1>2. Gone(c)'
  BY <1>1 DEF Served, Gone
<1>3. Published(c)'
  BY <1>1 DEF Served, Published
<1>4. Sourced(c)'
  BY <1>1 DEF Served, Sourced, Source
<1> QED
  BY <1>2, <1>3, <1>4 DEF Served

\* Work for c is kept when the handler that moves keeps its own.
LEMMA WorkKept ==
  ASSUME NEW h \in Handlers, NEW c \in Channels,
         \A g \in Handlers \ {h} : op'[g] = op[g]
  PROVE  /\ (c \in Pending(h) => Unpublished(c)') => (Unpublished(c) => Unpublished(c)')
         /\ /\ Retires(h, c) => Retiring(c)'
            /\ \/ Source(rows[c])' = Source(rows[c])
               \/ \A g \in Handlers \ {h} : op[g].pc \in {"idle", "lock"}
            => (Retiring(c) => Retiring(c)')
         /\ (op[h].pc = "block" /\ c \in op[h].remove => Blocking(c)')
            => (Blocking(c) => Blocking(c)')
<1>1. (c \in Pending(h) => Unpublished(c)') => (Unpublished(c) => Unpublished(c)')
  BY DEF Unpublished, Pending
<1>2. ASSUME NEW g \in Handlers \ {h}, Retires(g, c),
             Source(rows[c])' = Source(rows[c]) \/ op[g].pc \in {"idle", "lock"}
      PROVE  Retires(g, c)'
  BY <1>2 DEF Retires
<1>3. (op[h].pc = "block" /\ c \in op[h].remove => Blocking(c)')
            => (Blocking(c) => Blocking(c)')
  BY DEF Blocking
<1> QED
  BY <1>1, <1>2, <1>3 DEF Retiring

(***************************************************************************)
(* Steps of a request that change neither the rows nor the manager.        *)
(***************************************************************************)

\* The part of HolderInv that is about one request.
Reads(h) ==
  /\ op[h].pc \in {"commit", "after", "upstreams", "publish"} => rows[op[h].c] # None
  /\ op[h].pc = "commit" => op[h].before = Source(rows[op[h].c]) \/ QueuedChange(op[h].c)
  /\ op[h].pc = "upstreams" => op[h].transcode = rows[op[h].c].transcode
  /\ op[h].pc \in {"upstreams", "publish"} =>
       /\ op[h].rev = rows[op[h].c].rev \/ Queued(op[h].c)
       /\ \A v \in Viewers : Holds(v, op[h].c) /\ viewer[v].row.rev = op[h].rev =>
            Source(viewer[v].row) = Source(rows[op[h].c]) \/ QueuedChange(op[h].c)
  /\ op[h].pc = "block" => \A c \in op[h].remove : rows[c] = None

LEMMA ReadsParts ==
  /\ HolderInv <=> \A h \in Handlers : Reads(h)
  /\ HolderInv' <=> \A h \in Handlers : Reads(h)'
BY DEF HolderInv, Reads

\* Only a request past its lock has read anything.
LEMMA ReadsHolder ==
  ASSUME NEW h \in Handlers, Reads(h)',
         \A g \in Handlers \ {h} : op'[g].pc \in {"idle", "lock"}
  PROVE  HolderInv'
<1>1. ASSUME NEW g \in Handlers \ {h}
      PROVE  Reads(g)'
  BY <1>1 DEF Reads
<1> QED
  BY <1>1, ReadsParts

\* Work may change hands, or be given up; it is not forgotten.
LEMMA Bookkeeping ==
  ASSUME PublishInv, NEW h \in Handlers,
         UNCHANGED <<managerVars, storeVars, viewer>>,
         op' \in [Handlers -> Ops],
         \A g \in Handlers \ {h} : op'[g] = op[g],
         mu' \in Handlers \cup {None},
         \A g \in Handlers : mu' = g <=> op'[g].pc \notin {"idle", "lock"},
         owed \subseteq owed', owed' \subseteq Channels,
         op[h].pc # "block", op'[h].pc # "block",
         \A c \in Channels \ owed' :
           /\ c \in Pending(h) /\ rows[c] # None => Unpublished(c)'
           /\ Retires(h, c) /\ rows[c] # None => Retiring(c)',
         HolderInv'
  PROVE  PublishInv'
<1> USE DEF managerVars, storeVars
<1>1. ShapeInv'
  BY DEF PublishInv, ShapeInv, TypeOK, Existing
<1>2. ClockInv' /\ ViewerInv'
  BY DEF PublishInv, ClockInv, ViewerInv, Holds
<1>3. UsedInv'
  BY DEF PublishInv, UsedInv, Holds
<1>4. ASSUME NEW c \in Channels \ owed'
      PROVE  Served(c)'
  <2>1. Served(c)
    BY ServedParts DEF PublishInv
  <2>2. rows[c] # None => (Unpublished(c) => Unpublished(c)')
    BY WorkKept
  <2>3. rows[c] # None => (Retiring(c) => Retiring(c)')
    BY WorkKept
  <2>4. Blocking(c) => Blocking(c)'
    BY WorkKept
  <2> QED
    BY <2>1, <2>2, <2>3, <2>4, ServedFrame
<1>5. GoneInv' /\ RevisionInv' /\ SourceInv'
  BY <1>4, ServedPartsPrime
<1> QED
  BY <1>1, <1>2, <1>3, <1>5 DEF PublishInv

LEMMA UpdateChannelInv ==
  ASSUME PublishInv, NEW h \in Handlers, NEW c \in Channels, UpdateChannel(h, c)
  PROVE  PublishInv'
<1> DEFINE request == [pc |-> "commit", c |-> c, before |-> Source(rows[c])]
<1>1. ShapeInv /\ op[h].pc = "idle" /\ mu = None /\ mu' = h /\ Goto(h, request)
  BY DEF UpdateChannel, PublishInv
<1>2. rows[c] \in Rows /\ Source(rows[c]) \in Sources
  BY DEF UpdateChannel, PublishInv, ShapeInv, TypeOK, Rows, Source, Sources
<1>3. request \in Ops
  BY <1>2 DEF Ops
<1>4. /\ op'[h] = request /\ op' \in [Handlers -> Ops]
      /\ \A g \in Handlers \ {h} : op'[g] = op[g]
  BY <1>1, <1>3, Moves DEF ShapeInv
<1>5. /\ mu' \in Handlers \cup {None}
      /\ \A g \in Handlers : mu' = g <=> op'[g].pc \notin {"idle", "lock"}
  BY <1>1, MuKept
<1>6. HolderInv'
  <2>1. Reads(h)'
    BY <1>4 DEF Reads, UpdateChannel, storeVars, Source
  <2> QED
    BY <2>1, <1>1, <1>4, NoHolder, ReadsHolder
<1>7. Pending(h) = {} /\ \A d \in Channels : ~Retires(h, d)
  BY <1>1 DEF Pending, Retires
<1> QED
  BY <1>1, <1>4, <1>5, <1>6, <1>7, Bookkeeping DEF UpdateChannel, PublishInv, ShapeInv

\* Returning, when nothing is left to publish or what is left is given up.
LEMMA ReturnInv ==
  ASSUME PublishInv, NEW h \in Handlers, Return(h),
         UNCHANGED <<managerVars, storeVars, viewer>>,
         op[h].pc \notin {"idle", "lock", "block"},
         owed \subseteq owed', owed' \subseteq Channels,
         \A c \in Pending(h) \ owed' : rows[c] = None
  PROVE  PublishInv'
<1>1. ShapeInv /\ mu' = None /\ Goto(h, IdleOp)
  BY DEF Return, PublishInv
<1>2. IdleOp \in Ops
  BY DEF Ops
<1>3. /\ op'[h] = IdleOp /\ op' \in [Handlers -> Ops]
      /\ \A g \in Handlers \ {h} : op'[g] = op[g]
  BY <1>1, <1>2, Moves DEF ShapeInv
<1>4. /\ mu' \in Handlers \cup {None}
      /\ \A g \in Handlers : mu' = g <=> op'[g].pc \notin {"idle", "lock"}
  BY <1>1, MuKept DEF IdleOp
<1>5. HolderInv'
  <2>1. Reads(h)'
    BY <1>3 DEF Reads, IdleOp
  <2> QED
    BY <2>1, <1>1, <1>3, OnlyHolder, ReadsHolder
<1>6. \A c \in Channels : Retires(h, c) => c \in Pending(h)
  BY DEF Pending, Retires
<1> QED
  BY <1>3, <1>4, <1>5, <1>6, Bookkeeping DEF IdleOp

LEMMA UpdateRefusedInv ==
  ASSUME PublishInv, NEW h \in Handlers, UpdateRefused(h)
  PROVE  PublishInv'
<1>1. Pending(h) = {}
  BY DEF UpdateRefused, Pending
<1> QED
  BY <1>1, ReturnInv DEF UpdateRefused, PublishInv, ShapeInv

\* What a request has pending are channels.
LEMMA PendingType ==
  ASSUME ShapeInv, NEW h \in Handlers
  PROVE  Pending(h) \subseteq Channels
<1>1. op[h] \in Ops
  BY DEF ShapeInv
<1> QED
  BY <1>1, OpFields DEF Pending

LEMMA ClientGoneInv ==
  ASSUME PublishInv, NEW h \in Handlers, ClientGone(h)
  PROVE  PublishInv'
<1>1. Pending(h) \subseteq Channels
  BY PendingType DEF PublishInv
<1> QED
  BY <1>1, ReturnInv DEF ClientGone, PublishInv, ShapeInv

LEMMA ChannelNotFoundInv ==
  ASSUME PublishInv, NEW h \in Handlers, NEW c \in Channels, ChannelNotFound(h, c)
  PROVE  PublishInv'
<1>1. Pending(h) \subseteq Channels /\ Pending(h) = op[h].todo
  BY PendingType DEF PublishInv, ChannelNotFound, Pending
<1> QED
  BY <1>1, ReturnInv DEF ChannelNotFound, PublishInv, ShapeInv

LEMMA UpdateReadsRowInv ==
  ASSUME PublishInv, NEW h \in Handlers, UpdateReadsRow(h)
  PROVE  PublishInv'
<1>1. ShapeInv /\ op[h].pc = "after" /\ mu' = mu
  BY DEF UpdateReadsRow, PublishInv
<1>2. mu = h /\ \A g \in Handlers \ {h} : op[g].pc \in {"idle", "lock"}
  BY <1>1, OnlyHolder
<1>3. PICK c \in Channels, before \in Sources : op[h].c = c /\ op[h].before = before
  BY <1>1, OpFields DEF ShapeInv
<1> DEFINE request == [pc |-> "upstreams", c |-> c, before |-> before,
                       rev |-> rows[c].rev, transcode |-> rows[c].transcode]
<1>4. rows[c] # None /\ rows[c] \in Rows
  BY <1>1, <1>3 DEF PublishInv, HolderInv, ShapeInv, TypeOK, Rows
<1>5. request \in Ops /\ Goto(h, request)
  BY <1>3, <1>4 DEF Ops, Rows, UpdateReadsRow
<1>6. /\ op'[h] = request /\ op' \in [Handlers -> Ops]
      /\ \A g \in Handlers \ {h} : op'[g] = op[g]
  BY <1>1, <1>5, Moves DEF ShapeInv
<1>7. /\ mu' \in Handlers \cup {None}
      /\ \A g \in Handlers : mu' = g <=> op'[g].pc \notin {"idle", "lock"}
  BY <1>1, <1>2, <1>5, MuKept
<1>8. UNCHANGED <<rows, viewer>>
  BY DEF UpdateReadsRow, storeVars
<1>9. HolderInv'
  <2>1. \A v \in Viewers : Holds(v, c)' /\ viewer'[v].row.rev = rows'[c].rev =>
          Source(viewer[v].row)' = Source(rows[c])'
    BY <1>3, <1>4, <1>8 DEF PublishInv, ViewerInv, Holds, Source
  <2>2. Reads(h)'
    BY <2>1, <1>4, <1>6, <1>8 DEF Reads
  <2> QED
    BY <2>2, <1>2, <1>6, ReadsHolder
<1>10. Pending(h)' = Pending(h) /\ \A d \in Channels : Retires(h, d)' <=> Retires(h, d)
  BY <1>1, <1>3, <1>6, <1>8 DEF Pending, Retires, Source
<1> QED
  BY <1>1, <1>6, <1>7, <1>9, <1>10, Bookkeeping
  DEF UpdateReadsRow, PublishInv, ShapeInv, Unpublished, Retiring

LEMMA UpdateReadsUpstreamsInv ==
  ASSUME PublishInv, NEW h \in Handlers, UpdateReadsUpstreams(h)
  PROVE  PublishInv'
<1>1. ShapeInv /\ op[h].pc = "upstreams" /\ mu' = mu
  BY DEF UpdateReadsUpstreams, PublishInv
<1>2. mu = h /\ \A g \in Handlers \ {h} : op[g].pc \in {"idle", "lock"}
  BY <1>1, OnlyHolder
<1>3. PICK c \in Channels, before \in Sources, rev \in 1..MaxRev :
        op[h].c = c /\ op[h].before = before /\ op[h].rev = rev
  BY <1>1, OpFields DEF ShapeInv
<1> DEFINE request == [pc |-> "publish", kind |-> "update", c |-> c, rev |-> rev,
                       invalidate |-> before # Source(rows[c]), todo |-> {}]
<1>4. rows[c] # None /\ op[h].transcode = rows[c].transcode
  BY <1>1, <1>3 DEF PublishInv, HolderInv
<1>5. request \in Ops /\ Goto(h, request)
  BY <1>3, <1>4 DEF Ops, UpdateReadsUpstreams, Source
<1>6. /\ op'[h] = request /\ op' \in [Handlers -> Ops]
      /\ \A g \in Handlers \ {h} : op'[g] = op[g]
  BY <1>1, <1>5, Moves DEF ShapeInv
<1>7. /\ mu' \in Handlers \cup {None}
      /\ \A g \in Handlers : mu' = g <=> op'[g].pc \notin {"idle", "lock"}
  BY <1>1, <1>2, <1>5, MuKept
<1>8. UNCHANGED <<rows, viewer>>
  BY DEF UpdateReadsUpstreams, storeVars
<1>9. HolderInv'
  <2>1. Queued(c)' <=> Queued(c)
    BY <1>1, <1>6 DEF Queued
  <2>2. QueuedChange(c)' <=> QueuedChange(c)
    BY <1>1, <1>6 DEF QueuedChange
  <2>3. Reads(h)
    BY ReadsParts DEF PublishInv
  <2>4. \A v \in Viewers : Holds(v, c)' /\ viewer'[v].row.rev = rev =>
          Source(viewer[v].row)' = Source(rows[c])' \/ QueuedChange(c)
    BY <2>3, <1>1, <1>3, <1>8 DEF Reads, Holds, Source
  <2>5. Reads(h)'
    BY <2>1, <2>2, <2>3, <2>4, <1>1, <1>3, <1>4, <1>6, <1>8 DEF Reads
  <2> QED
    BY <2>5, <1>2, <1>6, ReadsHolder
<1>10. \A d \in Channels : Retires(h, d) => Retires(h, d)'
  <2>1. ASSUME NEW d \in Channels, Retires(h, d)
        PROVE  d = c /\ before # Source(rows[c])
    BY <2>1, <1>1, <1>3 DEF Retires
  <2>2. ASSUME before # Source(rows[c])
        PROVE  op'[h].invalidate = TRUE
    <3>1. (before # Source(rows[c])) = TRUE
      BY <2>2
    <3>2. op'[h] = [pc |-> "publish", kind |-> "update", c |-> c, rev |-> rev,
                    invalidate |-> TRUE, todo |-> {}]
      BY <1>6, <3>1, Zenon
    <3> QED
      BY <3>2
  <2>3. op'[h].pc = "publish" /\ op'[h].c = c
    BY <1>6
  <2>4. before # Source(rows[c]) => Retires(h, c)'
    BY <2>2, <2>3 DEF Retires
  <2> QED
    BY <2>1, <2>4
<1>11. Pending(h)' = Pending(h)
  BY <1>1, <1>3, <1>6 DEF Pending
<1> QED
  BY <1>1, <1>6, <1>7, <1>9, <1>10, <1>11, Bookkeeping
  DEF UpdateReadsUpstreams, PublishInv, ShapeInv, Unpublished, Retiring

\* Both ways into the loop over the channels to publish.
LEMMA RestInv ==
  ASSUME PublishInv, NEW h \in Handlers, NEW kind \in {"proxy", "ids"},
         NEW todo \in SUBSET Channels, NEW invalidate \in BOOLEAN,
         op[h].pc = "saved" \/ (op[h].pc = "lock" /\ mu = None),
         Pending(h) \subseteq todo, \A c \in Channels : Retires(h, c) => invalidate,
         PublishRest(h, kind, todo, invalidate),
         UNCHANGED <<managerVars, storeVars, viewer, owed>>
  PROVE  PublishInv'
<1>1. ShapeInv
  BY DEF PublishInv
<1>2. /\ op' \in [Handlers -> Ops]
      /\ \A g \in Handlers \ {h} : op'[g] = op[g]
      /\ op'[h].pc \in {"idle", "load"}
      /\ Pending(h)' = todo
      /\ \A c \in Channels : Retires(h, c)' <=> c \in todo /\ invalidate
      /\ mu' \in Handlers \cup {None}
      /\ \A g \in Handlers : mu' = g <=> op'[g].pc \notin {"idle", "lock"}
  BY <1>1, RestMoves
<1>3. HolderInv'
  <2>1. \A g \in Handlers \ {h} : op[g].pc \in {"idle", "lock"}
    BY <1>1, OnlyHolder, NoHolder
  <2>2. Reads(h)'
    BY <1>2 DEF Reads
  <2> QED
    BY <2>1, <2>2, <1>2, ReadsHolder
<1>4. \A c \in Channels : Retires(h, c) => c \in Pending(h)
  BY DEF Retires, Pending
<1> QED
  BY <1>2, <1>3, <1>4, Bookkeeping DEF PublishInv, ShapeInv, Unpublished, Retiring

LEMMA ProxySavedInv ==
  ASSUME PublishInv, NEW h \in Handlers, ProxySaved(h)
  PROVE  PublishInv'
<1>1. op[h].todo \in SUBSET Channels
  BY OpFields DEF ProxySaved, PublishInv, ShapeInv
<1>2. Pending(h) = op[h].todo
  BY DEF ProxySaved, Pending
<1> QED
  BY <1>1, <1>2, RestInv DEF ProxySaved

LEMMA ImportLocksInv ==
  ASSUME PublishInv, NEW h \in Handlers, ImportLocks(h)
  PROVE  PublishInv'
<1>1. op[h].todo \in SUBSET Channels /\ op[h].invalidate \in BOOLEAN
  BY OpFields DEF ImportLocks, PublishInv, ShapeInv
<1>2. Pending(h) = op[h].todo /\ \A c \in Channels : Retires(h, c) => op[h].invalidate
  BY DEF ImportLocks, Pending, Retires
<1> QED
  BY <1>1, <1>2, RestInv DEF ImportLocks

LEMMA LoadChannelInv ==
  ASSUME PublishInv, NEW h \in Handlers, NEW c \in Channels, LoadChannel(h, c)
  PROVE  PublishInv'
<1>1. ShapeInv /\ op[h].pc = "load" /\ mu' = mu /\ c \in op[h].todo /\ rows[c] # None
  BY DEF LoadChannel, PublishInv
<1>2. mu = h /\ \A g \in Handlers \ {h} : op[g].pc \in {"idle", "lock"}
  BY <1>1, OnlyHolder
<1>3. PICK kind \in {"proxy", "ids"}, todo \in SUBSET Channels, invalidate \in BOOLEAN :
        op[h].kind = kind /\ op[h].todo = todo /\ op[h].invalidate = invalidate
  BY <1>1, OpFields DEF ShapeInv
<1> DEFINE request == [pc |-> "publish", kind |-> kind, c |-> c, rev |-> rows[c].rev,
                       invalidate |-> invalidate, todo |-> todo \ {c}]
<1>4. rows[c] \in Rows
  BY <1>1 DEF ShapeInv, TypeOK, Rows
<1>5. request \in Ops /\ Goto(h, request)
  BY <1>3, <1>4 DEF Ops, Rows, LoadChannel
<1>6. /\ op'[h] = request /\ op' \in [Handlers -> Ops]
      /\ \A g \in Handlers \ {h} : op'[g] = op[g]
  BY <1>1, <1>5, Moves DEF ShapeInv
<1>7. /\ mu' \in Handlers \cup {None}
      /\ \A g \in Handlers : mu' = g <=> op'[g].pc \notin {"idle", "lock"}
  BY <1>1, <1>2, <1>5, MuKept
<1>8. UNCHANGED <<rows, viewer>>
  BY DEF LoadChannel, storeVars
<1>9. HolderInv'
  <2>1. \A v \in Viewers : Holds(v, c)' /\ viewer'[v].row.rev = rows'[c].rev =>
          Source(viewer[v].row)' = Source(rows[c])'
    BY <1>1, <1>8 DEF PublishInv, ViewerInv, Holds, Source
  <2>2. Reads(h)'
    BY <2>1, <1>1, <1>6, <1>8 DEF Reads
  <2> QED
    BY <2>2, <1>2, <1>6, ReadsHolder
<1>10. Pending(h)' = Pending(h) /\ \A d \in Channels : Retires(h, d) => Retires(h, d)'
  BY <1>1, <1>3, <1>6, <1>8 DEF Pending, Retires
<1> QED
  BY <1>1, <1>6, <1>7, <1>9, <1>10, Bookkeeping
  DEF LoadChannel, PublishInv, ShapeInv, Unpublished, Retiring

(***************************************************************************)
(* Steps that commit: the rows change, and the request takes on the work.  *)
(***************************************************************************)
LEMMA Commit ==
  ASSUME PublishInv, NEW h \in Handlers,
         UNCHANGED <<managerVars, viewer, owed>>,
         op[h].pc \in {"idle", "commit"},
         op' \in [Handlers -> Ops],
         \A g \in Handlers \ {h} : op'[g] = op[g],
         mu' \in Handlers \cup {None},
         \A g \in Handlers : mu' = g <=> op'[g].pc \notin {"idle", "lock"},
         clock' \in 1..MaxRev, clock' \in {clock, clock + 1},
         used \subseteq used', used' \subseteq Channels,
         rows' \in [Channels -> Rows \cup {None}],
         \A c \in Channels : rows'[c] # None =>
           /\ c \in used'
           /\ rows'[c] = rows[c] \/ (rows'[c].rev = clock' /\ clock' = clock + 1)
           /\ rows'[c] = rows[c] \/ Unpublished(c)'
           /\ (rows[c] # None /\ Source(rows[c])' = Source(rows[c])) \/ Retiring(c)',
         \A c \in Channels : rows'[c] = None => rows[c] = None \/ Blocking(c)',
         op'[h].pc = "block" => op'[h].remove \subseteq used',
         HolderInv'
  PROVE  PublishInv'
<1> USE DEF managerVars
<1>1. ShapeInv /\ ClockInv /\ UsedInv /\ ViewerInv /\ clock \in Nat
  BY DEF PublishInv, ShapeInv
<1>2. ShapeInv'
  BY <1>1 DEF ShapeInv, TypeOK, Existing, Rows
<1>3. \A v \in Viewers, c \in Channels : Holds(v, c)' <=> Holds(v, c)
  BY DEF Holds
<1>4. \A v \in Viewers, c \in Channels : Holds(v, c) =>
        viewer[v].row \in Rows /\ viewer[v].row.rev \in Nat /\ viewer[v].row.rev <= clock
  <2>1. \A v \in Viewers : viewer[v].pc \in {"upstreams", "subscribe"} => viewer[v].row \in Rows
    BY <1>1, ViewFields DEF ShapeInv
  <2> QED
    BY <1>1, <2>1 DEF ClockInv, Holds, Rows
<1>5. \A c \in Channels : rows[c] # None => rows[c].rev \in Nat /\ rows[c].rev <= clock
  BY <1>1 DEF ShapeInv, TypeOK, ClockInv
<1>6. ClockInv'
  <2>1. \A c \in Channels : rows'[c] # None => rows'[c].rev <= clock'
    BY <1>1, <1>2, <1>5 DEF ShapeInv
  <2>2. \A v \in Viewers, c \in Channels : Holds(v, c)' => viewer'[v].row.rev <= clock'
    BY <1>1, <1>3, <1>4
  <2> QED
    BY <2>1, <2>2 DEF ClockInv
<1>7. UsedInv'
  <2>1. \A g \in Handlers : op'[g].pc = "block" => op'[g].remove \cap (Channels \ used') = {}
    BY <1>1 DEF UsedInv
  <2> QED
    BY <2>1, <1>1, <1>3 DEF UsedInv
<1>8. ViewerInv'
  BY <1>1, <1>3, <1>4 DEF ViewerInv
<1>9. \A c \in Channels : c \notin Pending(h) /\ ~Retires(h, c)
  BY DEF Pending, Retires
<1>10. ASSUME NEW c \in Channels \ owed'
       PROVE  Served(c)'
  <2>1. Served(c)
    BY ServedParts DEF PublishInv
  <2>2. Unpublished(c) => Unpublished(c)'
    BY <1>9, WorkKept
  <2>3. Source(rows[c])' = Source(rows[c]) => (Retiring(c) => Retiring(c)')
    BY <1>9, WorkKept
  <2>4. Blocking(c) => Blocking(c)'
    BY WorkKept
  <2>5. Source(rows[c])' = Source(rows'[c])
    BY DEF Source
  <2> QED
    BY <2>1, <2>2, <2>3, <2>4, <2>5, ServedFrame
<1>11. GoneInv' /\ RevisionInv' /\ SourceInv'
  BY <1>10, ServedPartsPrime
<1> QED
  BY <1>2, <1>6, <1>7, <1>8, <1>11 DEF PublishInv

\* A row that is written is of its type, has the source given, and its time is new.
LEMMA RowFacts ==
  ASSUME ShapeInv, Stamp, NEW src, src.transcode \in BOOLEAN, src.ups \in Upstreams
  PROVE  /\ clock' \in 1..MaxRev /\ clock' = clock + 1
         /\ Row(src) \in Rows /\ Row(src) # None
         /\ Row(src).rev = clock'
         /\ Row(src).transcode = src.transcode /\ Row(src).ups = src.ups
         /\ Source(Row(src)) = [transcode |-> src.transcode, ups |-> src.ups]
<1>1. clock' \in 1..MaxRev /\ clock' = clock + 1
  BY BoundsAssumption DEF Stamp, ShapeInv
<1>2. Row(src) \in Rows
  BY <1>1 DEF Row, Rows
<1> QED
  BY <1>1, <1>2, NoneAssumption DEF Row, Source

LEMMA UpdateCommitsInv ==
  ASSUME PublishInv, NEW h \in Handlers, NEW src \in Sources, UpdateCommits(h, src)
  PROVE  PublishInv'
<1>1. ShapeInv /\ Stamp /\ op[h].pc = "commit" /\ mu' = mu
  BY DEF UpdateCommits, PublishInv
<1>2. mu = h /\ \A g \in Handlers \ {h} : op[g].pc \in {"idle", "lock"}
  BY <1>1, OnlyHolder
<1>3. PICK c \in Channels, before \in Sources : op[h].c = c /\ op[h].before = before
  BY <1>1, OpFields DEF ShapeInv
<1> DEFINE request == [pc |-> "after", c |-> c, before |-> before]
<1>4. request \in Ops /\ Goto(h, request)
  BY <1>3 DEF Ops, UpdateCommits
<1>5. /\ op'[h] = request /\ op' \in [Handlers -> Ops]
      /\ \A g \in Handlers \ {h} : op'[g] = op[g]
  BY <1>1, <1>4, Moves DEF ShapeInv
<1>6. /\ mu' \in Handlers \cup {None}
      /\ \A g \in Handlers : mu' = g <=> op'[g].pc \notin {"idle", "lock"}
  BY <1>1, <1>2, <1>4, MuKept
<1>7. /\ clock' \in 1..MaxRev /\ clock' = clock + 1
      /\ Row(src) \in Rows /\ Row(src) # None /\ Row(src).rev = clock'
      /\ Source(Row(src)) = src
  BY <1>1, RowFacts DEF Sources
<1>8. rows' = [rows EXCEPT ![c] = Row(src)]
  BY <1>3 DEF UpdateCommits
<1>9. rows \in [Channels -> Rows \cup {None}] /\ Existing \subseteq used /\ used \subseteq Channels
  BY <1>1 DEF ShapeInv, TypeOK, Rows
<1>10. rows[c] # None /\ (before = Source(rows[c]) \/ QueuedChange(c))
  BY <1>1, <1>3 DEF PublishInv, HolderInv
<1>11. HolderInv'
  <2>1. Reads(h)'
    BY <1>5, <1>7, <1>8, <1>9 DEF Reads
  <2> QED
    BY <2>1, <1>2, <1>5, ReadsHolder
<1>12. Unpublished(c)'
  BY <1>5 DEF Unpublished, Pending
<1>13. Source(rows[c])' = src
  BY <1>7, <1>8, <1>9 DEF Source
<1>14. Source(rows[c])' = Source(rows[c]) \/ Retiring(c)'
  <2>1. CASE QueuedChange(c)
    <3>1. PICK g \in Handlers : op[g].pc = "lock" /\ c \in op[g].todo /\ op[g].invalidate
      BY <2>1 DEF QueuedChange
    <3>2. op'[g] = op[g]
      BY <3>1, <1>1, <1>5
    <3>3. Retires(g, c)'
      BY <3>1, <3>2 DEF Retires
    <3> QED
      BY <3>3 DEF Retiring
  <2>2. CASE before = Source(rows[c]) /\ before # src
    <3>1. Retires(h, c)'
      BY <2>2, <1>5, <1>13 DEF Retires
    <3> QED
      BY <3>1 DEF Retiring
  <2> QED
    BY <2>1, <2>2, <1>10, <1>13
<1>15. \A d \in Channels \ {c} : rows'[d] = rows[d] /\ Source(rows[d])' = Source(rows[d])
  BY <1>8, <1>9 DEF Source
<1>16. rows' \in [Channels -> Rows \cup {None}] /\ rows'[c] = Row(src)
  BY <1>7, <1>8, <1>9
<1> QED
  BY <1>1, <1>5, <1>6, <1>7, <1>9, <1>10, <1>11, <1>12, <1>14, <1>15, <1>16, Commit
  DEF UpdateCommits, Existing

LEMMA DeleteChannelInv ==
  ASSUME PublishInv, NEW h \in Handlers, NEW c \in Channels, DeleteChannel(h, c)
  PROVE  PublishInv'
<1> DEFINE request == [pc |-> "block", remove |-> {c}, todo |-> {}]
<1>1. /\ ShapeInv /\ op[h].pc = "idle" /\ mu = None /\ mu' = h /\ Goto(h, request)
      /\ rows[c] # None /\ rows' = [rows EXCEPT ![c] = None]
  BY DEF DeleteChannel, PublishInv
<1>2. request \in Ops
  BY DEF Ops
<1>3. /\ op'[h] = request /\ op' \in [Handlers -> Ops]
      /\ \A g \in Handlers \ {h} : op'[g] = op[g]
  BY <1>1, <1>2, Moves DEF ShapeInv
<1>4. /\ mu' \in Handlers \cup {None}
      /\ \A g \in Handlers : mu' = g <=> op'[g].pc \notin {"idle", "lock"}
  BY <1>1, MuKept
<1>5. rows \in [Channels -> Rows \cup {None}] /\ Existing \subseteq used /\ used \subseteq Channels
  BY <1>1 DEF ShapeInv, TypeOK, Rows
<1>6. /\ rows' \in [Channels -> Rows \cup {None}] /\ rows'[c] = None
      /\ \A d \in Channels \ {c} : rows'[d] = rows[d] /\ Source(rows[d])' = Source(rows[d])
  BY <1>1, <1>5 DEF Source
<1>7. HolderInv'
  <2>1. Reads(h)'
    BY <1>3, <1>6 DEF Reads
  <2> QED
    BY <2>1, <1>1, <1>3, NoHolder, ReadsHolder
<1>8. Blocking(c)'
  BY <1>3 DEF Blocking
<1>9. c \in used /\ op'[h].remove \subseteq used
  BY <1>1, <1>3, <1>5 DEF Existing
<1> QED
  BY <1>1, <1>3, <1>4, <1>5, <1>6, <1>7, <1>8, <1>9, Commit
  DEF DeleteChannel, Existing, ShapeInv

LEMMA UpdateProxyInv ==
  ASSUME PublishInv, NEW h \in Handlers, NEW cs \in SUBSET Existing, NEW ups \in Upstreams,
         UpdateProxy(h, cs, ups)
  PROVE  PublishInv'
<1> DEFINE request == [pc |-> "saved", todo |-> cs]
           new(c) == Row([transcode |-> rows[c].transcode, ups |-> ups])
<1>1. /\ ShapeInv /\ Stamp /\ op[h].pc = "idle" /\ mu = None /\ mu' = h /\ Goto(h, request)
      /\ rows' = [c \in Channels |-> IF c \in cs THEN new(c) ELSE rows[c]]
  BY DEF UpdateProxy, PublishInv
<1>2. cs \subseteq Channels /\ request \in Ops
  BY DEF Ops, Existing
<1>3. /\ op'[h] = request /\ op' \in [Handlers -> Ops]
      /\ \A g \in Handlers \ {h} : op'[g] = op[g]
  BY <1>1, <1>2, Moves DEF ShapeInv
<1>4. /\ mu' \in Handlers \cup {None}
      /\ \A g \in Handlers : mu' = g <=> op'[g].pc \notin {"idle", "lock"}
  BY <1>1, MuKept
<1>5. rows \in [Channels -> Rows \cup {None}] /\ Existing \subseteq used /\ used \subseteq Channels
  BY <1>1 DEF ShapeInv, TypeOK, Rows
<1>6. clock' \in 1..MaxRev /\ clock' = clock + 1
  BY <1>1, BoundsAssumption DEF Stamp, ShapeInv
<1>7. \A c \in cs : new(c) \in Rows /\ new(c) # None /\ new(c).rev = clock'
  BY <1>1, <1>2, <1>5, RowFacts DEF Existing, Rows
<1>8. /\ rows' \in [Channels -> Rows \cup {None}]
      /\ \A c \in cs : rows'[c] = new(c)
      /\ \A d \in Channels \ cs : rows'[d] = rows[d] /\ Source(rows[d])' = Source(rows[d])
  BY <1>1, <1>2, <1>5, <1>7 DEF Source
<1> HIDE DEF new
<1>9. HolderInv'
  <2>1. Reads(h)'
    BY <1>3 DEF Reads
  <2> QED
    BY <2>1, <1>1, <1>3, NoHolder, ReadsHolder
<1>10. \A c \in cs : Unpublished(c)' /\ Retiring(c)'
  BY <1>2, <1>3 DEF Unpublished, Pending, Retiring, Retires
<1> QED
  BY <1>1, <1>2, <1>3, <1>4, <1>5, <1>6, <1>7, <1>8, <1>9, <1>10, Commit
  DEF UpdateProxy, Existing

\* Imports commit while another request is under channelMu: what that request has
\* read is no longer current, but the import is queued.
LEMMA ImportKeepsReads ==
  ASSUME PublishInv, NEW h \in Handlers, NEW cs \in SUBSET Channels,
         viewer' = viewer, op[h].pc = "idle", op'[h].pc = "lock", op'[h].todo = cs,
         \A g \in Handlers \ {h} : op'[g] = op[g],
         \A c \in cs : /\ rows[c] # None /\ rows'[c] # None
                       /\ rows'[c].transcode = rows[c].transcode
                       /\ op'[h].invalidate \/ Source(rows[c])' = Source(rows[c]),
         \A c \in Channels \ cs : rows'[c] = rows[c] /\ Source(rows[c])' = Source(rows[c])
  PROVE  HolderInv'
<1>1. \A c \in cs : Queued(c)' /\ (op'[h].invalidate => QueuedChange(c)')
  BY DEF Queued, QueuedChange
<1>2. \A c \in Channels : (Queued(c) => Queued(c)') /\ (QueuedChange(c) => QueuedChange(c)')
  BY DEF Queued, QueuedChange
<1>3. ASSUME NEW g \in Handlers
      PROVE  Reads(g)'
  <2>1. CASE g = h
    BY <2>1 DEF Reads
  <2>2. CASE g # h /\ op[g].pc \notin {"commit", "after", "upstreams", "publish"}
    <3>1. op[g] \in Ops /\ Reads(g)
      BY ReadsParts DEF PublishInv, ShapeInv
    <3>2. op[g].pc = "block" => \A c \in op[g].remove : c \in Channels /\ rows'[c] = None
      BY <3>1, OpFields DEF Reads
    <3> QED
      BY <2>2, <3>2 DEF Reads
  <2>3. CASE g # h /\ op[g].pc \in {"commit", "after", "upstreams", "publish"}
    <3>1. op[g] \in Ops /\ Reads(g)
      BY ReadsParts DEF PublishInv, ShapeInv
    <3>2. PICK c \in Channels : op[g].c = c
      BY <3>1, <2>3, OpFields
    <3>3. op'[g] = op[g]
      BY <2>3
    <3>4. rows[c] # None /\ rows'[c] # None /\ (c \notin cs => rows'[c] = rows[c])
      BY <2>3, <3>1, <3>2 DEF Reads
    <3>5. Source(rows[c])' = Source(rows[c]) \/ QueuedChange(c)'
      BY <1>1
    <3>6. op[g].pc = "commit" => op'[g].before = Source(rows[c])' \/ QueuedChange(c)'
      BY <3>1, <3>2, <3>3, <3>5, <1>2 DEF Reads
    <3>7. op[g].pc = "upstreams" => op[g].transcode = rows'[c].transcode
      BY <3>1, <3>2, <3>4 DEF Reads
    <3>8. op[g].pc \in {"upstreams", "publish"} => op[g].rev = rows'[c].rev \/ Queued(c)'
      BY <3>1, <3>2, <3>4, <1>1, <1>2 DEF Reads
    <3>9. op[g].pc \in {"upstreams", "publish"} =>
            \A v \in Viewers : Holds(v, c)' /\ viewer'[v].row.rev = op[g].rev =>
              Source(viewer[v].row)' = Source(rows[c])' \/ QueuedChange(c)'
      <4>1. \A v \in Viewers : Holds(v, c)' = Holds(v, c)
                               /\ Source(viewer[v].row)' = Source(viewer[v].row)
        BY DEF Holds, Source
      <4> QED
        BY <4>1, <3>1, <3>2, <3>5, <1>2 DEF Reads
    <3> QED
      BY <2>3, <3>2, <3>3, <3>4, <3>6, <3>7, <3>8, <3>9 DEF Reads
  <2> QED
    BY <2>1, <2>2, <2>3
<1> QED
  BY <1>3, ReadsParts

LEMMA ImportChannelsInv ==
  ASSUME PublishInv, NEW h \in Handlers, NEW cs \in SUBSET Existing, NEW ups \in Upstreams,
         ImportChannels(h, cs, ups)
  PROVE  PublishInv'
<1> DEFINE request == [pc |-> "lock", todo |-> cs, invalidate |-> TRUE]
           new(c) == Row([transcode |-> rows[c].transcode, ups |-> ups])
<1>1. /\ ShapeInv /\ Stamp /\ op[h].pc = "idle" /\ mu' = mu /\ Goto(h, request)
      /\ rows' = [c \in Channels |-> IF c \in cs THEN new(c) ELSE rows[c]]
  BY DEF ImportChannels, PublishInv
<1>2. cs \subseteq Channels /\ request \in Ops
  BY DEF Ops, Existing
<1>3. /\ op'[h] = request /\ op' \in [Handlers -> Ops]
      /\ \A g \in Handlers \ {h} : op'[g] = op[g]
  BY <1>1, <1>2, Moves DEF ShapeInv
<1>4. /\ mu' \in Handlers \cup {None}
      /\ \A g \in Handlers : mu' = g <=> op'[g].pc \notin {"idle", "lock"}
  BY <1>1, MuKept
<1>5. rows \in [Channels -> Rows \cup {None}] /\ Existing \subseteq used /\ used \subseteq Channels
  BY <1>1 DEF ShapeInv, TypeOK, Rows
<1>6. clock' \in 1..MaxRev /\ clock' = clock + 1
  BY <1>1, BoundsAssumption DEF Stamp, ShapeInv
<1>7. \A c \in cs : /\ new(c) \in Rows /\ new(c) # None /\ new(c).rev = clock'
                    /\ new(c).transcode = rows[c].transcode
  BY <1>1, <1>2, <1>5, RowFacts DEF Existing, Rows
<1>8. /\ rows' \in [Channels -> Rows \cup {None}]
      /\ \A c \in cs : rows[c] # None /\ rows'[c] = new(c)
      /\ \A d \in Channels \ cs : rows'[d] = rows[d] /\ Source(rows[d])' = Source(rows[d])
  BY <1>1, <1>2, <1>5, <1>7 DEF Source, Existing
<1> HIDE DEF new
<1>9. HolderInv'
  <2>1. op'[h].pc = "lock" /\ op'[h].todo = cs /\ op'[h].invalidate /\ viewer' = viewer
    BY <1>3 DEF ImportChannels
  <2>2. \A c \in cs : /\ rows[c] # None /\ rows'[c] # None
                      /\ rows'[c].transcode = rows[c].transcode
    BY <1>7, <1>8
  <2> HIDE DEF request
  <2> QED
    BY <2>1, <2>2, <1>1, <1>2, <1>3, <1>8, ImportKeepsReads
<1>10. \A c \in cs : Unpublished(c)' /\ Retiring(c)'
  BY <1>2, <1>3 DEF Unpublished, Pending, Retiring, Retires
<1> QED
  BY <1>1, <1>2, <1>3, <1>4, <1>5, <1>6, <1>7, <1>8, <1>9, <1>10, Commit
  DEF ImportChannels, Existing

LEMMA ImportRelayInv ==
  ASSUME PublishInv, NEW h \in Handlers, NEW cs \in SUBSET Existing, ImportRelay(h, cs)
  PROVE  PublishInv'
<1> DEFINE request == [pc |-> "lock", todo |-> cs, invalidate |-> FALSE]
           new(c) == Row(rows[c])
<1>1. /\ ShapeInv /\ Stamp /\ op[h].pc = "idle" /\ mu' = mu /\ Goto(h, request)
      /\ rows' = [c \in Channels |-> IF c \in cs THEN new(c) ELSE rows[c]]
  BY DEF ImportRelay, PublishInv
<1>2. cs \subseteq Channels /\ request \in Ops
  BY DEF Ops, Existing
<1>3. /\ op'[h] = request /\ op' \in [Handlers -> Ops]
      /\ \A g \in Handlers \ {h} : op'[g] = op[g]
  BY <1>1, <1>2, Moves DEF ShapeInv
<1>4. /\ mu' \in Handlers \cup {None}
      /\ \A g \in Handlers : mu' = g <=> op'[g].pc \notin {"idle", "lock"}
  BY <1>1, MuKept
<1>5. rows \in [Channels -> Rows \cup {None}] /\ Existing \subseteq used /\ used \subseteq Channels
  BY <1>1 DEF ShapeInv, TypeOK, Rows
<1>6. clock' \in 1..MaxRev /\ clock' = clock + 1
  BY <1>1, BoundsAssumption DEF Stamp, ShapeInv
<1>7. \A c \in cs : /\ new(c) \in Rows /\ new(c) # None /\ new(c).rev = clock'
                    /\ new(c).transcode = rows[c].transcode
                    /\ Source(new(c)) = Source(rows[c])
  BY <1>1, <1>2, <1>5, RowFacts DEF Existing, Rows, Source
<1>8. /\ rows' \in [Channels -> Rows \cup {None}]
      /\ \A c \in cs : rows[c] # None /\ rows'[c] = new(c)
      /\ \A d \in Channels \ cs : rows'[d] = rows[d]
      /\ \A d \in Channels : Source(rows[d])' = Source(rows'[d])
  BY <1>1, <1>2, <1>5, <1>7 DEF Source, Existing
<1> HIDE DEF new
<1>9. \A d \in Channels : Source(rows[d])' = Source(rows[d])
  BY <1>7, <1>8
<1>10. HolderInv'
  <2>1. op'[h].pc = "lock" /\ op'[h].todo = cs /\ viewer' = viewer
    BY <1>3 DEF ImportRelay
  <2>2. \A c \in cs : /\ rows[c] # None /\ rows'[c] # None
                      /\ rows'[c].transcode = rows[c].transcode
    BY <1>7, <1>8
  <2> HIDE DEF request
  <2> QED
    BY <2>1, <2>2, <1>1, <1>2, <1>3, <1>8, <1>9, ImportKeepsReads
<1>11. \A c \in cs : Unpublished(c)'
  BY <1>2, <1>3 DEF Unpublished, Pending
<1> QED
  BY <1>1, <1>2, <1>3, <1>4, <1>5, <1>6, <1>7, <1>8, <1>9, <1>10, <1>11, Commit
  DEF ImportRelay, Existing

LEMMA RestoreLibraryInv ==
  ASSUME PublishInv, NEW h \in Handlers, NEW cs \in SUBSET Channels, NEW src \in Sources,
         RestoreLibrary(h, cs, src)
  PROVE  PublishInv'
<1>1. /\ ShapeInv /\ Stamp /\ op[h].pc = "idle" /\ mu = None
      /\ rows' = [c \in Channels |-> IF c \in cs THEN Row(src) ELSE None]
      /\ used' = used \cup cs
      /\ \A g \in Handlers : op[g].pc \in {"idle", "lock"}
  BY NoHolder DEF RestoreLibrary, PublishInv
<1>2. rows \in [Channels -> Rows \cup {None}] /\ Existing \subseteq used /\ used \subseteq Channels
  BY <1>1 DEF ShapeInv, TypeOK, Rows
<1>3. /\ clock' \in 1..MaxRev /\ clock' = clock + 1
      /\ Row(src) \in Rows /\ Row(src) # None /\ Row(src).rev = clock'
  BY <1>1, RowFacts DEF Sources
<1>4. /\ rows' \in [Channels -> Rows \cup {None}]
      /\ \A c \in cs : rows'[c] = Row(src)
      /\ \A c \in Channels \ cs : rows'[c] = None
  BY <1>1, <1>3
<1>5. CASE Existing \subseteq cs
  <2>1. PublishRest(h, "ids", cs, TRUE)
    BY <1>5 DEF RestoreLibrary
  <2>2. /\ op' \in [Handlers -> Ops]
        /\ \A g \in Handlers \ {h} : op'[g] = op[g]
        /\ op'[h].pc \in {"idle", "load"}
        /\ Pending(h)' = cs
        /\ \A c \in Channels : Retires(h, c)' <=> c \in cs /\ TRUE
        /\ mu' \in Handlers \cup {None}
        /\ \A g \in Handlers : mu' = g <=> op'[g].pc \notin {"idle", "lock"}
    BY <1>1, <2>1, RestMoves
  <2>3. HolderInv'
    <3>1. Reads(h)'
      BY <2>2 DEF Reads
    <3> QED
      BY <3>1, <1>1, <2>2, ReadsHolder
  <2>4. \A c \in cs : Unpublished(c)' /\ Retiring(c)'
    BY <2>2 DEF Unpublished, Retiring
  <2> QED
    BY <1>1, <1>2, <1>3, <1>4, <1>5, <2>2, <2>3, <2>4, Commit DEF RestoreLibrary, Existing
<1>6. CASE ~(Existing \subseteq cs)
  <2> DEFINE request == [pc |-> "block", remove |-> Existing \ cs, todo |-> cs]
  <2>1. Goto(h, request) /\ mu' = h
    BY <1>6 DEF RestoreLibrary
  <2>2. request \in Ops
    BY DEF Ops, Existing
  <2>3. /\ op'[h] = request /\ op' \in [Handlers -> Ops]
        /\ \A g \in Handlers \ {h} : op'[g] = op[g]
    BY <1>1, <2>1, <2>2, Moves DEF ShapeInv
  <2>4. /\ mu' \in Handlers \cup {None}
        /\ \A g \in Handlers : mu' = g <=> op'[g].pc \notin {"idle", "lock"}
    BY <1>1, <2>1, MuKept
  <2>5. HolderInv'
    <3>1. \A c \in Existing \ cs : rows'[c] = None
      BY <1>4 DEF Existing
    <3>2. Reads(h)'
      BY <2>3, <3>1 DEF Reads
    <3> QED
      BY <3>2, <1>1, <2>3, ReadsHolder
  <2>6. \A c \in cs : Unpublished(c)' /\ Retiring(c)'
    BY <2>3 DEF Unpublished, Pending, Retiring, Retires
  <2>7. \A c \in Existing \ cs : Blocking(c)'
    BY <2>3 DEF Blocking
  <2>8. op'[h].remove \subseteq used'
    BY <1>1, <1>2, <2>3
  <2> QED
    BY <1>1, <1>2, <1>3, <1>4, <2>3, <2>4, <2>5, <2>6, <2>7, <2>8, Commit
    DEF RestoreLibrary, Existing
<1> QED
  BY <1>5, <1>6

\* The id of a new channel is unknown to the manager and to every request.
LEMMA CreateChannelInv ==
  ASSUME PublishInv, NEW c \in Channels, NEW src \in Sources, CreateChannel(c, src)
  PROVE  PublishInv'
<1> USE DEF managerVars
<1>1. /\ ShapeInv /\ ClockInv /\ UsedInv /\ HolderInv /\ ViewerInv /\ Stamp /\ c \notin used
      /\ clock \in Nat
      /\ UNCHANGED <<closed, revisions, blocked, sessions, mu, op, viewer, owed>>
      /\ used' = used \cup {c}
  BY DEF CreateChannel, PublishInv, ShapeInv
<1>2. rows \in [Channels -> Rows \cup {None}] /\ Existing \subseteq used /\ used \subseteq Channels
  BY <1>1 DEF ShapeInv, TypeOK, Rows
<1>3. /\ clock' \in 1..MaxRev /\ clock' = clock + 1
      /\ Row(src) \in Rows /\ Row(src) # None /\ Row(src).rev = clock'
  BY <1>1, RowFacts DEF Sources
<1>4. /\ rows' \in [Channels -> Rows \cup {None}] /\ rows'[c] = Row(src) /\ rows[c] = None
      /\ \A d \in Channels \ {c} : rows'[d] = rows[d] /\ Source(rows[d])' = Source(rows[d])
  BY <1>1, <1>2, <1>3 DEF CreateChannel, Source, Existing
<1>5. \A v \in Viewers : Holds(v, c)' <=> FALSE
  BY <1>1 DEF UsedInv, Holds
<1>6. ShapeInv'
  BY <1>1, <1>2, <1>3, <1>4 DEF ShapeInv, TypeOK, Existing, Rows
<1>7. ClockInv'
  <2>1. \A d \in Channels : rows[d] # None => rows[d].rev \in Nat
    BY <1>2 DEF Rows
  <2>2. \A v \in Viewers : viewer[v].pc \in {"upstreams", "subscribe"} => viewer[v].row.rev \in Nat
    BY <1>1, ViewFields DEF ShapeInv, Rows
  <2> QED
    BY <2>1, <2>2, <1>1, <1>3, <1>4 DEF ClockInv, Holds
<1>8. UsedInv'
  BY <1>1 DEF UsedInv, Holds
<1>9. HolderInv'
  <2>1. ASSUME NEW h \in Handlers
        PROVE  Reads(h)'
    <3>1. op[h] \in Ops /\ Reads(h) /\ op'[h] = op[h]
      BY <1>1, ReadsParts DEF ShapeInv
    <3>2. CASE op[h].pc \in {"commit", "after", "upstreams", "publish"}
      <4>1. PICK d \in Channels \ {c} : op[h].c = d
        BY <3>1, <3>2, <1>4, OpFields DEF Reads
      <4>2. /\ Queued(d)' <=> Queued(d)
            /\ QueuedChange(d)' <=> QueuedChange(d)
            /\ rows'[d] = rows[d] /\ Source(rows[d])' = Source(rows[d])
        BY <1>1, <1>4 DEF Queued, QueuedChange
      <4>3. \A v \in Viewers : /\ Holds(v, d)' <=> Holds(v, d)
                               /\ Source(viewer[v].row)' = Source(viewer[v].row)
        BY <1>1 DEF Holds, Source
      <4> QED
        BY <3>1, <3>2, <4>1, <4>2, <4>3, <1>1 DEF Reads
    <3>3. CASE op[h].pc \notin {"commit", "after", "upstreams", "publish"}
      <4>1. op[h].pc = "block" => \A d \in op[h].remove : d \in Channels \ {c}
        BY <3>1, <1>1, OpFields DEF UsedInv
      <4> QED
        BY <3>1, <3>3, <4>1, <1>4 DEF Reads
    <3> QED
      BY <3>2, <3>3
  <2> QED
    BY <2>1, ReadsParts
<1>10. ViewerInv'
  BY <1>1, <1>4, <1>5 DEF ViewerInv, Holds
<1>11. ASSUME NEW d \in Channels \ owed'
       PROVE  Served(d)'
  <2>1. Served(d)
    BY <1>1, ServedParts DEF PublishInv
  <2>2. CASE d = c
    BY <2>2, <1>1, <1>3, <1>4, <1>5 DEF Served, Gone, Published, Sourced, UsedInv
  <2>3. CASE d # c
    <3>1. /\ Unpublished(d)' <=> Unpublished(d)
          /\ Blocking(d)' <=> Blocking(d)
      BY <1>1 DEF Unpublished, Pending, Blocking
    <3>2. Retiring(d)' <=> Retiring(d)
      BY <1>1, <1>4, <2>3 DEF Retiring, Retires
    <3>3. Source(rows[d])' = Source(rows'[d])
      BY DEF Source
    <3> QED
      BY <2>1, <2>3, <3>1, <3>2, <3>3, <1>1, <1>4, ServedFrame
  <2> QED
    BY <2>2, <2>3
<1>12. GoneInv' /\ RevisionInv' /\ SourceInv'
  BY <1>11, ServedPartsPrime
<1> QED
  BY <1>6, <1>7, <1>8, <1>9, <1>10, <1>12 DEF PublishInv

(***************************************************************************)
(* Telling the manager: the step settles c and keeps the other work.       *)
(***************************************************************************)
LEMMA Tells ==
  ASSUME PublishInv, NEW h \in Handlers, NEW c \in Channels,
         UNCHANGED <<storeVars, viewer, closed>>,
         op[h].pc \in {"publish", "block"}, op'[h].pc \in {"idle", "load", "block"},
         op' \in [Handlers -> Ops],
         \A g \in Handlers \ {h} : op'[g] = op[g],
         mu' \in Handlers \cup {None},
         \A g \in Handlers : mu' = g <=> op'[g].pc \notin {"idle", "lock"},
         revisions' \in [Channels -> 0..MaxRev], blocked' \subseteq Channels,
         sessions' \in [Channels -> (Channels \X Sources) \cup {None}],
         \A d \in Channels \ {c} : /\ revisions'[d] = revisions[d]
                                   /\ sessions'[d] = sessions[d]
                                   /\ d \in blocked' <=> d \in blocked,
         owed' \subseteq Channels, owed \ {c} \subseteq owed',
         \A d \in Channels \ (owed' \cup {c}) :
           /\ rows[d] # None /\ d \in Pending(h) => Unpublished(d)'
           /\ rows[d] # None /\ Retires(h, d) => Retiring(d)'
           /\ op[h].pc = "block" /\ d \in op[h].remove => Blocking(d)',
         op'[h].pc = "block" => op[h].pc = "block" /\ op'[h].remove \subseteq op[h].remove,
         c \in used, c \notin owed' => Served(c)'
  PROVE  PublishInv'
<1> USE DEF storeVars
<1>1. ShapeInv /\ ClockInv /\ UsedInv /\ HolderInv /\ ViewerInv
  BY DEF PublishInv
<1>2. ShapeInv'
  BY <1>1 DEF ShapeInv, TypeOK, Existing
<1>3. ClockInv' /\ ViewerInv'
  BY <1>1 DEF ClockInv, ViewerInv, Holds
<1>4. UsedInv'
  BY <1>1 DEF UsedInv, Holds
<1>5. HolderInv'
  <2>1. \A g \in Handlers \ {h} : op[g].pc \in {"idle", "lock"}
    BY <1>1, OnlyHolder
  <2>2. Reads(h)'
    BY <1>1 DEF Reads, HolderInv
  <2> QED
    BY <2>1, <2>2, ReadsHolder
<1>6. ASSUME NEW d \in Channels \ owed'
      PROVE  Served(d)'
  <2>1. CASE d = c
    BY <2>1, <1>6
  <2>2. CASE d # c
    <3>1. Served(d)
      BY <2>2, ServedParts DEF PublishInv
    <3>2. rows[d] # None => (Unpublished(d) => Unpublished(d)')
      BY <2>2, WorkKept
    <3>3. Source(rows[d])' = Source(rows[d])
      BY DEF Source
    <3>4. rows[d] # None => (Retiring(d) => Retiring(d)')
      BY <2>2, <3>3, WorkKept
    <3>5. Blocking(d) => Blocking(d)'
      BY <2>2, WorkKept
    <3> QED
      BY <2>2, <3>1, <3>2, <3>4, <3>5, ServedFrame
  <2> QED
    BY <2>1, <2>2
<1>7. GoneInv' /\ RevisionInv' /\ SourceInv'
  BY <1>6, ServedPartsPrime
<1> QED
  BY <1>2, <1>3, <1>4, <1>5, <1>7 DEF PublishInv

\* A blocked channel is settled: it has no row and no session.
LEMMA BlockServes ==
  ASSUME NEW c \in Channels, rows'[c] = None, sessions'[c] = None, c \in blocked'
  PROVE  Served(c)'
BY DEF Served, Gone, Published, Sourced

\* A published channel is settled, unless an import that changed it is queued.
LEMMA PublishServes ==
  ASSUME PublishInv, NEW h \in Handlers, op[h].pc = "publish",
         NEW c \in Channels, op[h].c = c,
         \A g \in Handlers \ {h} : op'[g] = op[g],
         UNCHANGED <<rows, viewer>>,
         revisions'[c] = op[h].rev, c \notin blocked',
         op[h].invalidate => sessions'[c] = None,
         ~op[h].invalidate => sessions'[c] = sessions[c] /\ c \notin owed
  PROVE  Served(c)'
<1>1. Reads(h) /\ rows[c] # None /\ op[h].rev \in 1..MaxRev
  BY ReadsParts, OpFields DEF PublishInv, ShapeInv, Reads
<1>2. /\ \A v \in Viewers : /\ Holds(v, c)' <=> Holds(v, c)
                            /\ Source(viewer[v].row)' = Source(viewer[v].row)
      /\ Source(rows[c])' = Source(rows[c])
  BY DEF Holds, Source
<1>3. ~Unpublished(c)' => ~Queued(c)
  BY DEF Unpublished, Queued, Pending
<1>4. ~Retiring(c)' => ~QueuedChange(c)
  <2>1. ASSUME NEW g \in Handlers, op[g].pc = "lock", c \in op[g].todo, op[g].invalidate
        PROVE  Retires(g, c)'
    <3>1. op'[g] = op[g]
      BY <2>1
    <3> QED
      BY <2>1, <3>1 DEF Retires
  <2> QED
    BY <2>1 DEF Retiring, QueuedChange
<1>5. Published(c)'
  BY <1>1, <1>3 DEF Published, Reads
<1>6. Sourced(c)'
  <2> SUFFICES ASSUME ~Retiring(c)'
               PROVE  /\ sessions'[c] \in {None, <<c, Source(rows[c])>>}
                      /\ \A v \in Viewers : Holds(v, c) =>
                           \/ Source(viewer[v].row) = Source(rows[c])
                           \/ revisions'[c] \notin {0, viewer[v].row.rev}
    BY <1>2 DEF Sourced
  <2>1. \A v \in Viewers : Holds(v, c) =>
          \/ Source(viewer[v].row) = Source(rows[c])
          \/ revisions'[c] \notin {0, viewer[v].row.rev}
    BY <1>1, <1>4 DEF Reads
  <2>2. CASE ~op[h].invalidate
    <3>1. ~Retires(h, c)
      BY <2>2 DEF Retires
    <3>2. ~Retiring(c)
      BY <3>1, <1>2, WorkKept
    <3> QED
      BY <2>1, <2>2, <3>2, <1>1 DEF PublishInv, SourceInv
  <2> QED
    BY <2>1, <2>2
<1>7. Gone(c)'
  BY <1>1 DEF Gone
<1> QED
  BY <1>5, <1>6, <1>7 DEF Served

LEMMA BlockRemovedInv ==
  ASSUME PublishInv, NEW h \in Handlers, NEW c \in Channels, BlockRemoved(h, c)
  PROVE  PublishInv'
<1> USE DEF Live!Block, Live!Detach
<1>1. ShapeInv /\ op[h].pc = "block" /\ c \in op[h].remove
  BY DEF BlockRemoved, PublishInv
<1>2. PICK remove \in SUBSET Channels, todo \in SUBSET Channels :
        op[h] = [pc |-> "block", remove |-> remove, todo |-> todo]
  BY <1>1, OpFields DEF ShapeInv
<1>3. rows[c] = None /\ c \in used /\ \A d \in remove : rows[d] = None
  BY <1>1, <1>2 DEF PublishInv, HolderInv, UsedInv
<1>4. Pending(h) = todo \cup remove /\ \A d \in Channels : Retires(h, d) <=> d \in todo
  BY <1>2 DEF Pending, Retires
<1>5. /\ revisions' = [revisions EXCEPT ![c] = 0] /\ blocked' = blocked \cup {c}
      /\ sessions' = [d \in Channels |-> IF d \in {c} THEN None ELSE sessions[d]]
      /\ UNCHANGED <<storeVars, viewer, closed>>
      /\ owed' = owed \ {c}
  BY DEF BlockRemoved
<1>6. Served(c)'
  BY <1>3, <1>5, BlockServes DEF storeVars
<1>7. /\ owed' \subseteq Channels /\ owed \ {c} \subseteq owed'
      /\ revisions' \in [Channels -> 0..MaxRev] /\ blocked' \subseteq Channels
      /\ sessions' \in [Channels -> (Channels \X Sources) \cup {None}]
      /\ \A d \in Channels \ {c} : /\ revisions'[d] = revisions[d]
                                   /\ sessions'[d] = sessions[d]
                                   /\ d \in blocked' <=> d \in blocked
  BY <1>1, <1>5, BoundsAssumption DEF ShapeInv, TypeOK
<1>8. CASE remove = {c}
  <2>1. PublishRest(h, "ids", todo, TRUE)
    <3>1. op[h].remove = {c} /\ op[h].todo = todo
      BY <1>2, <1>8
    <3> QED
      BY <3>1 DEF BlockRemoved
  <2>2. /\ op' \in [Handlers -> Ops]
        /\ \A g \in Handlers \ {h} : op'[g] = op[g]
        /\ op'[h].pc \in {"idle", "load"}
        /\ Pending(h)' = todo
        /\ \A d \in Channels : Retires(h, d)' <=> d \in todo /\ TRUE
        /\ mu' \in Handlers \cup {None}
        /\ \A g \in Handlers : mu' = g <=> op'[g].pc \notin {"idle", "lock"}
    BY <1>1, <2>1, RestMoves
  <2>3. \A d \in Channels \ (owed' \cup {c}) :
          /\ rows[d] # None /\ d \in Pending(h) => Unpublished(d)'
          /\ rows[d] # None /\ Retires(h, d) => Retiring(d)'
          /\ op[h].pc = "block" /\ d \in op[h].remove => Blocking(d)'
    BY <1>2, <1>4, <1>8, <2>2 DEF Unpublished, Retiring
  <2> QED
    BY <1>1, <1>3, <1>5, <1>6, <1>7, <2>2, <2>3, Tells
<1>9. CASE remove # {c}
  <2> DEFINE request == [pc |-> "block", remove |-> remove \ {c}, todo |-> todo]
  <2>1. Goto(h, request) /\ mu' = mu /\ request \in Ops
    <3>1. [op[h] EXCEPT !.remove = @ \ {c}] = request /\ op[h].remove # {c}
      BY <1>2, <1>9
    <3>2. request \in Ops
      BY DEF Ops
    <3> QED
      BY <3>1, <3>2 DEF BlockRemoved
  <2>2. /\ op'[h] = request /\ op' \in [Handlers -> Ops]
        /\ \A g \in Handlers \ {h} : op'[g] = op[g]
    BY <1>1, <2>1, Moves DEF ShapeInv
  <2>3. /\ mu' \in Handlers \cup {None}
        /\ \A g \in Handlers : mu' = g <=> op'[g].pc \notin {"idle", "lock"}
    BY <1>1, <2>1, OnlyHolder, MuKept
  <2>4. Pending(h)' = todo \cup (remove \ {c}) /\ \A d \in Channels : Retires(h, d)' <=> d \in todo
    BY <2>2 DEF Pending, Retires
  <2>5. \A d \in Channels \ (owed' \cup {c}) :
          /\ rows[d] # None /\ d \in Pending(h) => Unpublished(d)'
          /\ rows[d] # None /\ Retires(h, d) => Retiring(d)'
          /\ op[h].pc = "block" /\ d \in op[h].remove => Blocking(d)'
    BY <1>2, <1>4, <2>2, <2>4 DEF Unpublished, Retiring, Blocking
  <2>6. op'[h].pc = "block" /\ op'[h].remove \subseteq op[h].remove
    BY <1>2, <2>2
  <2> HIDE DEF request
  <2> QED
    BY <1>1, <1>3, <1>5, <1>6, <1>7, <2>2, <2>3, <2>5, <2>6, Tells
<1> QED
  BY <1>8, <1>9

LEMMA BlockTimesOutInv ==
  ASSUME PublishInv, NEW h \in Handlers, NEW c \in Channels, BlockTimesOut(h, c)
  PROVE  PublishInv'
<1> USE DEF Live!Block, Live!Detach
<1>1. ShapeInv /\ op[h].pc = "block" /\ c \in op[h].remove /\ Goto(h, IdleOp) /\ mu' = None
  BY DEF BlockTimesOut, PublishInv, Return
<1>2. rows[c] = None /\ c \in used
  BY <1>1 DEF PublishInv, HolderInv, UsedInv
<1>3. Pending(h) \subseteq Channels /\ op[h].remove \subseteq Pending(h)
  BY <1>1, PendingType DEF Pending
<1>4. /\ revisions' = [revisions EXCEPT ![c] = 0] /\ blocked' = blocked \cup {c}
      /\ sessions' = [d \in Channels |-> IF d \in {c} THEN None ELSE sessions[d]]
      /\ UNCHANGED <<storeVars, viewer, closed>>
      /\ owed' = (owed \cup Pending(h)) \ {c}
  BY DEF BlockTimesOut
<1>5. Served(c)'
  BY <1>2, <1>4, BlockServes DEF storeVars
<1>6. /\ owed' \subseteq Channels /\ owed \ {c} \subseteq owed'
      /\ revisions' \in [Channels -> 0..MaxRev] /\ blocked' \subseteq Channels
      /\ sessions' \in [Channels -> (Channels \X Sources) \cup {None}]
      /\ \A d \in Channels \ {c} : /\ revisions'[d] = revisions[d]
                                   /\ sessions'[d] = sessions[d]
                                   /\ d \in blocked' <=> d \in blocked
  BY <1>1, <1>3, <1>4, BoundsAssumption DEF ShapeInv, TypeOK
<1>7. /\ op'[h].pc = "idle" /\ op' \in [Handlers -> Ops]
      /\ \A g \in Handlers \ {h} : op'[g] = op[g]
  BY <1>1, Moves DEF ShapeInv, Ops, IdleOp
<1>8. /\ mu' \in Handlers \cup {None}
      /\ \A g \in Handlers : mu' = g <=> op'[g].pc \notin {"idle", "lock"}
  BY <1>1, MuKept DEF IdleOp
<1>9. \A d \in Channels : Retires(h, d) => d \in Pending(h)
  BY DEF Retires, Pending
<1>10. \A d \in Channels \ (owed' \cup {c}) : d \notin Pending(h) /\ d \notin op[h].remove
  BY <1>3, <1>4
<1> QED
  BY <1>1, <1>2, <1>4, <1>5, <1>6, <1>7, <1>8, <1>9, <1>10, Tells

\* What a publication reads, and how the manager follows it.
LEMMA PublishFacts ==
  ASSUME PublishInv, NEW h \in Handlers, op[h].pc = "publish",
         Live!Publish(op[h].c, op[h].rev, op[h].invalidate)
  PROVE  /\ op[h].c \in Channels /\ op[h].c \in used /\ op[h].todo \subseteq Channels
         /\ op[h].invalidate \in BOOLEAN
         /\ revisions' \in [Channels -> 0..MaxRev] /\ blocked' \subseteq Channels
         /\ sessions' \in [Channels -> (Channels \X Sources) \cup {None}]
         /\ \A d \in Channels \ {op[h].c} : /\ revisions'[d] = revisions[d]
                                            /\ sessions'[d] = sessions[d]
                                            /\ d \in blocked' <=> d \in blocked
         /\ revisions'[op[h].c] = op[h].rev /\ op[h].c \notin blocked'
         /\ op[h].invalidate => sessions'[op[h].c] = None
         /\ ~op[h].invalidate => sessions'[op[h].c] = sessions[op[h].c]
         /\ closed' = closed
<1>1. ShapeInv /\ op[h] \in Ops
  BY DEF PublishInv, ShapeInv
<1>2. PICK c \in Channels, rev \in 1..MaxRev :
        /\ op[h].c = c /\ op[h].rev = rev
        /\ op[h].todo \subseteq Channels /\ op[h].invalidate \in BOOLEAN
  BY <1>1, OpFields
<1>3. rows[c] # None /\ c \in used
  BY <1>1, <1>2 DEF PublishInv, HolderInv, ShapeInv, TypeOK, Existing
<1>4. revisions' = [revisions EXCEPT ![c] = rev] /\ blocked' = blocked \ {c} /\ closed' = closed
  BY <1>2 DEF Live!Publish, Live!Record
<1>5. PICK cs \in SUBSET {c} :
        /\ sessions' = [d \in Channels |-> IF d \in cs THEN None ELSE sessions[d]]
        /\ op[h].invalidate => cs = {c}
        /\ ~op[h].invalidate => cs = {}
  BY <1>2 DEF Live!Publish, Live!Detach
<1>6. revisions \in [Channels -> 0..MaxRev] /\ blocked \subseteq Channels
      /\ sessions \in [Channels -> (Channels \X Sources) \cup {None}]
  BY <1>1 DEF ShapeInv, TypeOK
<1> QED
  BY <1>2, <1>3, <1>4, <1>5, <1>6

LEMMA PublishChannelInv ==
  ASSUME PublishInv, NEW h \in Handlers, PublishChannel(h)
  PROVE  PublishInv'
<1>1. ShapeInv /\ op[h].pc = "publish" /\ Live!Publish(op[h].c, op[h].rev, op[h].invalidate)
  BY DEF PublishChannel, PublishInv
<1>2. PICK c \in Channels, todo \in SUBSET Channels, invalidate \in BOOLEAN, kind \in {op[h].kind} :
        /\ op[h].c = c /\ op[h].todo = todo /\ op[h].invalidate = invalidate /\ op[h].kind = kind
  BY <1>1, PublishFacts
<1>3. /\ c \in used
      /\ revisions' \in [Channels -> 0..MaxRev] /\ blocked' \subseteq Channels
      /\ sessions' \in [Channels -> (Channels \X Sources) \cup {None}]
      /\ \A d \in Channels \ {c} : /\ revisions'[d] = revisions[d]
                                   /\ sessions'[d] = sessions[d]
                                   /\ d \in blocked' <=> d \in blocked
      /\ revisions'[c] = op[h].rev /\ c \notin blocked'
      /\ op[h].invalidate => sessions'[c] = None
      /\ ~op[h].invalidate => sessions'[c] = sessions[c]
      /\ closed' = closed
  BY <1>1, <1>2, PublishFacts
<1>4. /\ PublishRest(h, kind, todo, invalidate)
      /\ UNCHANGED <<storeVars, viewer>>
      /\ owed' = IF invalidate THEN owed \ {c} ELSE owed
  BY <1>2 DEF PublishChannel
<1>5. kind \in {"proxy", "ids"} \/ todo = {}
  BY <1>1, <1>2, OpFields DEF ShapeInv
<1>6. /\ op' \in [Handlers -> Ops]
      /\ \A g \in Handlers \ {h} : op'[g] = op[g]
      /\ op'[h].pc \in {"idle", "load"}
      /\ Pending(h)' = todo
      /\ \A d \in Channels : Retires(h, d)' <=> d \in todo /\ invalidate
      /\ mu' \in Handlers \cup {None}
      /\ \A g \in Handlers : mu' = g <=> op'[g].pc \notin {"idle", "lock"}
  BY <1>1, <1>4, <1>5, RestMoves
<1>7. Pending(h) = todo \cup {c}
  BY <1>1, <1>2 DEF Pending
<1>8. \A d \in Channels \ {c} : Retires(h, d) => d \in todo /\ invalidate
  BY <1>1, <1>2 DEF Retires
<1>9. c \notin owed' => Served(c)'
  BY <1>1, <1>2, <1>3, <1>4, <1>6, PublishServes DEF storeVars
<1>10. owed' \subseteq Channels /\ owed \ {c} \subseteq owed'
  BY <1>1, <1>4 DEF ShapeInv
<1>11. \A d \in Channels \ (owed' \cup {c}) :
         /\ rows[d] # None /\ d \in Pending(h) => Unpublished(d)'
         /\ rows[d] # None /\ Retires(h, d) => Retiring(d)'
  BY <1>6, <1>7, <1>8 DEF Unpublished, Retiring
<1> QED
  BY <1>1, <1>3, <1>4, <1>6, <1>9, <1>10, <1>11, Tells

LEMMA PublishTimesOutInv ==
  ASSUME PublishInv, NEW h \in Handlers, PublishTimesOut(h)
  PROVE  PublishInv'
<1>1. /\ ShapeInv /\ op[h].pc = "publish" /\ op[h].invalidate
      /\ Goto(h, IdleOp) /\ mu' = None
  BY DEF PublishTimesOut, PublishInv, Return
<1>2. op[h].invalidate = TRUE
  BY <1>1, OpFields DEF ShapeInv
<1>3. Live!Publish(op[h].c, op[h].rev, op[h].invalidate)
  BY <1>2 DEF PublishTimesOut
<1>4. PICK c \in Channels, todo \in SUBSET Channels :
        /\ op[h].c = c /\ op[h].todo = todo
  BY <1>1, <1>3, PublishFacts
<1>5. /\ c \in used
      /\ revisions' \in [Channels -> 0..MaxRev] /\ blocked' \subseteq Channels
      /\ sessions' \in [Channels -> (Channels \X Sources) \cup {None}]
      /\ \A d \in Channels \ {c} : /\ revisions'[d] = revisions[d]
                                   /\ sessions'[d] = sessions[d]
                                   /\ d \in blocked' <=> d \in blocked
      /\ revisions'[c] = op[h].rev /\ c \notin blocked'
      /\ op[h].invalidate => sessions'[c] = None
      /\ closed' = closed
  BY <1>1, <1>3, <1>4, PublishFacts
<1>6. UNCHANGED <<storeVars, viewer>> /\ owed' = (owed \cup todo) \ {c}
  BY <1>4 DEF PublishTimesOut
<1>7. /\ op'[h].pc = "idle" /\ op' \in [Handlers -> Ops]
      /\ \A g \in Handlers \ {h} : op'[g] = op[g]
  BY <1>1, Moves DEF ShapeInv, Ops, IdleOp
<1>8. /\ mu' \in Handlers \cup {None}
      /\ \A g \in Handlers : mu' = g <=> op'[g].pc \notin {"idle", "lock"}
  BY <1>1, MuKept DEF IdleOp
<1>9. Pending(h) = todo \cup {c} /\ \A d \in Channels \ {c} : Retires(h, d) => d \in todo
  BY <1>1, <1>4 DEF Pending, Retires
<1>10. Served(c)'
  BY <1>1, <1>4, <1>5, <1>6, <1>7, PublishServes DEF storeVars
<1>11. owed' \subseteq Channels /\ owed \ {c} \subseteq owed'
  BY <1>1, <1>6 DEF ShapeInv
<1>12. \A d \in Channels \ (owed' \cup {c}) : d \notin Pending(h) /\ ~Retires(h, d)
  BY <1>6, <1>9
<1> QED
  BY <1>1, <1>5, <1>6, <1>7, <1>8, <1>10, <1>11, <1>12, Tells

(***************************************************************************)
(* Viewers.                                                                *)
(***************************************************************************)

\* A viewer forgets its row, reads the current one, or keeps the row's revision
\* and brings its source no further from the current one.
LEMMA ViewerMoves ==
  ASSUME PublishInv, NEW v \in Viewers, NEW w \in Views, Becomes(v, w),
         UNCHANGED <<managerVars, storeVars, mu, op, owed>>,
         w.pc \in {"upstreams", "subscribe"} =>
           \/ rows[w.c] # None /\ w.row = rows[w.c]
           \/ /\ Holds(v, w.c) /\ w.row.rev = viewer[v].row.rev
              /\ rows[w.c] # None =>
                   /\ viewer[v].row = rows[w.c] => w.row = rows[w.c]
                   /\ Source(viewer[v].row) = Source(rows[w.c]) => Source(w.row) = Source(rows[w.c])
  PROVE  PublishInv'
<1> USE DEF managerVars, storeVars
<1>1. ShapeInv /\ ClockInv /\ UsedInv /\ HolderInv /\ ViewerInv
  BY DEF PublishInv
<1>2. /\ viewer'[v] = w /\ viewer' \in [Viewers -> Views]
      /\ \A u \in Viewers \ {v} : viewer'[u] = viewer[u]
  BY <1>1 DEF Becomes, ShapeInv
<1>3. \A u \in Viewers, c \in Channels : Holds(u, c)' =>
        \/ u = v /\ w.c = c /\ rows[c] # None /\ viewer'[u].row = rows[c]
        \/ /\ Holds(u, c) /\ viewer'[u].row.rev = viewer[u].row.rev
           /\ rows[c] # None =>
                /\ viewer[u].row = rows[c] => viewer'[u].row = rows[c]
                /\ Source(viewer[u].row) = Source(rows[c]) => Source(viewer'[u].row) = Source(rows[c])
  BY <1>2 DEF Holds
<1>4. \A u \in Viewers : Source(viewer[u].row)' = Source(viewer'[u].row)
  BY DEF Source
<1>5. \A c \in Channels : Source(rows[c])' = Source(rows[c])
  BY DEF Source
<1>6. ShapeInv'
  BY <1>1, <1>2 DEF ShapeInv, TypeOK, Existing
<1>7. ClockInv'
  BY <1>1, <1>3 DEF ClockInv
<1>8. UsedInv'
  <2>1. \A c \in Channels : rows[c] # None => c \in used
    BY <1>1 DEF ShapeInv, TypeOK, Existing
  <2> QED
    BY <2>1, <1>1, <1>3 DEF UsedInv
<1>9. HolderInv'
  <2>1. ASSUME NEW h \in Handlers
        PROVE  Reads(h)'
    <3>1. Reads(h) /\ op[h] \in Ops /\ op'[h] = op[h]
      BY <1>1, ReadsParts DEF ShapeInv
    <3>2. CASE op[h].pc \in {"commit", "after", "upstreams", "publish"}
      <4>1. PICK c \in Channels : op[h].c = c
        BY <3>1, <3>2, OpFields
      <4>2. (Queued(c)' <=> Queued(c)) /\ (QueuedChange(c)' <=> QueuedChange(c))
        BY DEF Queued, QueuedChange
      <4>3. rows[c] # None
        BY <3>1, <3>2, <4>1 DEF Reads
      <4>4. op[h].pc \in {"upstreams", "publish"} =>
              \A u \in Viewers : Holds(u, c)' /\ viewer'[u].row.rev = op[h].rev =>
                Source(viewer[u].row)' = Source(rows[c])' \/ QueuedChange(c)'
        BY <3>1, <4>1, <4>2, <4>3, <1>3, <1>4, <1>5 DEF Reads
      <4> QED
        BY <3>1, <3>2, <4>1, <4>2, <4>4, <1>5 DEF Reads
    <3>3. CASE op[h].pc \notin {"commit", "after", "upstreams", "publish"}
      BY <3>1, <3>3 DEF Reads
    <3> QED
      BY <3>2, <3>3
  <2> QED
    BY <2>1, ReadsParts
<1>10. ViewerInv'
  BY <1>1, <1>3 DEF ViewerInv
<1>11. ASSUME NEW c \in Channels \ owed
       PROVE  Served(c)'
  <2>1. Served(c)
    BY ServedParts DEF PublishInv
  <2>2. /\ Unpublished(c)' <=> Unpublished(c)
        /\ Blocking(c)' <=> Blocking(c)
        /\ Retiring(c)' <=> Retiring(c)
    BY <1>5 DEF Unpublished, Pending, Blocking, Retiring, Retires
  <2>3. Gone(c)'
    BY <2>1, <2>2, <1>3 DEF Served, Gone
  <2>4. Published(c)'
    BY <2>1, <2>2, <1>3 DEF Served, Published
  <2>5. Sourced(c)'
    BY <2>1, <2>2, <1>3, <1>4, <1>5 DEF Served, Sourced
  <2> QED
    BY <2>3, <2>4, <2>5 DEF Served
<1>12. GoneInv' /\ RevisionInv' /\ SourceInv'
  BY <1>11, ServedPartsPrime
<1> QED
  BY <1>6, <1>7, <1>8, <1>9, <1>10, <1>12 DEF PublishInv

LEMMA ReadRowInv ==
  ASSUME PublishInv, NEW v \in Viewers, NEW c \in Channels, ReadRow(v, c)
  PROVE  PublishInv'
<1>1. CASE rows[c] = None
  <2>1. IdleViewer \in Views /\ IdleViewer.pc = "idle" /\ Becomes(v, IdleViewer)
    BY <1>1 DEF Views, IdleViewer, ReadRow
  <2> QED
    BY <2>1, ViewerMoves DEF ReadRow
<1>2. CASE rows[c] # None
  <2> DEFINE w == [pc |-> "upstreams", c |-> c, row |-> rows[c]]
  <2>1. rows[c] \in Rows
    BY <1>2 DEF PublishInv, ShapeInv, TypeOK, Rows
  <2>2. w \in Views /\ Becomes(v, w) /\ w.c = c /\ w.row = rows[c]
    BY <1>2, <2>1 DEF Views, ReadRow
  <2> HIDE DEF w
  <2> QED
    BY <1>2, <2>2, ViewerMoves DEF ReadRow
<1> QED
  BY <1>1, <1>2

LEMMA ReadUpstreamsInv ==
  ASSUME PublishInv, NEW v \in Viewers, ReadUpstreams(v)
  PROVE  PublishInv'
<1>1. viewer[v] \in Views /\ viewer[v].pc = "upstreams"
  BY DEF ReadUpstreams, PublishInv, ShapeInv
<1>2. PICK c \in Channels, row \in Rows : viewer[v] = [pc |-> "upstreams", c |-> c, row |-> row]
  BY <1>1, ViewFields
<1> DEFINE ups == IF rows[c] = None THEN row.ups ELSE rows[c].ups
           new == [row EXCEPT !.ups = ups]
           w == [pc |-> "subscribe", c |-> c, row |-> new]
<1>3. ups \in Upstreams
  BY DEF PublishInv, ShapeInv, TypeOK, Rows
<1>4. new \in Rows /\ new.rev = row.rev /\ new.transcode = row.transcode /\ new.ups = ups
  BY <1>3 DEF Rows
<1>5. Becomes(v, w)
  <2>1. viewer[v].c = c /\ viewer[v].row = row
    BY <1>2
  <2> QED
    BY <2>1 DEF ReadUpstreams
<1>6. rows[c] # None => (row = rows[c] => new = rows[c])
  BY DEF Rows
<1>7. rows[c] # None => (Source(row) = Source(rows[c]) => Source(new) = Source(rows[c]))
  BY <1>4 DEF Source
<1>8. Holds(v, c) /\ viewer[v].row = row
  BY <1>2 DEF Holds
<1>9. w \in Views /\ w.c = c /\ w.row = new
  BY <1>4 DEF Views
<1> HIDE DEF w, new, ups
<1> QED
  BY <1>4, <1>5, <1>6, <1>7, <1>8, <1>9, ViewerMoves DEF ReadUpstreams

LEMMA RefusedInv ==
  ASSUME PublishInv, NEW v \in Viewers, Refused(v) \/ GiveUp(v)
  PROVE  PublishInv'
<1>1. viewer[v] \in Views
  BY DEF PublishInv, ShapeInv
<1>2. PICK w \in Views : w.pc \in {"idle", "retry"} /\ Becomes(v, w)
  <2>1. IdleViewer \in Views /\ IdleViewer.pc = "idle"
    BY DEF Views, IdleViewer
  <2>2. \A c \in Channels : [pc |-> "retry", c |-> c] \in Views
    BY DEF Views
  <2>3. Refused(v) => viewer[v].c \in Channels
    BY <1>1, ViewFields DEF Refused
  <2> QED
    BY <2>1, <2>2, <2>3 DEF Refused, GiveUp
<1> QED
  BY <1>2, ViewerMoves DEF Refused, GiveUp

\* What Subscribe does for the row that the viewer read.
LEMMA WatchFacts ==
  ASSUME PublishInv, NEW v \in Viewers, Watch(v)
  PROVE  \E c \in Channels, row \in Rows :
           /\ viewer[v] = [pc |-> "subscribe", c |-> c, row |-> row]
           /\ Becomes(v, IdleViewer)
           /\ c \notin blocked /\ revisions[c] \in {0, row.rev} /\ row.rev # 0
           /\ revisions' = [revisions EXCEPT ![c] = row.rev]
           /\ UNCHANGED <<closed, blocked, storeVars, mu, op, owed>>
           /\ \/ sessions' = sessions /\ sessions[c] # None
              \/ sessions' = [sessions EXCEPT ![c] = <<c, Source(row)>>]
<1>1. viewer[v] \in Views /\ viewer[v].pc = "subscribe"
  BY DEF Watch, PublishInv, ShapeInv
<1>2. PICK c \in Channels, row \in Rows : viewer[v] = [pc |-> "subscribe", c |-> c, row |-> row]
  BY <1>1, ViewFields
<1>3. viewer[v].c = c /\ viewer[v].row = row /\ row.rev \in 1..MaxRev
  BY <1>2 DEF Rows
<1>4. /\ Becomes(v, IdleViewer) /\ UNCHANGED <<storeVars, mu, op, owed>>
      /\ Live!Join(c, row.rev) \/ Live!Start(c, row.rev, <<c, Source(row)>>)
  BY <1>3 DEF Watch
<1> QED
  BY <1>2, <1>3, <1>4 DEF Live!Join, Live!Start, Live!Admits, Live!Record

LEMMA WatchInv ==
  ASSUME PublishInv, NEW v \in Viewers, Watch(v)
  PROVE  PublishInv'
<1> USE DEF storeVars
<1>1. PICK c \in Channels, row \in Rows :
        /\ viewer[v] = [pc |-> "subscribe", c |-> c, row |-> row]
        /\ Becomes(v, IdleViewer)
        /\ c \notin blocked /\ revisions[c] \in {0, row.rev} /\ row.rev # 0
        /\ revisions' = [revisions EXCEPT ![c] = row.rev]
        /\ UNCHANGED <<closed, blocked, storeVars, mu, op, owed>>
        /\ \/ sessions' = sessions /\ sessions[c] # None
           \/ sessions' = [sessions EXCEPT ![c] = <<c, Source(row)>>]
  BY WatchFacts
<1>2. ShapeInv /\ ClockInv /\ UsedInv /\ HolderInv /\ ViewerInv
  BY DEF PublishInv
<1>3. /\ viewer'[v] = IdleViewer /\ viewer' \in [Viewers -> Views]
      /\ \A u \in Viewers \ {v} : viewer'[u] = viewer[u]
  BY <1>1, <1>2 DEF Becomes, ShapeInv, Views
<1>4. \A u \in Viewers, d \in Channels : Holds(u, d)' =>
        Holds(u, d) /\ viewer'[u] = viewer[u] /\ Source(viewer[u].row)' = Source(viewer[u].row)
  BY <1>3 DEF Holds, IdleViewer, Source
<1>5. Holds(v, c) /\ viewer[v].row = row
  BY <1>1 DEF Holds
<1>6. \A d \in Channels : rows'[d] = rows[d] /\ Source(rows[d])' = Source(rows[d])
  BY <1>1 DEF Source
<1>7. /\ revisions' \in [Channels -> 0..MaxRev] /\ revisions'[c] = row.rev
      /\ \A d \in Channels \ {c} : revisions'[d] = revisions[d]
  BY <1>1, <1>2 DEF ShapeInv, TypeOK, Rows
<1>8. /\ sessions' \in [Channels -> (Channels \X Sources) \cup {None}]
      /\ sessions'[c] = <<c, Source(row)>> \/ sessions'[c] = sessions[c]
      /\ \A d \in Channels \ {c} : sessions'[d] = sessions[d]
  <2>1. <<c, Source(row)>> \in Channels \X Sources
    BY DEF Source, Sources, Rows
  <2>2. sessions \in [Channels -> (Channels \X Sources) \cup {None}]
    BY <1>2 DEF ShapeInv, TypeOK
  <2> QED
    BY <2>1, <2>2, <1>1
<1>9. ShapeInv'
  BY <1>1, <1>2, <1>3, <1>7, <1>8 DEF ShapeInv, TypeOK, Existing
<1>10. ClockInv' /\ ViewerInv'
  BY <1>1, <1>2, <1>4 DEF ClockInv, ViewerInv
<1>11. UsedInv'
  <2>1. c \in used
    BY <1>2, <1>5 DEF UsedInv
  <2> QED
    BY <2>1, <1>1, <1>2, <1>4, <1>7, <1>8 DEF UsedInv
<1>12. HolderInv'
  <2>1. ASSUME NEW h \in Handlers
        PROVE  Reads(h)'
    <3>1. Reads(h) /\ op[h] \in Ops /\ op'[h] = op[h]
      BY <1>1, <1>2, ReadsParts DEF ShapeInv
    <3>2. CASE op[h].pc \in {"commit", "after", "upstreams", "publish"}
      <4>1. PICK d \in Channels : op[h].c = d
        BY <3>1, <3>2, OpFields
      <4>2. (Queued(d)' <=> Queued(d)) /\ (QueuedChange(d)' <=> QueuedChange(d))
        BY <1>1 DEF Queued, QueuedChange
      <4>3. op[h].pc \in {"upstreams", "publish"} =>
              \A u \in Viewers : Holds(u, d)' /\ viewer'[u].row.rev = op[h].rev =>
                Source(viewer[u].row)' = Source(rows[d])' \/ QueuedChange(d)'
        BY <3>1, <4>1, <4>2, <1>4, <1>6 DEF Reads
      <4> QED
        BY <3>1, <3>2, <4>1, <4>2, <4>3, <1>6 DEF Reads
    <3>3. CASE op[h].pc \notin {"commit", "after", "upstreams", "publish"}
      BY <3>1, <3>3, <1>1 DEF Reads
    <3> QED
      BY <3>2, <3>3
  <2> QED
    BY <2>1, ReadsParts
<1>13. ASSUME NEW d \in Channels \ owed
       PROVE  Served(d)'
  <2>1. Served(d)
    BY ServedParts DEF PublishInv
  <2>2. /\ Unpublished(d)' <=> Unpublished(d)
        /\ Blocking(d)' <=> Blocking(d)
        /\ Retiring(d)' <=> Retiring(d)
    BY <1>1, <1>6 DEF Unpublished, Pending, Blocking, Retiring, Retires
  <2>3. Gone(d)'
    BY <2>1, <2>2, <1>1, <1>4, <1>5, <1>6, <1>8 DEF Served, Gone
  <2>4. Published(d)'
    <3>1. CASE d # c
      BY <3>1, <2>1, <2>2, <1>1, <1>4, <1>6, <1>7 DEF Served, Published
    <3>2. ASSUME d = c, rows[c] # None, ~Unpublished(c)
          PROVE  row.rev = rows[c].rev
      <4>1. rows[c].rev \in {row.rev, revisions[c]} /\ rows[c].rev \in 1..MaxRev
        BY <3>2, <2>1, <1>2, <1>5 DEF Served, Published, ShapeInv, TypeOK
      <4> QED
        BY <4>1, <1>1
    <3>3. CASE d = c
      BY <3>2, <3>3, <2>2, <1>1, <1>6, <1>7 DEF Published
    <3> QED
      BY <3>1, <3>3
  <2>5. Sourced(d)'
    <3>1. CASE d # c
      BY <3>1, <2>1, <2>2, <1>1, <1>4, <1>6, <1>7, <1>8 DEF Served, Sourced
    <3>2. ASSUME d = c, rows[c] # None, ~Retiring(c)
          PROVE  /\ sessions[c] \in {None, <<c, Source(rows[c])>>}
                 /\ Source(row) = Source(rows[c])
                 /\ \A u \in Viewers : Holds(u, c) =>
                      Source(viewer[u].row) = Source(rows[c]) \/ viewer[u].row.rev # row.rev
      BY <3>2, <2>1, <1>1, <1>5 DEF Served, Sourced
    <3>3. CASE d = c
      BY <3>2, <3>3, <2>2, <1>1, <1>4, <1>6, <1>7, <1>8 DEF Sourced
    <3> QED
      BY <3>1, <3>3
  <2> QED
    BY <2>3, <2>4, <2>5 DEF Served
<1>14. GoneInv' /\ RevisionInv' /\ SourceInv'
  BY <1>1, <1>13, ServedPartsPrime
<1> QED
  BY <1>9, <1>10, <1>11, <1>12, <1>14 DEF PublishInv

\* Sessions that end leave everything else as it is.
LEMMA RetireInv ==
  ASSUME PublishInv, NEW cs \in SUBSET Channels, Live!Retire(cs),
         UNCHANGED <<storeVars, mu, op, viewer, owed>>
  PROVE  PublishInv'
<1> USE DEF storeVars
<1>1. ShapeInv /\ ClockInv /\ UsedInv /\ HolderInv /\ ViewerInv
  BY DEF PublishInv
<1>2. /\ UNCHANGED <<closed, revisions, blocked>>
      /\ sessions' \in [Channels -> (Channels \X Sources) \cup {None}]
      /\ \A c \in Channels : sessions'[c] \in {None, sessions[c]}
  BY <1>1 DEF Live!Retire, Live!Detach, ShapeInv, TypeOK
<1>3. ShapeInv'
  BY <1>1, <1>2 DEF ShapeInv, TypeOK, Existing
<1>4. ClockInv' /\ ViewerInv'
  BY <1>1 DEF ClockInv, ViewerInv, Holds
<1>5. UsedInv'
  BY <1>1, <1>2 DEF UsedInv, Holds
<1>6. HolderInv'
  BY <1>1 DEF HolderInv, Holds, Queued, QueuedChange, Source
<1>7. ASSUME NEW c \in Channels \ owed
      PROVE  Served(c)'
  <2>1. Served(c)
    BY ServedParts DEF PublishInv
  <2>2. /\ Unpublished(c)' <=> Unpublished(c)
        /\ Blocking(c)' <=> Blocking(c)
        /\ Retiring(c)' <=> Retiring(c)
    BY DEF Unpublished, Pending, Blocking, Retiring, Retires, Source
  <2>3. Gone(c)'
    BY <2>1, <2>2, <1>2 DEF Served, Gone, Holds
  <2>4. Published(c)'
    BY <2>1, <2>2, <1>2 DEF Served, Published, Holds
  <2>5. Sourced(c)'
    BY <2>1, <2>2, <1>2 DEF Served, Sourced, Holds, Source
  <2> QED
    BY <2>3, <2>4, <2>5 DEF Served
<1>8. GoneInv' /\ RevisionInv' /\ SourceInv'
  BY <1>7, ServedPartsPrime
<1> QED
  BY <1>3, <1>4, <1>5, <1>6, <1>8 DEF PublishInv

(***************************************************************************)
(* The specification.                                                      *)
(***************************************************************************)

\* With no request in progress and an empty manager, what there is is current.
LEMMA FreshInv ==
  ASSUME Live!LiveInit, mu = None, owed = {},
         op = [h \in Handlers |-> IdleOp], viewer = [v \in Viewers |-> IdleViewer],
         rows \in [Channels -> Rows \cup {None}], clock \in 1..MaxRev,
         Existing \subseteq used, used \subseteq Channels,
         \A c \in Channels : rows[c] # None => rows[c].rev <= clock
  PROVE  PublishInv
<1>1. \A h \in Handlers : op[h].pc = "idle"
  BY DEF IdleOp
<1>2. \A v \in Viewers, c \in Channels : ~Holds(v, c)
  BY DEF Holds, IdleViewer
<1>3. ShapeInv
  <2>1. IdleOp \in Ops /\ IdleViewer \in Views
    BY DEF Ops, Views
  <2>2. TypeOK
    BY <1>1, NoneAssumption, BoundsAssumption DEF TypeOK, Live!LiveInit, Rows
  <2> QED
    BY <2>1, <2>2 DEF ShapeInv
<1>4. ClockInv /\ UsedInv /\ ViewerInv
  BY <1>1, <1>2 DEF ClockInv, UsedInv, ViewerInv, Live!LiveInit
<1>5. HolderInv
  BY <1>1 DEF HolderInv
<1>6. GoneInv /\ RevisionInv /\ SourceInv
  BY <1>2 DEF GoneInv, RevisionInv, SourceInv, Live!LiveInit
<1> QED
  BY <1>3, <1>4, <1>5, <1>6 DEF PublishInv

LEMMA InitInv ==
  ASSUME Init
  PROVE  PublishInv
<1>1. rows \in [Channels -> Rows \cup {None}]
  BY BoundsAssumption DEF Init, Rows, Sources
<1>2. \A c \in Channels : rows[c] # None => rows[c].rev = 1
  BY DEF Init
<1> QED
  BY <1>1, <1>2, FreshInv, BoundsAssumption DEF Init, Existing

LEMMA RestartInv ==
  ASSUME PublishInv, Restart
  PROVE  PublishInv'
<1> USE DEF storeVars
<1>1. \A h \in Handlers : op'[h].pc = "idle"
  BY DEF Restart, IdleOp
<1>2. \A v \in Viewers, c \in Channels : ~Holds(v, c)'
  BY DEF Restart, Holds, IdleViewer
<1>3. ShapeInv'
  <2>1. IdleOp \in Ops /\ IdleViewer \in Views
    BY DEF Ops, Views
  <2>2. TypeOK'
    BY <1>1, NoneAssumption, BoundsAssumption
    DEF TypeOK, Restart, PublishInv, ShapeInv, Existing
  <2> QED
    BY <2>1, <2>2 DEF ShapeInv, PublishInv, Restart
<1>4. ClockInv' /\ UsedInv' /\ ViewerInv'
  BY <1>1, <1>2 DEF ClockInv, UsedInv, ViewerInv, Restart, PublishInv
<1>5. HolderInv'
  BY <1>1 DEF HolderInv
<1>6. GoneInv' /\ RevisionInv' /\ SourceInv'
  BY <1>2 DEF GoneInv, RevisionInv, SourceInv, Restart
<1> QED
  BY <1>3, <1>4, <1>5, <1>6 DEF PublishInv

\* The parts that relate rows, manager, requests and viewers are inductive: every
\* step of a handler, a viewer, a session or the process preserves PublishInv.
THEOREM PublishInvariance == Spec => []PublishInv
<1>1. Init => PublishInv
  BY InitInv
<1>2. PublishInv /\ [Next]_vars => PublishInv'
  <2> SUFFICES ASSUME PublishInv, [Next]_vars
               PROVE  PublishInv'
    OBVIOUS
  <2>1. CASE UNCHANGED vars
    <3>1. UNCHANGED <<closed, revisions, blocked, sessions, rows, clock, used, mu, op, viewer, owed>>
      BY <2>1 DEF vars, managerVars, storeVars
    <3>2. ShapeInv' /\ ClockInv' /\ UsedInv' /\ ViewerInv'
      BY <3>1 DEF PublishInv, ShapeInv, TypeOK, Existing, ClockInv, UsedInv, ViewerInv, Holds
    <3>3. HolderInv'
      BY <3>1 DEF PublishInv, HolderInv, Holds, Queued, QueuedChange, Source
    <3>4. GoneInv' /\ RevisionInv'
      BY <3>1 DEF PublishInv, GoneInv, RevisionInv, Holds, Blocking, Unpublished, Pending, Queued
    <3>5. SourceInv'
      BY <3>1 DEF PublishInv, SourceInv, Holds, Retiring, Retires, Source, Queued, QueuedChange, Pending
    <3> QED
      BY <3>2, <3>3, <3>4, <3>5 DEF PublishInv
  <2>2. ASSUME NEW h \in Handlers, HandlerStep(h)
        PROVE  PublishInv'
    BY <2>2, UpdateChannelInv, DeleteChannelInv, UpdateRefusedInv, UpdateCommitsInv,
       UpdateReadsRowInv, UpdateReadsUpstreamsInv, ClientGoneInv, ImportRelayInv,
       UpdateProxyInv, ImportChannelsInv, ProxySavedInv, ImportLocksInv, RestoreLibraryInv,
       BlockRemovedInv, BlockTimesOutInv, LoadChannelInv, ChannelNotFoundInv,
       PublishChannelInv, PublishTimesOutInv DEF HandlerStep
  <2>3. ASSUME NEW v \in Viewers, ViewerStep(v)
        PROVE  PublishInv'
    <3>1. Reread(v) => viewer[v].c \in Channels
      BY ViewFields DEF Reread, PublishInv, ShapeInv
    <3> QED
      BY <2>3, <3>1, ReadRowInv, ReadUpstreamsInv, WatchInv, RefusedInv
      DEF ViewerStep, OpenStream, Reread
  <2>4. ASSUME NEW c \in Channels, SessionEnds(c)
        PROVE  PublishInv'
    BY <2>4, RetireInv DEF SessionEnds
  <2>5. CASE ApplyProfile
    BY <2>5, RetireInv DEF ApplyProfile
  <2> QED
    BY <2>1, <2>2, <2>3, <2>4, <2>5, CreateChannelInv, RestartInv DEF Next
<1> QED
  BY <1>1, <1>2, PTL DEF Spec

\* The manager's maps and the table keep their types, and channelMu is held
\* exactly by the request that is past its lock.
THEOREM PublishTypes == Spec => []TypeOK
<1>1. PublishInv => TypeOK
  BY DEF PublishInv, ShapeInv
<1> QED
  BY <1>1, PublishInvariance, PTL

\* When no handler is at work, every channel whose publication was not given up is
\* served as its row says: the two writes of every change have both been done.
THEOREM QuietChannelsServeCurrent == Spec => []QuietServesCurrent
<1>1. PublishInv => QuietServesCurrent
  <2> SUFFICES ASSUME PublishInv, \A h \in Handlers : op[h].pc = "idle", NEW c \in Channels \ owed
               PROVE  IF rows[c] = None THEN sessions[c] = None
                      ELSE /\ revisions[c] \in {0, rows[c].rev}
                           /\ c \notin blocked
                           /\ sessions[c] \in {None, <<c, Source(rows[c])>>}
    BY DEF QuietServesCurrent
  <2>1. ~Blocking(c) /\ ~Unpublished(c) /\ ~Retiring(c)
    BY DEF Blocking, Unpublished, Pending, Retiring, Retires
  <2> QED
    BY <2>1, ServedParts DEF PublishInv, Served, Gone, Published, Sourced
<1> QED
  BY <1>1, PublishInvariance, PTL

\* Nothing is left to do for a channel that no request has pending.
LEMMA NothingPending ==
  ASSUME NEW c \in Channels, ~Unpublished(c)
  PROVE  ~Blocking(c) /\ ~Retiring(c)
<1>1. \A h \in Handlers : Retires(h, c) => c \in Pending(h)
  BY DEF Retires, Pending
<1>2. \A h \in Handlers : op[h].pc = "block" /\ c \in op[h].remove => c \in Pending(h)
  BY DEF Pending
<1> QED
  BY <1>1, <1>2 DEF Unpublished, Blocking, Retiring

\* A viewer that is attached to a session gets the source it read, unless a change
\* of the channel is committed and still to be published, or was given up.
THEOREM ViewersJoinTheirSource == Spec => JoinsItsSource
<1> DEFINE Joins(v) ==
      viewer[v].pc = "subscribe" /\ viewer'[v].pc = "idle" /\ sessions'[viewer[v].c] # None =>
        \/ viewer[v].c \in owed
        \/ \E h \in Handlers : viewer[v].c \in Pending(h)
        \/ sessions'[viewer[v].c] = <<viewer[v].c, Source(viewer[v].row)>>
<1>1. PublishInv /\ [Next]_vars => [\A v \in Viewers : Joins(v)]_vars
  <2> SUFFICES ASSUME PublishInv, Next, NEW v \in Viewers,
                      viewer[v].pc = "subscribe", viewer'[v].pc = "idle",
                      sessions'[viewer[v].c] # None, viewer[v].c \notin owed,
                      ~Unpublished(viewer[v].c)
               PROVE  sessions'[viewer[v].c] = <<viewer[v].c, Source(viewer[v].row)>>
    BY DEF Unpublished
  <2>1. PICK c \in Channels, row \in Rows : viewer[v] = [pc |-> "subscribe", c |-> c, row |-> row]
    BY ViewFields DEF PublishInv, ShapeInv
  <2>2. /\ viewer[v].c = c /\ viewer[v].row = row /\ Holds(v, c)
        /\ Served(c) /\ ~Blocking(c) /\ ~Retiring(c) /\ ~Unpublished(c)
    BY <2>1, ServedParts, NothingPending DEF PublishInv, Holds
  <2>3. CASE Watch(v)
    <3>1. PICK d \in Channels, r \in Rows :
            /\ viewer[v] = [pc |-> "subscribe", c |-> d, row |-> r]
            /\ Becomes(v, IdleViewer)
            /\ d \notin blocked /\ revisions[d] \in {0, r.rev} /\ r.rev # 0
            /\ revisions' = [revisions EXCEPT ![d] = r.rev]
            /\ UNCHANGED <<closed, blocked, storeVars, mu, op, owed>>
            /\ \/ sessions' = sessions /\ sessions[d] # None
               \/ sessions' = [sessions EXCEPT ![d] = <<d, Source(r)>>]
      BY <2>3, WatchFacts
    <3>2. d = c /\ r = row
      BY <2>1, <3>1
    <3>3. rows[c] # None
      BY <2>2, <3>1, <3>2 DEF Served, Gone
    <3>4. sessions[c] \in {None, <<c, Source(rows[c])>>} /\ Source(row) = Source(rows[c])
      BY <2>2, <3>1, <3>2, <3>3 DEF Served, Sourced
    <3>5. c \in DOMAIN sessions
      BY DEF PublishInv, ShapeInv, TypeOK
    <3> QED
      BY <2>2, <3>1, <3>2, <3>4, <3>5
  <2>4. CASE Refused(v)
    <3>1. c \in blocked /\ sessions[c] # None
      BY <2>2, <2>4 DEF Refused, Becomes, managerVars, PublishInv, ShapeInv
    <3> QED
      BY <2>2, <3>1 DEF Served, Gone, Published
  <2>5. CASE Restart
    BY <2>2, <2>5 DEF Restart
  <2>6. CASE viewer' = viewer
    BY <2>6
  <2>7. ASSUME NEW u \in Viewers, ViewerStep(u), ~Watch(v), ~Refused(v)
        PROVE  FALSE
    <3>1. ASSUME NEW w, Becomes(u, w)
          PROVE  u = v
      BY <3>1 DEF Becomes, PublishInv, ShapeInv
    <3>2. u = v
      BY <2>7, <3>1
      DEF ViewerStep, OpenStream, Reread, ReadRow, ReadUpstreams, Watch, Refused, GiveUp
    <3> QED
      BY <2>7, <3>2 DEF ViewerStep, OpenStream, Reread, ReadUpstreams, GiveUp
  <2>8. ASSUME NEW h \in Handlers, HandlerStep(h)
        PROVE  viewer' = viewer
    BY <2>8 DEF HandlerStep, UpdateChannel, DeleteChannel, UpdateRefused, UpdateCommits,
       UpdateReadsRow, UpdateReadsUpstreams, ClientGone, ImportRelay, UpdateProxy,
       ImportChannels, ProxySaved, ImportLocks, RestoreLibrary, BlockRemoved, BlockTimesOut,
       LoadChannel, ChannelNotFound, PublishChannel, PublishTimesOut
  <2> QED
    BY <2>3, <2>4, <2>5, <2>6, <2>7, <2>8 DEF Next, CreateChannel, SessionEnds, ApplyProfile
<1> QED
  BY <1>1, PublishInvariance, PTL DEF Spec, JoinsItsSource

=============================================================================
