---------------------------- MODULE LiveManager ----------------------------
(***************************************************************************)
(* What the live-stream manager promises its callers, the HTTP handlers:   *)
(* who may subscribe, which revision a channel is served at, and which     *)
(* session a new viewer joins.  Every operation is one step; the threads,  *)
(* locks and waits behind it are those of StreamManager, which implements  *)
(* this module.  LivePublish builds the handlers on it.                    *)
(***************************************************************************)
CONSTANTS
  Channels,    \* channel ids
  Revisions,   \* values of a channel's updated_at
  NoRev,       \* "" : no revision given or recorded
  Sessions,    \* session objects
  None

VARIABLES
  closed,      \* Close was called
  revisions,   \* the revision each channel is served at
  blocked,     \* deleted channels
  sessions     \* the session new viewers of a channel join

liveVars == <<closed, revisions, blocked, sessions>>

LiveInit ==
  /\ closed = FALSE
  /\ revisions = [c \in Channels |-> NoRev]
  /\ blocked = {}
  /\ sessions = [c \in Channels |-> None]

\* Mutant: the caller's revision is not compared.
AdmitsAnyRevision(c, rev) == ~closed /\ c \notin blocked

\* Subscribe refuses with ErrClosed, ErrChannelBlocked or ErrStaleRevision.
Admits(c, rev) ==
  /\ ~closed
  /\ c \notin blocked
  /\ rev = NoRev \/ revisions[c] \in {NoRev, rev}

Record(c, rev) ==
  revisions' = IF rev = NoRev THEN revisions ELSE [revisions EXCEPT ![c] = rev]

\* Subscribe attaches the viewer to the channel's session.
Join(c, rev) ==
  /\ Admits(c, rev)
  /\ sessions[c] # None
  /\ Record(c, rev)
  /\ UNCHANGED <<closed, blocked, sessions>>

\* Subscribe starts a session: there is none, or it is stopped or of the other kind.
Start(c, rev, s) ==
  /\ Admits(c, rev)
  /\ \A d \in Channels : sessions[d] # s
  /\ Record(c, rev)
  /\ sessions' = [sessions EXCEPT ![c] = s]
  /\ UNCHANGED <<closed, blocked>>

Detach(cs) == sessions' = [c \in Channels |-> IF c \in cs THEN None ELSE sessions[c]]

\* A profile change detaches sessions, and sessions end by themselves.
Retire(cs) == Detach(cs) /\ UNCHANGED <<closed, revisions, blocked>>

Publish(c, rev, invalidate) ==
  /\ blocked' = blocked \ {c}
  /\ Record(c, rev)
  /\ Detach(IF invalidate THEN {c} ELSE {})
  /\ UNCHANGED closed

Block(c) ==
  /\ blocked' = blocked \cup {c}
  /\ revisions' = [revisions EXCEPT ![c] = NoRev]
  /\ Detach({c})
  /\ UNCHANGED closed

CloseAll ==
  /\ closed' = TRUE
  /\ Detach(Channels)
  /\ UNCHANGED <<revisions, blocked>>

LiveNext ==
  \/ \E c \in Channels, rev \in Revisions \cup {NoRev} :
       \/ Join(c, rev)
       \/ \E s \in Sessions : Start(c, rev, s)
       \/ \E invalidate \in BOOLEAN : Publish(c, rev, invalidate)
  \/ \E c \in Channels : Block(c)
  \/ \E cs \in SUBSET Channels : Retire(cs)
  \/ CloseAll

LiveSpec == LiveInit /\ [][LiveNext]_liveVars

=============================================================================
