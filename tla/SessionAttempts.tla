-------------------------- MODULE SessionAttempts --------------------------
(***************************************************************************)
(* What a session promises the viewers that wait for it (internal/core/    *)
(* stream: waitReady, markReady, failReady): one verdict, and not a        *)
(* failure before every attempt its source allows has been made.  Where    *)
(* the attempts go is left to SessionPump, who watches and who stops the   *)
(* session to StreamManager; both implement this module.                   *)
(***************************************************************************)
EXTENDS Naturals

VARIABLES
  phase,     \* "new", "on" (run is in its loop) or "over"
  left,      \* attempts left before the verdict; none once it is known
  verdict    \* "no", "yes", "failed" or "stopped"

attemptVars == <<phase, left, verdict>>

New == phase = "new" /\ left = 0 /\ verdict = "no"

\* A session as newSession makes it.
Made == phase = "on" /\ left \in Nat \ {0} /\ verdict = "no"

Begin == phase = "new" /\ Made'

\* markReady
Media ==
  /\ phase = "on"
  /\ verdict = "no"
  /\ verdict' = "yes"
  /\ left' = 0
  /\ UNCHANGED phase

\* handlePumpError, with attempts left after this one.
Retry ==
  /\ phase = "on"
  /\ verdict = "no"
  /\ left > 1
  /\ left' = left - 1
  /\ UNCHANGED <<phase, verdict>>

\* handlePumpError, after the last attempt.
GiveUp ==
  /\ phase = "on"
  /\ verdict = "no"
  /\ left = 1
  /\ left' = 0
  /\ verdict' = "failed"
  /\ phase' = "over"

\* run returns: nobody watches, the session is stopped, the stream has ended.
End == phase = "on" /\ phase' = "over" /\ UNCHANGED <<left, verdict>>

\* failReady by stop(), and by run when it returned without a verdict.
Tell ==
  /\ phase # "new"
  /\ verdict = "no"
  /\ verdict' = "stopped" \/ (phase = "over" /\ verdict' = "failed")
  /\ left' = 0
  /\ UNCHANGED phase

AttemptNext == Begin \/ Media \/ Retry \/ GiveUp \/ End \/ Tell

AttemptSpec == New /\ [][AttemptNext]_attemptVars

\* From newSession on.
MadeSpec == Made /\ [][AttemptNext]_attemptVars

=============================================================================
