---------------------------- MODULE SessionLease ----------------------------
(***************************************************************************)
(* What a sign-in is promised, without rows, challenges or retries: its    *)
(* session is handed to the browser at most once and never after the       *)
(* sign-in was called off; it ends for lack of activity only when its last *)
(* activity lies Idle back or its start lies Absolute back; activity       *)
(* prolongs it only before that moment, and never moves backwards; what    *)
(* has ended never comes back.                                             *)
(***************************************************************************)
EXTENDS Integers

CONSTANTS Idle, Absolute

VARIABLES now,
          phase,   \* NONE, OPEN, or how the session ended
          handed,  \* how often the browser was given the session
          lease    \* when the session started and was last active

vars == <<now, phase, handed, lease>>

NoLease == [since |-> -1, last |-> -1]

Earlier(s, t) == IF s < t THEN s ELSE t
Limit == Earlier(lease.since + Absolute, lease.last + Idle)

Init == now = 0 /\ phase = "NONE" /\ handed = 0 /\ lease = NoLease

Tick == now' = now + 1 /\ UNCHANGED <<phase, handed, lease>>

Open ==
  /\ phase = "NONE"
  /\ phase' = "OPEN"
  /\ lease' = [since |-> now, last |-> now]
  /\ UNCHANGED <<now, handed>>

\* The session may have been revoked meanwhile; the sign-in goes on.
Hand ==
  /\ phase \in {"OPEN", "REVOKED"} /\ handed = 0
  /\ handed' = 1
  /\ UNCHANGED <<now, phase, lease>>

Renew(t) ==
  /\ phase = "OPEN" /\ handed = 1
  /\ lease.last <= t /\ t <= now /\ t < Limit
  /\ lease' = [lease EXCEPT !.last = t]
  /\ UNCHANGED <<now, phase, handed>>

End(how) ==
  /\ phase' = how
  /\ lease' = NoLease
  /\ UNCHANGED <<now, handed>>

Lapse  == phase = "OPEN" /\ handed = 1 /\ Limit <= now /\ End("LAPSED")
Cancel == phase \in {"OPEN", "REVOKED"} /\ handed = 0 /\ End("CANCELLED")
Revoke == phase = "OPEN" /\ End("REVOKED")

Next == \/ Tick \/ Open \/ Hand \/ Lapse \/ Cancel \/ Revoke
        \/ \E t \in 0..now : Renew(t)

Spec == Init /\ [][Next]_vars
=============================================================================
