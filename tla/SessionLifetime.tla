-------------------------- MODULE SessionLifetime --------------------------
(***************************************************************************)
(* One sign-in and its session: backend/src/auth, where a session is       *)
(* created, held back behind a pre-auth challenge, handed to the browser,  *)
(* prolonged by activity and ended.                                        *)
(*                                                                         *)
(* A request that carries the session cookie runs enforceSession: it reads *)
(* the row, reads the clock, and writes only if the row is still the one   *)
(* it read; when the write is lost it starts over, and after Attempts      *)
(* rounds it answers by what it reads without writing.  A handler is a     *)
(* request that carries the pre-auth cookie.  What the code does in one    *)
(* statement or one transaction is one step.                               *)
(***************************************************************************)
EXTENDS Integers

CONSTANTS
  Requests, Handlers,  \* requests with the session, with the challenge
  Attempts,            \* MAX_COMPARE_AND_SWAP_ATTEMPTS
  Idle, Absolute,      \* the two lifetimes of a session
  ChallengeTtl,        \* PreAuthService.ttlMs
  MaxTime              \* bound: the end of time

ASSUME SessionAssumption ==
  /\ {Attempts, Idle, Absolute, ChallengeTtl, MaxTime} \subseteq Nat
  /\ Attempts > 0

VARIABLES
  now,
  signIn,     \* the sign-in request: IDLE, CREATED, DONE
  session,    \* the sessions row
  challenge,  \* expires_at of the pre_auth_challenges row
  request,    \* calls of enforceSession in progress
  handler,    \* calls with the pre-auth cookie in progress
  given,      \* history: answers that carried the session cookies
  ending,     \* history: how the session ended
  denied      \* history: a request found the session gone, or deleted it

sessionVars == <<now, signIn, session, challenge, request, handler, given,
                 ending, denied>>

NoTime == -1
NoSession == [created |-> NoTime, updated |-> NoTime, expires |-> NoTime]
SessionRow == [created : Nat, updated : Nat, expires : Nat] \union {NoSession}

Idling == [step |-> "IDLE", active |-> FALSE, attempt |-> 0,
           seen |-> NoSession, clock |-> 0]
RequestStep == {"IDLE", "READ", "SEEN", "DELETE", "RENEW", "CLAMP"}
Call == [step : RequestStep, active : BOOLEAN, attempt : 0..Attempts,
         seen : SessionRow, clock : Nat]

SessionTypeOK ==
  /\ now \in 0..MaxTime
  /\ signIn \in {"IDLE", "CREATED", "DONE"}
  /\ session \in SessionRow
  /\ challenge \in Nat \union {NoTime}
  /\ request \in [Requests -> Call]
  /\ handler \in [Handlers -> {"IDLE", "FOUND", "CANCELLING"}]
  /\ given \in Nat
  /\ ending \in {"NONE", "LAPSED", "CANCELLED", "REVOKED"}
  /\ denied \in BOOLEAN

SessionInit ==
  /\ now = 0
  /\ signIn = "IDLE"
  /\ session = NoSession
  /\ challenge = NoTime
  /\ request = [r \in Requests |-> Idling]
  /\ handler = [h \in Handlers |-> "IDLE"]
  /\ given = 0
  /\ ending = "NONE"
  /\ denied = FALSE

Tick ==
  /\ now < MaxTime
  /\ now' = now + 1
  /\ UNCHANGED <<signIn, session, challenge, request, handler, given, ending,
                 denied>>

-----------------------------------------------------------------------------
(* The sign-in request.                                                    *)

callVars == <<request, handler, denied>>

\* better-auth creates the session before the second factor is considered.
CreateSession ==
  /\ signIn = "IDLE"
  /\ signIn' = "CREATED"
  /\ session' = [created |-> now, updated |-> now, expires |-> now + Absolute]
  /\ UNCHANGED <<now, challenge, given, ending, callVars>>

\* The role needs no second factor, or the browser is trusted.
HandOver ==
  /\ signIn = "CREATED"
  /\ signIn' = "DONE"
  /\ given' = given + 1
  /\ UNCHANGED <<now, session, challenge, ending, callVars>>

createChallenge ==
  /\ signIn = "CREATED"
  /\ signIn' = "DONE"
  /\ challenge' = now + ChallengeTtl
  /\ UNCHANGED <<now, session, given, ending, callVars>>

CallOff ==
  /\ session' = NoSession
  /\ challenge' = NoTime
  /\ ending' = "CANCELLED"

\* No session cookie to keep: the session is deleted and the call fails.
RefuseChallenge ==
  /\ signIn = "CREATED"
  /\ signIn' = "DONE"
  /\ CallOff
  /\ UNCHANGED <<now, given, callVars>>

\* The process stops between the session and the challenge.
StopSignIn ==
  /\ signIn = "CREATED"
  /\ signIn' = "DONE"
  /\ UNCHANGED <<now, session, challenge, given, ending, callVars>>

SignInStep == CreateSession \/ HandOver \/ createChallenge
              \/ RefuseChallenge \/ StopSignIn

-----------------------------------------------------------------------------
(* Requests with the pre-auth cookie.                                      *)

signVars == <<now, signIn, request, denied>>

Move(h, step) == handler' = [handler EXCEPT ![h] = step]

findChallenge(h) ==
  /\ handler[h] = "IDLE" /\ challenge # NoTime
  /\ Move(h, IF challenge <= now THEN "CANCELLING" ELSE "FOUND")
  /\ UNCHANGED <<session, challenge, given, ending, signVars>>

\* The code is right, or the recovery codes are acknowledged.
completeChallenge(h) ==
  /\ handler[h] = "FOUND"
  /\ Move(h, "IDLE")
  /\ \/ /\ challenge = NoTime
        /\ UNCHANGED <<session, challenge, given, ending>>
     \/ /\ challenge # NoTime /\ challenge <= now
        /\ CallOff
        /\ UNCHANGED given
     \/ /\ challenge > now
        /\ challenge' = NoTime
        /\ given' = given + 1
        /\ UNCHANGED <<session, ending>>
  /\ UNCHANGED signVars

\* Sign-out reads the challenge once more, then cancels it by its id.
cancelChallenge(h) ==
  /\ handler[h] = "FOUND"
  /\ Move(h, IF challenge = NoTime THEN "IDLE" ELSE "CANCELLING")
  /\ UNCHANGED <<session, challenge, given, ending, signVars>>

cancelById(h) ==
  /\ handler[h] = "CANCELLING"
  /\ Move(h, "IDLE")
  /\ IF challenge = NoTime THEN UNCHANGED <<session, challenge, ending>>
                           ELSE CallOff
  /\ UNCHANGED <<given, signVars>>

\* A wrong code, a request that only asks for the state, a process that stops.
LeaveChallenge(h) ==
  /\ handler[h] # "IDLE"
  /\ Move(h, "IDLE")
  /\ UNCHANGED <<session, challenge, given, ending, signVars>>

ChallengeStep(h) ==
  \/ findChallenge(h) \/ completeChallenge(h) \/ cancelChallenge(h)
  \/ cancelById(h) \/ LeaveChallenge(h)

-----------------------------------------------------------------------------
(* Requests with the session cookie.                                       *)

restVars == <<now, signIn, challenge, handler, given>>

Earlier(s, t) == IF s < t THEN s ELSE t

\* expiresAt of calculateExpiryWindow
Window(row) == Earlier(row.expires,
                       Earlier(row.created + Absolute, row.updated + Idle))

Answer(r) == request' = [request EXCEPT ![r] = Idling]

Ask(r, active) ==
  /\ request[r].step = "IDLE" /\ given > 0
  /\ request' = [request EXCEPT ![r].step = "READ", ![r].active = active]
  /\ UNCHANGED <<session, ending, denied, restVars>>

ReadSession(r) ==
  /\ request[r].step = "READ"
  /\ IF session = NoSession
     THEN /\ Answer(r)
          /\ denied' = TRUE
     ELSE /\ request' = [request EXCEPT ![r].step = "SEEN", ![r].seen = session]
          /\ UNCHANGED denied
  /\ UNCHANGED <<session, ending, restVars>>

\* Which write a round decides on; none, when the window it has read stands.
Verdict(row, active) ==
  CASE Window(row) <= now        -> "DELETE"
    [] Window(row) > now /\ active -> "RENEW"
    [] Window(row) > now /\ ~active /\ row.expires > Window(row) -> "CLAMP"
    [] OTHER                     -> "IDLE"

\* Mutant: the rounds are not counted.
DecideForever(r) ==
  /\ request[r].step = "SEEN"
  /\ LET verdict == Verdict(request[r].seen, request[r].active)
     IN  IF verdict = "IDLE"
         THEN Answer(r)
         ELSE request' = [request EXCEPT ![r].step = verdict, ![r].clock = now]
  /\ UNCHANGED <<session, ending, denied, restVars>>

Decide(r) ==
  /\ request[r].step = "SEEN" /\ request[r].attempt < Attempts
  /\ LET verdict == Verdict(request[r].seen, request[r].active)
     IN  IF verdict = "IDLE"
         THEN Answer(r)
         ELSE request' = [request EXCEPT ![r].step = verdict, ![r].clock = now]
  /\ UNCHANGED <<session, ending, denied, restVars>>

\* Every round was lost: the answer is what the last read says.
AnswerByLatest(r) ==
  /\ request[r].step = "SEEN" /\ request[r].attempt = Attempts
  /\ Answer(r)
  /\ UNCHANGED <<session, ending, denied, restVars>>

Unchanged(r) == session = request[r].seen /\ session # NoSession

Retry(r) ==
  /\ request' = [request EXCEPT
                   ![r] = [Idling EXCEPT !.step = "READ",
                                         !.active = request[r].active,
                                         !.attempt = request[r].attempt + 1]]
  /\ UNCHANGED <<session, ending, denied>>

\* Mutant: the number of deleted rows is not looked at.
DeleteWithoutCount(r) ==
  /\ request[r].step = "DELETE"
  /\ session' = IF Unchanged(r) THEN NoSession ELSE session
  /\ ending' = IF Unchanged(r) THEN "LAPSED" ELSE ending
  /\ denied' = TRUE
  /\ Answer(r)
  /\ UNCHANGED restVars

DeleteLapsed(r) ==
  /\ request[r].step = "DELETE"
  /\ IF Unchanged(r)
     THEN /\ session' = NoSession
          /\ ending' = "LAPSED"
          /\ denied' = TRUE
          /\ Answer(r)
     ELSE Retry(r)
  /\ UNCHANGED restVars

RenewIdle(r) ==
  /\ request[r].step = "RENEW"
  /\ IF Unchanged(r)
     THEN /\ session' = [session EXCEPT
                !.updated = request[r].clock,
                !.expires = Earlier(session.created + Absolute,
                                    request[r].clock + Idle)]
          /\ Answer(r)
          /\ UNCHANGED <<ending, denied>>
     ELSE Retry(r)
  /\ UNCHANGED restVars

\* Mutant: polling corrects expires_at whatever was written meanwhile.
ClampUnconditionally(r) ==
  /\ request[r].step = "CLAMP"
  /\ session' = IF session = NoSession THEN session
                ELSE [session EXCEPT !.expires = Window(request[r].seen)]
  /\ Answer(r)
  /\ UNCHANGED <<ending, denied, restVars>>

ClampExpiry(r) ==
  /\ request[r].step = "CLAMP"
  /\ IF Unchanged(r)
     THEN /\ session' = [session EXCEPT !.expires = Window(request[r].seen)]
          /\ Answer(r)
          /\ UNCHANGED <<ending, denied>>
     ELSE Retry(r)
  /\ UNCHANGED restVars

\* The process stops.
Abandon(r) ==
  /\ request[r].step # "IDLE"
  /\ Answer(r)
  /\ UNCHANGED <<session, ending, denied, restVars>>

EnforceStep(r) ==
  \/ \E active \in BOOLEAN : Ask(r, active)
  \/ ReadSession(r) \/ Decide(r) \/ AnswerByLatest(r)
  \/ DeleteLapsed(r) \/ RenewIdle(r) \/ ClampExpiry(r) \/ Abandon(r)

-----------------------------------------------------------------------------
\* Sign-out with the cookies, or revokeAccess of an administrator.
RevokeSession ==
  /\ session # NoSession
  /\ session' = NoSession
  /\ ending' = "REVOKED"
  /\ UNCHANGED <<request, denied, restVars>>

SessionNext ==
  \/ Tick \/ SignInStep \/ RevokeSession
  \/ \E h \in Handlers : ChallengeStep(h)
  \/ \E r \in Requests : EnforceStep(r)

SessionSpec == SessionInit /\ [][SessionNext]_sessionVars

-----------------------------------------------------------------------------
(* Properties.                                                             *)

\* A request that enforceSession refuses because it finds no session, or has
\* deleted it, is refused for good: no other request still prolongs it.
RefusalIsFinal == denied => session = NoSession

\* What a lease sees of the session.
phase == IF session # NoSession THEN "OPEN" ELSE ending
lease == [since |-> session.created, last |-> session.updated]

Lease == INSTANCE SessionLease WITH handed <- given

\* enforceSession and the pre-auth challenges implement the lease: nobody
\* deletes a session that was renewed in time, an activity is not undone by
\* an older one or by polling, and the cookies are handed out at most once
\* and never after the sign-in was called off.
ImplementsLease == Lease!Spec

=============================================================================
