----------------------- MODULE SessionLifetimeProofs -----------------------
(***************************************************************************)
(* Proofs about sessions, for any number of requests and handlers, any     *)
(* lifetimes and any number of rounds.                                     *)
(***************************************************************************)
EXTENDS SessionLifetime, TLAPS

Row == [created : Nat, updated : Nat, expires : Nat]

\* A row never expires before its two lifetimes say so.
SoundRow(row) ==
  /\ row.created <= row.updated /\ row.updated <= now
  /\ row.expires >= Earlier(row.created + Absolute, row.updated + Idle)

\* The sign-in hands the session out once, or calls it off.
SignInPart ==
  /\ signIn = "IDLE" => ending = "NONE" /\ session = NoSession
  /\ signIn # "DONE" => given = 0 /\ challenge = NoTime
  /\ signIn = "CREATED" \/ challenge # NoTime => ending \in {"NONE", "REVOKED"}
  /\ challenge # NoTime => given = 0
  /\ given <= 1
  /\ session # NoSession => SoundRow(session)
  /\ session = NoSession /\ signIn # "IDLE" => ending # "NONE"
  /\ denied => session = NoSession /\ signIn # "IDLE"

\* A request keeps a row it has read and the time it judged it.
CallPart(r) ==
  /\ request[r].step # "IDLE" => given = 1
  /\ request[r].step \notin {"IDLE", "READ"} =>
       request[r].seen # NoSession /\ SoundRow(request[r].seen)
  /\ request[r].step \in {"DELETE", "RENEW", "CLAMP"} =>
       /\ request[r].attempt < Attempts
       /\ request[r].clock <= now
       /\ request[r].seen.updated <= request[r].clock
  /\ request[r].step = "DELETE" =>
       Window(request[r].seen) <= request[r].clock
  /\ request[r].step = "RENEW" => request[r].clock < Window(request[r].seen)
  /\ request[r].step = "READ" => request[r].attempt <= Attempts

SessionInv == SessionTypeOK /\ SignInPart /\ \A r \in Requests : CallPart(r)

(* The window of a sound row is the one its two lifetimes give.            *)
LEMMA WindowFacts ==
  ASSUME NEW row \in Row, SoundRow(row), now \in Nat
  PROVE  /\ Window(row) \in Nat
         /\ Window(row) = Earlier(row.created + Absolute, row.updated + Idle)
  BY SessionAssumption DEF Row, SoundRow, Window, Earlier

(* The two kinds of rows.                                                  *)
LEMMA RowFacts ==
  /\ SessionRow = Row \union {NoSession}
  /\ NoSession \notin Row
  BY DEF SessionRow, Row, NoSession, NoTime

(* Initially nobody has signed in.                                         *)
LEMMA InvInit == SessionInit => SessionInv
<1> SUFFICES ASSUME SessionInit PROVE SessionInv
  OBVIOUS
<1>1. Idling \in Call
  BY SessionAssumption DEF Idling, Call, RequestStep, SessionRow
<1>2. SessionTypeOK
  <2>1. 0 \in 0..MaxTime
    BY SessionAssumption
  <2> QED
    BY <1>1, <2>1 DEF SessionInit, SessionTypeOK, SessionRow
<1>3. SignInPart /\ \A r \in Requests : CallPart(r)
  BY DEF SessionInit, SignInPart, CallPart, Idling, NoTime
<1> QED
  BY <1>2, <1>3 DEF SessionInv

(* Time passes: what has been read stays sound.                            *)
LEMMA TickStep ==
  ASSUME SessionInv, Tick
  PROVE  SessionInv'
<1>1. SessionTypeOK'
  BY SessionAssumption DEF SessionInv, SessionTypeOK, Tick
<1>2. \A row \in Row : SoundRow(row) => SoundRow(row)'
  BY DEF SoundRow, Earlier, Row, Tick, SessionInv, SessionTypeOK
<1>3. session # NoSession => session \in Row
  BY RowFacts DEF SessionInv, SessionTypeOK
<1>4. \A r \in Requests : request[r].seen # NoSession => request[r].seen \in Row
  BY RowFacts DEF SessionInv, SessionTypeOK, Call
<1>5. SignInPart'
  BY <1>2, <1>3 DEF SignInPart, SessionInv, Tick
<1>6. ASSUME NEW r \in Requests PROVE CallPart(r)'
  <2>1. CallPart(r) /\ request[r] \in Call /\ now \in Nat
    BY DEF SessionInv, SessionTypeOK
  <2>2. request[r].step \notin {"IDLE", "READ"} =>
          request[r].seen # NoSession /\ SoundRow(request[r].seen)'
    BY <1>4, <2>1 DEF CallPart, SoundRow, Row, Tick
  <2>3. request' = request /\ given' = given /\ now' = now + 1
    BY DEF Tick
  <2> QED
    BY <2>1, <2>2, <2>3 DEF CallPart, Call, Window
<1> QED
  BY <1>1, <1>5, <1>6 DEF SessionInv

(* Steps that leave the requests and the clock alone: their parts stand as *)
(* long as the cookies were not taken back.                                *)
LEMMA CallsKept ==
  ASSUME SessionInv, UNCHANGED <<now, request>>, given' >= given, given' <= 1,
         given' \in Nat
  PROVE  \A r \in Requests : CallPart(r)'
<1> SUFFICES ASSUME NEW r \in Requests PROVE CallPart(r)'
  OBVIOUS
<1>1. CallPart(r) /\ given \in Nat
  BY DEF SessionInv, SessionTypeOK
<1>2. request[r].step # "IDLE" => given' = 1
  BY <1>1 DEF CallPart
<1> QED
  BY <1>1, <1>2 DEF CallPart, SoundRow, Window

(* The sign-in request.                                                    *)
LEMMA SignInSafe ==
  ASSUME SessionInv, SignInStep
  PROVE  SessionInv'
<1>1. SessionTypeOK /\ SignInPart
  BY DEF SessionInv
<1>2. UNCHANGED <<now, request>> /\ given' \in Nat /\ given' >= given /\ given' <= 1
  BY <1>1 DEF SignInStep, CreateSession, HandOver, createChallenge,
     RefuseChallenge, StopSignIn, callVars, SessionTypeOK, SignInPart
<1>3. SessionTypeOK' /\ SignInPart'
  <2>1. CASE CreateSession
    <3>1. session' \in SessionRow /\ session' # NoSession
      BY <1>1, <2>1, SessionAssumption
         DEF CreateSession, SessionTypeOK, SessionRow, NoSession, NoTime
    <3>2. SoundRow(session)'
      BY <1>1, <2>1, SessionAssumption
         DEF CreateSession, SessionTypeOK, SoundRow, Earlier
    <3> QED
      BY <1>1, <2>1, <3>1, <3>2
         DEF CreateSession, callVars, SessionTypeOK, SignInPart
  <2>2. CASE HandOver
    BY <1>1, <2>2 DEF HandOver, callVars, SessionTypeOK, SignInPart, SoundRow
  <2>3. CASE createChallenge
    BY <1>1, <2>3, SessionAssumption
       DEF createChallenge, callVars, SessionTypeOK, SignInPart, SoundRow
  <2>4. CASE RefuseChallenge
    BY <1>1, <2>4 DEF RefuseChallenge, CallOff, callVars, SessionTypeOK,
       SignInPart, SessionRow
  <2>5. CASE StopSignIn
    BY <1>1, <2>5 DEF StopSignIn, callVars, SessionTypeOK, SignInPart, SoundRow
  <2> QED
    BY <2>1, <2>2, <2>3, <2>4, <2>5 DEF SignInStep
<1> QED
  BY <1>2, <1>3, CallsKept DEF SessionInv

(* Requests with the pre-auth cookie.                                      *)
LEMMA ChallengeSafe ==
  ASSUME SessionInv, NEW h \in Handlers, ChallengeStep(h)
  PROVE  SessionInv'
<1>1. SessionTypeOK /\ SignInPart
  BY DEF SessionInv
<1>2. challenge # NoTime => signIn = "DONE" /\ given = 0
  BY <1>1 DEF SignInPart, SessionTypeOK
<1>3. UNCHANGED <<now, signIn, request, denied>>
  BY DEF ChallengeStep, findChallenge, completeChallenge, cancelChallenge,
     cancelById, LeaveChallenge, signVars
<1>4. handler' \in [Handlers -> {"IDLE", "FOUND", "CANCELLING"}]
  BY <1>1 DEF ChallengeStep, findChallenge, completeChallenge, cancelChallenge,
     cancelById, LeaveChallenge, Move, SessionTypeOK
<1>5. \/ UNCHANGED <<session, challenge, given, ending>>
      \/ challenge # NoTime /\ CallOff /\ given' = given
      \/ /\ challenge # NoTime /\ challenge' = NoTime /\ given' = given + 1
         /\ UNCHANGED <<session, ending>>
  BY <1>1 DEF ChallengeStep, findChallenge, completeChallenge, cancelChallenge,
     cancelById, LeaveChallenge, SessionTypeOK, NoTime
<1>6. SessionTypeOK' /\ SignInPart'
  BY <1>1, <1>2, <1>3, <1>4, <1>5
     DEF CallOff, SessionTypeOK, SignInPart, SessionRow, SoundRow
<1>7. given' \in Nat /\ given' >= given /\ given' <= 1
  BY <1>1, <1>2, <1>5 DEF SessionTypeOK, SignInPart
<1> QED
  BY <1>3, <1>6, <1>7, CallsKept DEF SessionInv

(* Sign-out and revocation.                                                *)
LEMMA RevokeSafe ==
  ASSUME SessionInv, RevokeSession
  PROVE  SessionInv'
<1>1. SessionTypeOK /\ SignInPart
  BY DEF SessionInv
<1>2. SessionTypeOK' /\ SignInPart'
  BY <1>1 DEF RevokeSession, restVars, SessionTypeOK, SignInPart, SessionRow
<1>3. UNCHANGED <<now, request>> /\ given' \in Nat /\ given' >= given /\ given' <= 1
  BY <1>1 DEF RevokeSession, restVars, SessionTypeOK, SignInPart
<1> QED
  BY <1>2, <1>3, CallsKept DEF SessionInv

(* A step of one request leaves the parts of the others alone.             *)
LEMMA OthersKept ==
  ASSUME SessionInv, NEW r \in Requests, NEW call,
         request' = [request EXCEPT ![r] = call], UNCHANGED <<now, given>>,
         CallPart(r)'
  PROVE  \A q \in Requests : CallPart(q)'
<1> SUFFICES ASSUME NEW q \in Requests, q # r PROVE CallPart(q)'
  OBVIOUS
<1>1. CallPart(q) /\ request'[q] = request[q]
  BY DEF SessionInv, SessionTypeOK
<1> QED
  BY <1>1 DEF CallPart, SoundRow, Window

(* Requests with the session cookie.                                       *)
LEMMA EnforceSafe ==
  ASSUME SessionInv, NEW r \in Requests, EnforceStep(r)
  PROVE  SessionInv'
<1>1. /\ SessionTypeOK /\ SignInPart /\ CallPart(r)
      /\ request[r] \in Call /\ now \in Nat /\ given \in Nat
      /\ Idling \in Call /\ Attempts \in Nat /\ Attempts > 0
  BY SessionAssumption
     DEF SessionInv, SessionTypeOK, Idling, Call, RequestStep, SessionRow
<1>2. UNCHANGED <<now, signIn, challenge, handler, given>>
  BY DEF EnforceStep, Ask, ReadSession, Decide, AnswerByLatest, DeleteLapsed,
     RenewIdle, ClampExpiry, Abandon, restVars
<1>3. given > 0 => given = 1 /\ signIn = "DONE" /\ challenge = NoTime
  BY <1>1 DEF SignInPart, SessionTypeOK
<1>4. request[r].step # "IDLE" => given = 1
  BY <1>1 DEF CallPart
<1>5. ASSUME NEW call \in Call, request' = [request EXCEPT ![r] = call]
      PROVE  /\ request' \in [Requests -> Call]
             /\ request'[r] = call
  BY <1>1, <1>5 DEF SessionTypeOK
<1>6. ASSUME Answer(r)
      PROVE  request' \in [Requests -> Call] /\ CallPart(r)'
  <2>1. request'[r] = Idling /\ request' \in [Requests -> Call]
    BY <1>1, <1>5, <1>6 DEF Answer
  <2> QED
    BY <2>1 DEF CallPart, Idling
<1>7. ASSUME Retry(r), request[r].step \in {"DELETE", "RENEW", "CLAMP"}
      PROVE  request' \in [Requests -> Call] /\ CallPart(r)'
  <2> DEFINE call == [Idling EXCEPT !.step = "READ", !.active = request[r].active,
                                    !.attempt = request[r].attempt + 1]
  <2>1. request[r].attempt < Attempts /\ request[r].attempt \in Nat
        /\ request[r].active \in BOOLEAN
    BY <1>1, <1>7 DEF CallPart, Call
  <2>2. /\ call \in Call /\ call.step = "READ"
        /\ call.attempt = request[r].attempt + 1
    <3>1. request[r].attempt + 1 \in 0..Attempts
      BY <1>1, <2>1
    <3> QED
      BY <1>1, <2>1, <3>1 DEF Call, Idling, RequestStep
  <2>3. request' = [request EXCEPT ![r] = call]
    BY <1>7 DEF Retry
  <2>4. request'[r] = call /\ request' \in [Requests -> Call]
    BY <1>5, <2>2, <2>3
  <2>5. given' = 1
    BY <1>2, <1>4, <1>7
  <2> HIDE DEF call
  <2> QED
    BY <2>1, <2>2, <2>4, <2>5, <1>1 DEF CallPart
<1>8. /\ request' \in [Requests -> Call] /\ CallPart(r)'
      /\ \E call : request' = [request EXCEPT ![r] = call]
      /\ \/ UNCHANGED <<session, ending, denied>>
         \/ /\ session' = NoSession /\ ending' # "NONE" /\ given = 1
            /\ ending' \in {"LAPSED", ending}
            /\ denied' \in BOOLEAN
         \/ /\ session # NoSession /\ session' \in Row /\ SoundRow(session)'
            /\ UNCHANGED <<ending, denied>>
  <2>1. CASE \E active \in BOOLEAN : Ask(r, active)
    <3>1. PICK active \in BOOLEAN : Ask(r, active)
      BY <2>1
    <3> DEFINE call == [request[r] EXCEPT !.step = "READ", !.active = active]
    <3>2. request' = [request EXCEPT ![r] = call]
      BY <1>1, <3>1 DEF Ask, SessionTypeOK
    <3>3. call \in Call /\ call.step = "READ" /\ call.attempt = request[r].attempt
      BY <1>1 DEF Call, RequestStep
    <3>4. request'[r] = call /\ request' \in [Requests -> Call]
      BY <1>5, <3>2, <3>3
    <3>5. given' = 1 /\ UNCHANGED <<session, ending, denied>>
      BY <1>1, <1>3, <3>1 DEF Ask, restVars
    <3>6. request[r].attempt <= Attempts
      BY <1>1 DEF Call
    <3> HIDE DEF call
    <3>7. CallPart(r)'
      BY <3>3, <3>4, <3>5, <3>6 DEF CallPart
    <3> QED
      BY <3>2, <3>4, <3>5, <3>7
  <2>2. CASE ReadSession(r)
    <3>1. given = 1
      BY <1>4, <2>2 DEF ReadSession
    <3>2. CASE session = NoSession
      <4>1. ending # "NONE"
        BY <1>1, <1>3, <3>1, <3>2 DEF SignInPart
      <4> QED
        BY <1>6, <2>2, <3>1, <3>2, <4>1 DEF ReadSession, Answer
    <3>3. CASE session # NoSession
      <4> DEFINE call == [request[r] EXCEPT !.step = "SEEN", !.seen = session]
      <4>1. request' = [request EXCEPT ![r] = call]
        BY <1>1, <2>2, <3>3 DEF ReadSession, SessionTypeOK
      <4>2. call \in Call /\ call.step = "SEEN" /\ call.seen = session
        BY <1>1 DEF Call, RequestStep, SessionTypeOK
      <4>3. request'[r] = call /\ request' \in [Requests -> Call]
        BY <1>5, <4>1, <4>2
      <4>4. SoundRow(session)
        BY <1>1, <3>3 DEF SignInPart
      <4>5. UNCHANGED <<session, ending, denied>> /\ given' = 1 /\ now' = now
        BY <1>2, <2>2, <3>1, <3>3 DEF ReadSession
      <4> HIDE DEF call
      <4>6. CallPart(r)'
        BY <3>3, <4>2, <4>3, <4>4, <4>5 DEF CallPart, SoundRow
      <4> QED
        BY <4>1, <4>3, <4>5, <4>6
    <3> QED
      BY <3>2, <3>3
  <2>3. CASE Decide(r)
    <3> DEFINE verdict == Verdict(request[r].seen, request[r].active)
    <3>1. UNCHANGED <<session, ending, denied>> /\ request[r].step = "SEEN"
          /\ request[r].attempt < Attempts /\ given' = 1 /\ now' = now
      BY <1>2, <1>4, <2>3 DEF Decide
    <3>2. CASE verdict = "IDLE"
      BY <1>6, <2>3, <3>1, <3>2 DEF Decide, Answer
    <3>3. CASE verdict # "IDLE"
      <4> DEFINE call == [request[r] EXCEPT !.step = verdict, !.clock = now]
                 seen == request[r].seen
      <4>1. request' = [request EXCEPT ![r] = call]
        BY <1>1, <2>3, <3>3 DEF Decide, SessionTypeOK
      <4>2. seen \in Row /\ SoundRow(seen)
        BY <1>1, <3>1, RowFacts DEF CallPart, Call
      <4>3. Window(seen) \in Nat
        BY <1>1, <4>2, WindowFacts
      <4>4. /\ verdict \in {"DELETE", "RENEW", "CLAMP"}
            /\ verdict = "DELETE" => Window(seen) <= now
            /\ verdict = "RENEW" => now < Window(seen)
        BY <1>1, <3>3, <4>3 DEF Verdict, Call
      <4> HIDE DEF verdict
      <4>5. /\ call \in Call /\ call.step = verdict /\ call.seen = seen
            /\ call.clock = now /\ call.attempt = request[r].attempt
        BY <1>1, <4>4 DEF Call, RequestStep
      <4>6. request'[r] = call /\ request' \in [Requests -> Call]
        BY <1>5, <4>1, <4>5
      <4>7. seen.updated <= now /\ seen # NoSession
        BY <4>2, RowFacts DEF SoundRow
      <4> HIDE DEF call, seen
      <4>8. CallPart(r)'
        BY <1>1, <3>1, <4>2, <4>4, <4>5, <4>6, <4>7
           DEF CallPart, SoundRow, Window
      <4> QED
        BY <3>1, <4>1, <4>6, <4>8
    <3> QED
      BY <3>2, <3>3
  <2>4. CASE AnswerByLatest(r)
    BY <1>6, <2>4 DEF AnswerByLatest, Answer
  <2>5. CASE DeleteLapsed(r)
    <3>1. given = 1
      BY <1>4, <2>5 DEF DeleteLapsed
    <3>2. CASE Unchanged(r)
      BY <1>6, <2>5, <3>1, <3>2 DEF DeleteLapsed, Answer
    <3>3. CASE ~Unchanged(r)
      BY <1>7, <2>5, <3>3 DEF DeleteLapsed, Retry
    <3> QED
      BY <3>2, <3>3
  <2>6. CASE RenewIdle(r)
    <3>1. CASE Unchanged(r)
      <4> DEFINE clock == request[r].clock
      <4>1. /\ session \in Row /\ SoundRow(session) /\ clock \in Nat
            /\ clock <= now /\ session.updated <= clock
        BY <1>1, <2>6, <3>1, RowFacts
           DEF RenewIdle, Unchanged, CallPart, Call, SessionTypeOK
      <4>2. session' = [created |-> session.created, updated |-> clock,
              expires |-> Earlier(session.created + Absolute, clock + Idle)]
        BY <2>6, <3>1, <4>1 DEF RenewIdle, Row
      <4> HIDE DEF clock
      <4>3. session' \in Row /\ SoundRow(session)'
        BY <1>1, <1>2, <4>1, <4>2, SessionAssumption DEF Row, Earlier, SoundRow
      <4> QED
        BY <1>6, <2>6, <3>1, <4>3 DEF RenewIdle, Answer, Unchanged
    <3>2. CASE ~Unchanged(r)
      BY <1>7, <2>6, <3>2 DEF RenewIdle, Retry
    <3> QED
      BY <3>1, <3>2
  <2>7. CASE ClampExpiry(r)
    <3>1. CASE Unchanged(r)
      <4>1. session \in Row /\ SoundRow(session) /\ request[r].seen = session
        BY <1>1, <2>7, <3>1, RowFacts
           DEF ClampExpiry, Unchanged, CallPart, SessionTypeOK
      <4>2. session' = [created |-> session.created, updated |-> session.updated,
              expires |-> Window(session)]
        BY <2>7, <3>1, <4>1 DEF ClampExpiry, Row
      <4>3. Window(session) \in Nat
            /\ Window(session) = Earlier(session.created + Absolute,
                                         session.updated + Idle)
        BY <1>1, <4>1, WindowFacts
      <4>4. session' \in Row /\ SoundRow(session)'
        BY <1>1, <1>2, <4>1, <4>2, <4>3, SessionAssumption
           DEF Row, Earlier, SoundRow
      <4> QED
        BY <1>6, <2>7, <3>1, <4>4 DEF ClampExpiry, Answer, Unchanged
    <3>2. CASE ~Unchanged(r)
      BY <1>7, <2>7, <3>2 DEF ClampExpiry, Retry
    <3> QED
      BY <3>1, <3>2
  <2>8. CASE Abandon(r)
    BY <1>6, <2>8 DEF Abandon, Answer
  <2> QED
    BY <2>1, <2>2, <2>3, <2>4, <2>5, <2>6, <2>7, <2>8 DEF EnforceStep
<1>9. SessionTypeOK' /\ SignInPart'
  BY <1>1, <1>2, <1>3, <1>8, RowFacts DEF SessionTypeOK, SignInPart, SoundRow
<1>10. \A q \in Requests : CallPart(q)'
  BY <1>2, <1>8, OthersKept
<1> QED
  BY <1>9, <1>10 DEF SessionInv

LEMMA SessionInvariant == SessionSpec => []SessionInv
<1>1. SessionInv /\ [SessionNext]_sessionVars => SessionInv'
  <2> SUFFICES ASSUME SessionInv, [SessionNext]_sessionVars PROVE SessionInv'
    OBVIOUS
  <2>1. CASE UNCHANGED sessionVars
    BY <2>1 DEF sessionVars, SessionInv, SessionTypeOK, SignInPart, CallPart,
       SoundRow, Window
  <2> QED
    BY <2>1, TickStep, SignInSafe, ChallengeSafe, RevokeSafe, EnforceSafe
       DEF SessionNext
<1> QED
  BY <1>1, InvInit, PTL DEF SessionSpec

(* The tables of sign-in and sessions keep their types; in particular no   *)
(* call of enforceSession goes beyond its rounds.                          *)
THEOREM SessionTypeCorrect == SessionSpec => []SessionTypeOK
<1>1. SessionInv => SessionTypeOK
  BY DEF SessionInv
<1> QED
  BY <1>1, SessionInvariant, PTL

(* What enforceSession refuses for want of a session stays refused: no     *)
(* request in progress can bring the session back.                         *)
THEOREM RefusalIsFinalCorrect == SessionSpec => []RefusalIsFinal
<1>1. SessionInv => RefusalIsFinal
  BY DEF SessionInv, SignInPart, RefusalIsFinal
<1> QED
  BY <1>1, SessionInvariant, PTL

(* A step of the sign-in is a step of the lease, or changes nothing of it. *)
LEMMA SignInRefines ==
  ASSUME SessionInv, SignInStep
  PROVE  [Lease!Next]_Lease!vars
<1>1. SessionTypeOK /\ SignInPart
  BY DEF SessionInv
<1>2. CASE CreateSession
  <2>1. session = NoSession /\ ending = "NONE"
    BY <1>1, <1>2 DEF CreateSession, SignInPart
  <2>2. session' # NoSession
    BY <1>1, <1>2 DEF CreateSession, SessionTypeOK, NoSession, NoTime
  <2>3. Lease!Open
    BY <1>2, <2>1, <2>2 DEF CreateSession, Lease!Open, phase, lease
  <2> QED
    BY <2>3 DEF Lease!Next
<1>3. CASE HandOver
  <2>1. given = 0 /\ phase \in {"OPEN", "REVOKED"}
    BY <1>1, <1>3 DEF HandOver, SignInPart, phase
  <2>2. Lease!Hand
    BY <1>3, <2>1 DEF HandOver, Lease!Hand, phase, lease
  <2> QED
    BY <2>2 DEF Lease!Next
<1>4. CASE RefuseChallenge
  <2>1. given = 0 /\ phase \in {"OPEN", "REVOKED"}
    BY <1>1, <1>4 DEF RefuseChallenge, SignInPart, phase
  <2>2. Lease!Cancel
    BY <1>4, <2>1 DEF RefuseChallenge, CallOff, Lease!Cancel, Lease!End,
       Lease!NoLease, phase, lease, NoSession, NoTime
  <2> QED
    BY <2>2 DEF Lease!Next
<1>5. CASE createChallenge \/ StopSignIn
  BY <1>5 DEF createChallenge, StopSignIn, Lease!vars, phase, lease
<1> QED
  BY <1>2, <1>3, <1>4, <1>5 DEF SignInStep

LEMMA ChallengeRefines ==
  ASSUME SessionInv, NEW h \in Handlers, ChallengeStep(h)
  PROVE  [Lease!Next]_Lease!vars
<1>1. SessionTypeOK /\ SignInPart
  BY DEF SessionInv
<1>2. /\ now' = now
      /\ \/ UNCHANGED <<session, given, ending>>
         \/ challenge # NoTime /\ CallOff /\ given' = given
         \/ /\ challenge # NoTime /\ given' = given + 1
            /\ UNCHANGED <<session, ending>>
  BY <1>1 DEF ChallengeStep, findChallenge, completeChallenge, cancelChallenge,
     cancelById, LeaveChallenge, signVars, SessionTypeOK, NoTime
<1>3. challenge # NoTime => given = 0 /\ phase \in {"OPEN", "REVOKED"}
  BY <1>1 DEF SignInPart, SessionTypeOK, phase
<1>4. CASE UNCHANGED <<session, given, ending>>
  BY <1>2, <1>4 DEF Lease!vars, phase, lease
<1>5. CASE challenge # NoTime /\ CallOff /\ given' = given
  BY <1>2, <1>3, <1>5 DEF CallOff, Lease!Next, Lease!Cancel, Lease!End,
     Lease!NoLease, phase, lease, NoSession, NoTime
<1>6. CASE challenge # NoTime /\ given' = given + 1 /\ UNCHANGED <<session, ending>>
  BY <1>2, <1>3, <1>6 DEF Lease!Next, Lease!Hand, phase, lease
<1> QED
  BY <1>2, <1>4, <1>5, <1>6

(* What a request writes: only the row it has judged, so that a deletion   *)
(* is a lapse and an activity a renewal.                                   *)
LEMMA EnforceRefines ==
  ASSUME SessionInv, NEW r \in Requests, EnforceStep(r)
  PROVE  [Lease!Next]_Lease!vars
<1>1. /\ SessionTypeOK /\ SignInPart /\ CallPart(r) /\ request[r] \in Call
      /\ now \in Nat
  BY DEF SessionInv, SessionTypeOK
<1>2. now' = now /\ given' = given
  BY DEF EnforceStep, Ask, ReadSession, Decide, AnswerByLatest, DeleteLapsed,
     RenewIdle, ClampExpiry, Abandon, restVars
<1>3. ASSUME Unchanged(r), request[r].step \in {"DELETE", "RENEW", "CLAMP"}
      PROVE  /\ session \in Row /\ SoundRow(session) /\ phase = "OPEN"
             /\ request[r].seen = session /\ given = 1
             /\ Window(session) \in Nat /\ Window(session) = Lease!Limit
             /\ request[r].clock \in Nat /\ request[r].clock <= now
             /\ session.updated <= request[r].clock
  <2>1. session \in Row /\ SoundRow(session) /\ request[r].seen = session
    BY <1>1, <1>3, RowFacts DEF Unchanged, SessionTypeOK, SignInPart
  <2>2. Window(session) = Lease!Limit /\ Window(session) \in Nat
    BY <1>1, <2>1, WindowFacts DEF Lease!Limit, Lease!Earlier, Earlier, lease
  <2> QED
    BY <1>1, <1>3, <2>1, <2>2 DEF Unchanged, CallPart, Call, phase
<1>4. CASE DeleteLapsed(r) /\ Unchanged(r)
  <2>1. Window(session) <= now
    BY <1>1, <1>3, <1>4 DEF DeleteLapsed, CallPart
  <2>2. Lease!Lapse
    BY <1>2, <1>3, <1>4, <2>1
       DEF DeleteLapsed, Lease!Lapse, Lease!End, Lease!NoLease, phase, lease,
           NoSession, NoTime
  <2> QED
    BY <2>2 DEF Lease!Next
<1>5. CASE RenewIdle(r) /\ Unchanged(r)
  <2> DEFINE clock == request[r].clock
  <2>1. clock < Window(session)
    BY <1>1, <1>3, <1>5 DEF RenewIdle, CallPart
  <2>2. /\ session'.created = session.created /\ session'.updated = clock
        /\ session' # NoSession
    <3>1. session' = [created |-> session.created, updated |-> clock,
            expires |-> Earlier(session.created + Absolute, clock + Idle)]
      BY <1>3, <1>5 DEF RenewIdle, Row
    <3> QED
      BY <1>3, <1>5, <3>1 DEF RenewIdle, NoSession, NoTime, Row
  <2>3. lease' = [lease EXCEPT !.last = clock] /\ phase' = "OPEN"
    BY <2>2 DEF lease, phase
  <2>4. lease.last = session.updated
    BY DEF lease
  <2>5. clock \in 0..now
    BY <1>1, <1>3, <1>5 DEF RenewIdle
  <2> HIDE DEF clock
  <2>6. Lease!Renew(clock)
    BY <1>2, <1>3, <1>5, <2>1, <2>3, <2>4, <2>5
       DEF Lease!Renew, RenewIdle, clock
  <2> QED
    BY <2>5, <2>6 DEF Lease!Next
<1>6. CASE ClampExpiry(r) /\ Unchanged(r)
  <2>1. session' = [created |-> session.created, updated |-> session.updated,
          expires |-> Window(session)]
    BY <1>3, <1>6 DEF ClampExpiry, Row
  <2>2. session' # NoSession
    BY <1>3, <1>6, <2>1 DEF ClampExpiry, NoSession, NoTime, Row
  <2> QED
    BY <1>2, <1>3, <1>6, <2>1, <2>2 DEF ClampExpiry, Lease!vars, phase, lease
<1>7. CASE UNCHANGED <<session, ending>>
  BY <1>2, <1>7 DEF Lease!vars, phase, lease
<1> QED
  BY <1>4, <1>5, <1>6, <1>7
     DEF EnforceStep, Ask, ReadSession, Decide, AnswerByLatest, DeleteLapsed,
         RenewIdle, ClampExpiry, Abandon, Retry

LEMMA LeaseStep ==
  ASSUME SessionInv, [SessionNext]_sessionVars
  PROVE  [Lease!Next]_Lease!vars
<1>1. CASE Tick
  BY <1>1 DEF Tick, Lease!Next, Lease!Tick, phase, lease
<1>2. CASE RevokeSession
  BY <1>2 DEF RevokeSession, restVars, Lease!Next, Lease!Revoke, Lease!End,
     Lease!NoLease, phase, lease, NoSession, NoTime
<1>3. CASE UNCHANGED sessionVars
  BY <1>3 DEF sessionVars, Lease!vars, phase, lease
<1> QED
  BY <1>1, <1>2, <1>3, SignInRefines, ChallengeRefines, EnforceRefines
     DEF SessionNext

(* Sign-in and session requests, interleaved in any way, keep the promise  *)
(* of the lease.                                                           *)
THEOREM SessionsRefineLease == SessionSpec => ImplementsLease
<1>1. SessionInit => Lease!Init
  BY DEF SessionInit, Lease!Init, Lease!NoLease, phase, lease, NoSession, NoTime
<1>2. SessionInv /\ [SessionNext]_sessionVars => [Lease!Next]_Lease!vars
  BY LeaseStep
<1> QED
  BY <1>1, <1>2, SessionInvariant, PTL
     DEF SessionSpec, ImplementsLease, Lease!Spec
=============================================================================
