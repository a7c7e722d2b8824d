------------------------- MODULE NotificationProofs -------------------------
(***************************************************************************)
(* Proofs about notifications on their way to a user: how a sweep comes to *)
(* write them (BorrowDeadline), for any loans, users, timers and bounds,   *)
(* and how the stream announces what is written (NotificationStream), for  *)
(* any rows, connections and length of their queues.                       *)
(***************************************************************************)
EXTENDS BorrowDeadline, NotificationStream, TLAPS

----------------------------------------------------------------------------
(* Deadlines.                                                              *)

(***************************************************************************)
(* The rows, the clock and the sweeps keep their types through every step  *)
(* of the sweep and of the requests around it.                             *)
(***************************************************************************)
THEOREM DeadlineTypeCorrect == DeadlineSpec => []DeadlineTypeOK
<1>1. DeadlineInit => DeadlineTypeOK
  <2> SUFFICES ASSUME DeadlineInit
               PROVE  DeadlineTypeOK
    OBVIOUS
  <2>1. loan \in [Loans -> [out : BOOLEAN, due : Dates]]
    BY DEF DeadlineInit
  <2>2. sweep \in [Timers -> Sweeps]
    BY DEF DeadlineInit, Sweeps
  <2>3. QED
    BY <2>1, <2>2 DEF DeadlineInit, DeadlineTypeOK
<1>2. DeadlineTypeOK /\ [DeadlineNext]_deadlineVars => DeadlineTypeOK'
  <2> SUFFICES ASSUME DeadlineTypeOK, [DeadlineNext]_deadlineVars
               PROVE  DeadlineTypeOK'
    OBVIOUS
  <2> USE DEF DeadlineTypeOK
  <2>1. ASSUME NEW t \in Timers, StartSweep(t)
        PROVE  DeadlineTypeOK'
    <3>1. [stage |-> "STARTED", at |-> now] \in Sweeps
      BY DEF Sweeps
    <3>2. QED
      BY <2>1, <3>1 DEF StartSweep
  <2>2. ASSUME NEW t \in Timers, SelectBatch(t)
        PROVE  DeadlineTypeOK'
    <3>1. sweep[t].at \in Nat
      BY <2>2 DEF SelectBatch, Sweeps, Idle
    <3>2. ASSUME NEW S \in SUBSET Loans
          PROVE  [stage |-> "SELECTED", at |-> sweep[t].at,
                  batch |-> {[loan |-> l, due |-> loan[l].due] : l \in S}]
                   \in Sweeps
      <4>1. {[loan |-> l, due |-> loan[l].due] : l \in S} \in SUBSET Choice
        BY <3>2 DEF Choice
      <4>2. QED
        BY <3>1, <4>1 DEF Sweeps
    <3>3. Batch({l \in Loans : Eligible(l, sweep[t].at) /\ ~Locked(l)})
            \in SUBSET Loans
      BY DEF Batch
    <3>4. QED
      BY <2>2, <3>2, <3>3 DEF SelectBatch
  <2>3. ASSUME NEW t \in Timers, CommitSweep(t)
        PROVE  DeadlineTypeOK'
    <3>1. sweep[t].batch \in SUBSET Choice
      BY <2>3 DEF CommitSweep, Sweeps, Idle
    <3>2. ASSUME NEW c \in Choice, NEW at,
                 NEW u \in Recipients(c.loan, c.due, at)
          PROVE  [type |-> TypeAt(c.due, at), loan |-> c.loan,
                  due |-> c.due, user |-> u] \in Note
      BY <3>2 DEF Choice, Recipients, Note, TypeAt, EventType
    <3>3. notes' \in SUBSET Note
      BY <2>3, <3>1, <3>2 DEF CommitSweep
    <3>4. sweep' \in [Timers -> Sweeps]
      BY <2>3 DEF CommitSweep, Sweeps
    <3>5. QED
      BY <2>3, <3>3, <3>4 DEF CommitSweep
  <2>4. ASSUME NEW t \in Timers, FailSweep(t)
        PROVE  DeadlineTypeOK'
    BY <2>4 DEF FailSweep, Sweeps
  <2>5. CASE Tick
    BY <2>5 DEF Tick
  <2>6. ASSUME NEW l \in Loans, LockLoan(l) \/ Release(l)
        PROVE  DeadlineTypeOK'
    <3>1. CASE LockLoan(l) \/ UnlockLoan(l)
      BY <3>1 DEF LockLoan, UnlockLoan
    <3>2. CASE GiveLoanBack(l)
      BY <3>2 DEF GiveLoanBack
    <3>3. ASSUME NEW date \in Dates, ExtendLoan(l, date)
          PROVE  DeadlineTypeOK'
      BY <3>3 DEF ExtendLoan
    <3>4. QED
      BY <2>6, <3>1, <3>2, <3>3 DEF Release
  <2>7. ASSUME NEW u \in Users, SwitchAccount(u)
        PROVE  DeadlineTypeOK'
    BY <2>7 DEF SwitchAccount
  <2>8. CASE UNCHANGED deadlineVars
    BY <2>8 DEF deadlineVars
  <2>9. QED
    BY <2>1, <2>2, <2>3, <2>4, <2>5, <2>6, <2>7, <2>8 DEF DeadlineNext
<1>3. QED
  BY <1>1, <1>2, PTL DEF DeadlineSpec

----------------------------------------------------------------------------
(***************************************************************************)
(* The inductive invariant.  Its parts: runSweepOnce keeps one sweep in    *)
(* flight; what it has chosen is locked, current and not yet announced;    *)
(* and dates announced as overdue lie before the clock of any sweep.       *)
(***************************************************************************)
OneSweepInFlight ==
  \A t, u \in Timers : sweep[t] # Idle /\ sweep[u] # Idle => t = u

(* Between the query and the commit of a sweep nobody changes a loan it    *)
(* has chosen, or holds it to change it: the loan is out, due when the     *)
(* sweep says.                                                             *)
SelectionIsCurrent ==
  \A t \in Timers :
    sweep[t].stage = "SELECTED" =>
      \A c \in sweep[t].batch : /\ loan[c.loan] = [out |-> TRUE, due |-> c.due]
                                /\ c.loan \notin held

BatchIsUnannounced ==
  \A t \in Timers :
    sweep[t].stage = "SELECTED" =>
      \A c \in sweep[t].batch : Rows(c.loan, c.due, sweep[t].at) = {}

OverdueIsPast ==
  /\ \A t \in Timers : sweep[t] # Idle => sweep[t].at <= now
  /\ \A n \in notes : n.type = "BORROW_OVERDUE" =>
       /\ n.due < now
       /\ \A t \in Timers : sweep[t] # Idle => n.due < sweep[t].at

SweepInv ==
  /\ DeadlineTypeOK
  /\ OneSweepInFlight
  /\ SelectionIsCurrent
  /\ BatchIsUnannounced
  /\ OverdueIsPast

\* A row a sweep adds is of a loan in its batch, with the type of its clock.
LEMMA NewNoteIsChosen ==
  ASSUME NEW t \in Timers, CommitSweep(t), NEW n \in notes' \ notes
  PROVE  \E c \in sweep[t].batch : /\ n.loan = c.loan
                                   /\ n.due = c.due
                                   /\ n.type = TypeAt(c.due, sweep[t].at)
BY DEF CommitSweep

LEMMA SweepInvStep ==
  ASSUME SweepInv, DeadlineTypeOK', [DeadlineNext]_deadlineVars
  PROVE  SweepInv'
<1> USE DEF SweepInv
<1> USE DEF DeadlineTypeOK
<1>1. ASSUME NEW t \in Timers, StartSweep(t)
      PROVE  SweepInv'
  <2>1. /\ \A u \in Timers : sweep[u] = Idle
        /\ sweep'[t] = [stage |-> "STARTED", at |-> now]
        /\ \A u \in Timers : u # t => sweep'[u] = Idle
        /\ UNCHANGED <<now, loan, held, notes>>
    BY <1>1 DEF StartSweep
  <2>2. OneSweepInFlight'
    BY <2>1 DEF OneSweepInFlight
  <2>3. \A u \in Timers : sweep'[u].stage # "SELECTED"
    BY <2>1 DEF Idle
  <2>4. SelectionIsCurrent' /\ BatchIsUnannounced'
    BY <2>3 DEF SelectionIsCurrent, BatchIsUnannounced
  <2>5. OverdueIsPast'
    BY <2>1 DEF OverdueIsPast
  <2>6. QED
    BY <2>2, <2>4, <2>5
<1>2. ASSUME NEW t \in Timers, SelectBatch(t)
      PROVE  SweepInv'
  <2> DEFINE at == sweep[t].at
  <2> DEFINE batch == Batch({l \in Loans : Eligible(l, at) /\ ~Locked(l)})
  <2>1. /\ sweep'[t] = [stage |-> "SELECTED", at |-> at,
                        batch |-> {[loan |-> l, due |-> loan[l].due]
                                   : l \in batch}]
        /\ \A u \in Timers : u # t => sweep'[u] = sweep[u]
        /\ sweep[t] # Idle
        /\ UNCHANGED <<now, loan, held, active, notes>>
    BY <1>2 DEF SelectBatch, Idle
  <2>2. OneSweepInFlight'
    BY <2>1 DEF OneSweepInFlight
  <2>3. \A c \in sweep'[t].batch :
          c.loan \in batch /\ c.due = loan[c.loan].due
    <3> HIDE DEF batch
    <3>1. QED
      BY <2>1
  <2>4. \A l \in batch : /\ l \in Loans
                         /\ Eligible(l, at)
                         /\ ~Locked(l)
    BY DEF Batch
  <2>5. \A c \in sweep'[t].batch :
          /\ loan[c.loan] = [out |-> TRUE, due |-> c.due]
          /\ c.loan \notin held
          /\ Rows(c.loan, c.due, at) = {}
    <3> HIDE DEF batch
    <3>1. TAKE c \in sweep'[t].batch
    <3>2. /\ c.loan \in Loans
          /\ c.due = loan[c.loan].due
          /\ loan[c.loan].out
          /\ Rows(c.loan, loan[c.loan].due, at) = {}
          /\ c.loan \notin held
      BY <2>3, <2>4 DEF Eligible, Locked
    <3>3. QED
      BY <3>2
  <2>6. \A u \in Timers : u # t => sweep[u] = Idle
    BY <2>1 DEF OneSweepInFlight
  <2>7. \A u \in Timers : u # t => sweep'[u].stage # "SELECTED"
    BY <2>1, <2>6 DEF Idle
  <2>8. SelectionIsCurrent'
    BY <2>1, <2>5, <2>7 DEF SelectionIsCurrent
  <2>9. BatchIsUnannounced'
    <3> HIDE DEF batch
    <3>1. sweep'[t].at = at
      BY <2>1
    <3>2. ASSUME NEW c \in sweep'[t].batch, NEW n \in notes',
                 n.loan = c.loan, n.due = c.due
          PROVE  n.type # TypeAt(c.due, sweep'[t].at)
      <4>1. n.type # TypeAt(c.due, at)
        BY <2>1, <2>5, <3>2 DEF Rows
      <4>2. QED
        BY <3>1, <4>1
    <3>3. QED
      BY <2>7, <3>2 DEF BatchIsUnannounced, Rows
  <2>10. OverdueIsPast'
    <3> HIDE DEF batch
    <3>1. \A u \in Timers : sweep'[u] # Idle =>
            sweep[u] # Idle /\ sweep'[u].at = sweep[u].at
      BY <2>1
    <3>2. QED
      BY <2>1, <3>1 DEF OverdueIsPast
  <2>11. QED
    BY <2>2, <2>8, <2>9, <2>10
<1>3. ASSUME NEW t \in Timers, CommitSweep(t)
      PROVE  SweepInv'
  <2>1. /\ sweep[t].stage = "SELECTED"
        /\ sweep'[t] = Idle
        /\ \A u \in Timers : u # t => sweep'[u] = sweep[u]
        /\ UNCHANGED <<now, loan, held>>
    BY <1>3 DEF CommitSweep
  <2>2. sweep[t] # Idle
    BY <2>1 DEF Idle
  <2>3. \A u \in Timers : sweep'[u] = Idle
    BY <2>1, <2>2 DEF OneSweepInFlight
  <2>4. OneSweepInFlight' /\ SelectionIsCurrent' /\ BatchIsUnannounced'
    BY <2>3 DEF OneSweepInFlight, SelectionIsCurrent, BatchIsUnannounced, Idle
  <2>5. ASSUME NEW n \in notes', n.type = "BORROW_OVERDUE"
        PROVE  n.due < now
    <3>1. CASE n \in notes
      BY <2>5, <3>1 DEF OverdueIsPast
    <3>2. CASE n \notin notes
      <4>1. PICK c \in sweep[t].batch :
              n.due = c.due /\ n.type = TypeAt(c.due, sweep[t].at)
        BY <1>3, <3>2, NewNoteIsChosen
      <4>2. c.due < sweep[t].at
        BY <2>5, <4>1 DEF TypeAt
      <4>3. sweep[t].at <= now
        BY <2>2 DEF OverdueIsPast
      <4>4. c.due \in Nat /\ sweep[t].at \in Nat
        <5>1. sweep[t].at \in Nat /\ sweep[t].batch \in SUBSET Choice
          BY <2>1 DEF Sweeps, Idle
        <5>2. QED
          BY <5>1, DeadlineAssumption DEF Choice
      <4>5. QED
        BY <4>1, <4>2, <4>3, <4>4
    <3>3. QED
      BY <3>1, <3>2
  <2>6. OverdueIsPast'
    BY <2>1, <2>3, <2>5 DEF OverdueIsPast
  <2>7. QED
    BY <2>4, <2>6
<1>4. ASSUME NEW t \in Timers, FailSweep(t)
      PROVE  SweepInv'
  <2>1. /\ sweep'[t] = Idle
        /\ \A u \in Timers : u # t => sweep'[u] = sweep[u]
        /\ UNCHANGED <<now, loan, held, notes>>
    BY <1>4 DEF FailSweep
  <2>2. \A u \in Timers : sweep'[u] = Idle \/ sweep'[u] = sweep[u]
    BY <2>1
  <2>3. OneSweepInFlight' /\ SelectionIsCurrent'
    BY <2>1, <2>2 DEF OneSweepInFlight, SelectionIsCurrent, Idle
  <2>4. BatchIsUnannounced'
    BY <2>1, <2>2 DEF BatchIsUnannounced, Rows, Idle
  <2>5. OverdueIsPast'
    BY <2>1, <2>2 DEF OverdueIsPast
  <2>6. QED
    BY <2>3, <2>4, <2>5
<1>5. CASE Tick
  <2>1. now' = now + 1 /\ UNCHANGED <<loan, held, notes, sweep>>
    BY <1>5 DEF Tick
  <2>2. OneSweepInFlight' /\ SelectionIsCurrent'
    BY <2>1 DEF OneSweepInFlight, SelectionIsCurrent
  <2>3. BatchIsUnannounced'
    BY <2>1 DEF BatchIsUnannounced, Rows
  <2>4. \A t \in Timers : sweep[t] # Idle => sweep[t].at \in Nat
    BY DEF Sweeps
  <2>5. \A n \in notes : n.due \in Nat
    BY DeadlineAssumption DEF Note
  <2>6. OverdueIsPast'
    BY <2>1, <2>4, <2>5 DEF OverdueIsPast
  <2>7. QED
    BY <2>2, <2>3, <2>6
<1>6. ASSUME NEW l \in Loans, LockLoan(l)
      PROVE  SweepInv'
  <2>1. /\ ~Locked(l)
        /\ held' = held \union {l}
        /\ UNCHANGED <<now, loan, notes, sweep>>
    BY <1>6 DEF LockLoan
  <2>2. SelectionIsCurrent'
    BY <2>1 DEF SelectionIsCurrent, Locked
  <2>3. OneSweepInFlight' /\ BatchIsUnannounced' /\ OverdueIsPast'
    BY <2>1 DEF OneSweepInFlight, BatchIsUnannounced, Rows, OverdueIsPast
  <2>4. QED
    BY <2>2, <2>3
<1>7. ASSUME NEW l \in Loans, Release(l)
      PROVE  SweepInv'
  <2>1. /\ l \in held
        /\ held' = held \ {l}
        /\ \A m \in Loans : m # l => loan'[m] = loan[m]
        /\ UNCHANGED <<now, notes, sweep>>
    BY <1>7 DEF Release, UnlockLoan, ExtendLoan, GiveLoanBack
  <2>2. \A t \in Timers : sweep[t].stage = "SELECTED" =>
          \A c \in sweep[t].batch : c.loan \in Loans
    BY DEF Sweeps, Idle, Choice
  <2>3. SelectionIsCurrent'
    BY <2>1, <2>2 DEF SelectionIsCurrent
  <2>4. OneSweepInFlight' /\ BatchIsUnannounced' /\ OverdueIsPast'
    BY <2>1 DEF OneSweepInFlight, BatchIsUnannounced, Rows, OverdueIsPast
  <2>5. QED
    BY <2>3, <2>4
<1>8. ASSUME UNCHANGED <<now, loan, held, notes, sweep>>
      PROVE  SweepInv'
  BY <1>8 DEF OneSweepInFlight, SelectionIsCurrent, BatchIsUnannounced, Rows,
              OverdueIsPast
<1>9. QED
  BY <1>1, <1>2, <1>3, <1>4, <1>5, <1>6, <1>7, <1>8
     DEF DeadlineNext, deadlineVars, SwitchAccount

LEMMA SweepInvHolds == DeadlineSpec => []SweepInv
<1>1. DeadlineInit => OneSweepInFlight /\ SelectionIsCurrent
                        /\ BatchIsUnannounced /\ OverdueIsPast
  BY DEF DeadlineInit, OneSweepInFlight, SelectionIsCurrent,
         BatchIsUnannounced, OverdueIsPast, Idle
<1>2. DeadlineInit /\ DeadlineTypeOK => SweepInv
  BY <1>1 DEF SweepInv
<1>3. SweepInv /\ DeadlineTypeOK' /\ [DeadlineNext]_deadlineVars => SweepInv'
  BY SweepInvStep
<1>4. QED
  BY <1>2, <1>3, DeadlineTypeCorrect, PTL DEF DeadlineSpec

----------------------------------------------------------------------------
(***************************************************************************)
(* What a sweep has chosen stays true until it commits: the rows are       *)
(* locked by the query that read them.                                     *)
(***************************************************************************)
THEOREM SelectionStaysCurrent == DeadlineSpec => []SelectionIsCurrent
BY SweepInvHolds, PTL DEF SweepInv

LEMMA OnlySweepsNotify ==
  ASSUME [DeadlineNext]_deadlineVars, notes' # notes
  PROVE  \E t \in Timers : CommitSweep(t)
BY DEF DeadlineNext, deadlineVars, StartSweep, SelectBatch, FailSweep, Tick,
       LockLoan, Release, UnlockLoan, ExtendLoan, GiveLoanBack,
       SwitchAccount

(***************************************************************************)
(* A deadline notification is about the deadline in force when it is       *)
(* written: returns and extensions that race with the sweep wait for it.   *)
(***************************************************************************)
THEOREM NotifiesDeadlineInForce == DeadlineSpec => DeadlineInForce
<1>1. SweepInv /\ [DeadlineNext]_deadlineVars =>
        [\A n \in notes' \ notes :
           loan[n.loan].out /\ loan[n.loan].due = n.due]_deadlineVars
  <2> SUFFICES ASSUME SweepInv, [DeadlineNext]_deadlineVars,
                      NEW n \in notes' \ notes
               PROVE  loan[n.loan].out /\ loan[n.loan].due = n.due
    OBVIOUS
  <2>1. PICK t \in Timers : CommitSweep(t)
    BY OnlySweepsNotify
  <2>2. PICK c \in sweep[t].batch : n.loan = c.loan /\ n.due = c.due
    BY <2>1, NewNoteIsChosen
  <2>3. loan[c.loan] = [out |-> TRUE, due |-> c.due]
    BY <2>1, <2>2 DEF SweepInv, SelectionIsCurrent, CommitSweep
  <2>4. QED
    BY <2>2, <2>3
<1>2. QED
  BY <1>1, SweepInvHolds, PTL DEF DeadlineSpec, DeadlineInForce

(***************************************************************************)
(* The rows of an event are all written by one sweep; a later one adds     *)
(* nobody, because the query leaves out events that have a row and no two  *)
(* sweeps are in flight.                                                   *)
(***************************************************************************)
THEOREM EventsAreAnnouncedOnce == DeadlineSpec => AnnouncedOnce
<1>1. SweepInv /\ [DeadlineNext]_deadlineVars =>
        [\A n \in notes' \ notes :
           ~\E m \in notes : /\ m.type = n.type
                             /\ m.loan = n.loan
                             /\ m.due = n.due]_deadlineVars
  <2> SUFFICES ASSUME SweepInv, [DeadlineNext]_deadlineVars,
                      NEW n \in notes' \ notes, NEW m \in notes,
                      m.type = n.type, m.loan = n.loan, m.due = n.due
               PROVE  FALSE
    OBVIOUS
  <2>1. PICK t \in Timers : CommitSweep(t)
    BY OnlySweepsNotify
  <2>2. PICK c \in sweep[t].batch :
          n.loan = c.loan /\ n.due = c.due
            /\ n.type = TypeAt(c.due, sweep[t].at)
    BY <2>1, NewNoteIsChosen
  <2>3. Rows(c.loan, c.due, sweep[t].at) = {}
    BY <2>1, <2>2 DEF SweepInv, BatchIsUnannounced, CommitSweep
  <2>4. m \in Rows(c.loan, c.due, sweep[t].at)
    BY <2>2 DEF Rows
  <2>5. QED
    BY <2>3, <2>4
<1>2. QED
  BY <1>1, SweepInvHolds, PTL DEF DeadlineSpec, AnnouncedOnce

(***************************************************************************)
(* No reminder of a date follows the news that it has passed: the clock of *)
(* a sweep is never behind the one that announced the date as overdue.     *)
(***************************************************************************)
THEOREM RemindersComeFirst == DeadlineSpec => NoReminderAfterOverdue
<1>1. SweepInv /\ [DeadlineNext]_deadlineVars =>
        [\A n \in notes' \ notes :
           n.type = "BORROW_DUE_SOON" =>
             ~\E m \in notes : /\ m.type = "BORROW_OVERDUE"
                               /\ m.loan = n.loan
                               /\ m.due = n.due]_deadlineVars
  <2> SUFFICES ASSUME SweepInv, [DeadlineNext]_deadlineVars,
                      NEW n \in notes' \ notes, n.type = "BORROW_DUE_SOON",
                      NEW m \in notes, m.type = "BORROW_OVERDUE",
                      m.loan = n.loan, m.due = n.due
               PROVE  FALSE
    OBVIOUS
  <2>1. PICK t \in Timers : CommitSweep(t)
    BY OnlySweepsNotify
  <2>2. PICK c \in sweep[t].batch :
          n.due = c.due /\ n.type = TypeAt(c.due, sweep[t].at)
    BY <2>1, NewNoteIsChosen
  <2>3. ~(c.due < sweep[t].at)
    BY <2>2 DEF TypeAt
  <2>4. sweep[t] # Idle
    BY <2>1 DEF CommitSweep, Idle
  <2>5. m.due < sweep[t].at
    BY <2>4 DEF SweepInv, OverdueIsPast
  <2>6. QED
    BY <2>2, <2>3, <2>5
<1>2. QED
  BY <1>1, SweepInvHolds, PTL DEF DeadlineSpec, NoReminderAfterOverdue

----------------------------------------------------------------------------
(* The stream.                                                             *)

\* A connection of the right type, within its limit.
Fits(k) == k \in Connection /\ Len(k.queue) <= MaxPending

\* Nothing waits at a connection that is not open, and a drain of an open one
\* has something to send.
Orderly(k) ==
  /\ k.state # "OPEN" => k.queue = <<>>
  /\ k.state = "NEW" => k.drain = "IDLE"
  /\ k.state = "OPEN" /\ k.drain # "IDLE" => k.queue # <<>>

\* Events announce committed rows.
Announces(k, rows) ==
  \A i \in DOMAIN k.queue :
    k.queue[i].type = "created" => k.queue[i].note \in rows

\* The event a check of the session has let through.
Cleared(k, rows) ==
  k.drain = "ALLOWED" /\ k.queue # <<>> /\ Head(k.queue).type = "created"
    => Head(k.queue).note \in rows

StreamInv ==
  /\ StreamTypeOK
  /\ publishing \subseteq stored
  /\ \A c \in Conns : Orderly(conn[c]) /\ Announces(conn[c], stored)
  /\ \A c \in Conns : IF valid THEN told[c].created \subseteq stored
                      ELSE /\ told[c].created \subseteq before
                           /\ Cleared(conn[c], before)

\* What terminate leaves of a connection.
LEMMA RemovedFacts ==
  ASSUME NEW k \in Connection
  PROVE  /\ Fits(Removed(k)) /\ Removed(k).state = "CLOSED"
         /\ Removed(k).queue = <<>> /\ Removed(k).drain = k.drain
<1>1. <<>> \in Seq(Event) /\ Len(<<>>) <= MaxPending
  BY StreamAssumption
<1> DEFINE q == <<>>
<1>2. Removed(k) = [k EXCEPT !.state = "CLOSED", !.queue = q]
  BY DEF Removed
<1>3. q \in Seq(Event) /\ Len(q) <= MaxPending
  BY <1>1
<1> HIDE DEF q
<1>4. /\ Fits(Removed(k)) /\ Removed(k).state = "CLOSED"
      /\ Removed(k).queue = q /\ Removed(k).drain = k.drain
  BY <1>2, <1>3 DEF Fits, Connection
<1> QED
  BY <1>4 DEF q

\* What enqueue makes of a connection.
LEMMA EnqueuedCases ==
  ASSUME NEW k, Fits(k), NEW event \in Event
  PROVE  /\ Fits(Enqueued(k, event))
         /\ \/ k.state # "OPEN" /\ Enqueued(k, event) = k
            \/ /\ Enqueued(k, event).state = "CLOSED"
               /\ Enqueued(k, event).queue = <<>>
               /\ Enqueued(k, event).drain = k.drain
            \/ /\ k.state = "OPEN" /\ Enqueued(k, event).state = "OPEN"
               /\ Enqueued(k, event).queue = Append(k.queue, event)
               /\ Enqueued(k, event).drain # "IDLE"
               /\ k.drain # "IDLE" => Enqueued(k, event).drain = k.drain
               /\ k.drain = "IDLE" => Enqueued(k, event).drain = "ASKING"
<1>1. k \in Connection /\ k.queue \in Seq(Event) /\ Len(k.queue) \in Nat
  BY DEF Fits, Connection
<1>2. CASE k.state # "OPEN"
  BY <1>2 DEF Enqueued
<1>3. CASE k.state = "OPEN" /\ Len(k.queue) >= MaxPending
  BY <1>1, <1>3, RemovedFacts DEF Enqueued, Fits
<1>4. CASE k.state = "OPEN" /\ ~(Len(k.queue) >= MaxPending)
  <2> DEFINE q == Append(k.queue, event)
             d == IF k.drain = "IDLE" THEN "ASKING" ELSE k.drain
  <2>1. Enqueued(k, event) = [k EXCEPT !.queue = q, !.drain = d]
    BY <1>1, <1>4 DEF Enqueued, Connection
  <2>2. q \in Seq(Event) /\ Len(q) = Len(k.queue) + 1
    BY <1>1
  <2>3. d \in {"ASKING", "ALLOWED", "REFUSED"}
    BY <1>1 DEF Connection
  <2> HIDE DEF q, d
  <2>4. /\ Enqueued(k, event) \in Connection
        /\ Enqueued(k, event).state = "OPEN"
        /\ Enqueued(k, event).queue = q /\ Enqueued(k, event).drain = d
    BY <1>1, <1>4, <2>1, <2>2, <2>3 DEF Connection
  <2>5. Len(q) <= MaxPending
    BY <1>1, <1>4, <2>2, StreamAssumption
  <2>6. Fits(Enqueued(k, event))
    BY <2>4, <2>5 DEF Fits
  <2>7. Enqueued(k, event).queue = Append(k.queue, event)
    BY <2>4 DEF q
  <2>8. /\ d # "IDLE" /\ (k.drain # "IDLE" => d = k.drain)
        /\ (k.drain = "IDLE" => d = "ASKING")
    BY <2>3 DEF d
  <2> QED
    BY <1>4, <2>4, <2>6, <2>7, <2>8
<1> QED
  BY <1>2, <1>3, <1>4

\* An enqueued event keeps a connection orderly; it waits behind the others.
LEMMA EnqueuedKeeps ==
  ASSUME NEW k, Fits(k), Orderly(k), NEW event \in Event, NEW rows, NEW kept,
         Announces(k, rows), event.type = "created" => event.note \in rows
  PROVE  /\ Orderly(Enqueued(k, event)) /\ Announces(Enqueued(k, event), rows)
         /\ Cleared(k, kept) => Cleared(Enqueued(k, event), kept)
<1> DEFINE e == Enqueued(k, event)
<1>1. k.queue \in Seq(Event) /\ k.drain \in {"IDLE", "ASKING", "ALLOWED", "REFUSED"}
  BY DEF Fits, Connection
<1>2. CASE k.state # "OPEN" /\ e = k
  BY <1>2
<1>3. CASE e.state = "CLOSED" /\ e.queue = <<>>
  BY <1>3 DEF Orderly, Announces, Cleared
<1>4. CASE /\ k.state = "OPEN" /\ e.state = "OPEN"
           /\ e.queue = Append(k.queue, event) /\ e.drain # "IDLE"
           /\ k.drain # "IDLE" => e.drain = k.drain
           /\ k.drain = "IDLE" => e.drain = "ASKING"
  <2> HIDE DEF e
  <2>1. /\ e.queue # <<>> /\ DOMAIN e.queue = 1 .. Len(k.queue) + 1
        /\ \A i \in 1 .. Len(k.queue) : e.queue[i] = k.queue[i]
        /\ e.queue[Len(k.queue) + 1] = event
        /\ DOMAIN k.queue = 1 .. Len(k.queue) /\ Len(k.queue) \in Nat
    BY <1>1, <1>4
  <2>2. Orderly(e)
    BY <1>4, <2>1 DEF Orderly
  <2>3. Announces(e, rows)
    BY <2>1 DEF Announces
  <2>4. e.drain = "ALLOWED" => k.drain = "ALLOWED" /\ k.queue # <<>>
    BY <1>4 DEF Orderly
  <2>5. k.queue # <<>> => Head(e.queue) = Head(k.queue)
    BY <1>1, <1>4, <2>1
  <2>6. Cleared(k, kept) => Cleared(e, kept)
    BY <2>4, <2>5 DEF Cleared
  <2> QED
    BY <2>2, <2>3, <2>6 DEF e
<1> QED
  BY <1>2, <1>3, <1>4, EnqueuedCases

\* An event for every connection.
LEMMA ToAllInv ==
  ASSUME StreamInv, NEW event \in Event, ToAll(event),
         event.type = "created" => event.note \in stored,
         UNCHANGED <<stored, read, valid, before, told>>,
         publishing' \subseteq publishing, announcing' \in Nat
  PROVE  StreamInv'
<1>1. /\ conn \in [Conns -> Connection]
      /\ \A c \in Conns : conn'[c] = Enqueued(conn[c], event) /\ Fits(conn[c])
  BY DEF StreamInv, StreamTypeOK, ToAll, Fits
<1>2. \A c \in Conns : Fits(conn'[c])
  BY <1>1, EnqueuedCases
<1>3. conn' \in [Conns -> Connection]
  BY <1>1, <1>2 DEF ToAll, Fits
<1>4. StreamTypeOK'
  BY <1>2, <1>3 DEF StreamInv, StreamTypeOK, Fits
<1>5. ASSUME NEW c \in Conns
      PROVE  /\ Orderly(conn'[c]) /\ Announces(conn'[c], stored)
             /\ ~valid => Cleared(conn'[c], before)
  <2>1. Orderly(conn[c]) /\ Announces(conn[c], stored)
    BY DEF StreamInv
  <2>2. ~valid => Cleared(conn[c], before)
    BY DEF StreamInv
  <2> QED
    BY <1>1, <2>1, <2>2, EnqueuedKeeps
<1> QED
  BY <1>4, <1>5 DEF StreamInv

\* A step that concerns the connection c alone.
LEMMA OneConnection ==
  ASSUME StreamInv, NEW c \in Conns, NEW k,
         conn' = [conn EXCEPT ![c] = k],
         UNCHANGED <<dbVars, valid, before>>,
         Fits(k), Orderly(k), Announces(k, stored),
         ~valid => Cleared(k, before),
         told' \in [Conns -> Told],
         \A d \in Conns \ {c} : told'[d] = told[d],
         told'[c].created \subseteq IF valid THEN stored ELSE before
  PROVE  StreamInv'
<1>1. /\ conn \in [Conns -> Connection]
      /\ conn'[c] = k /\ \A d \in Conns \ {c} : conn'[d] = conn[d]
  BY DEF StreamInv, StreamTypeOK
<1>2. conn' \in [Conns -> Connection] /\ \A d \in Conns : Fits(conn'[d])
  BY <1>1 DEF StreamInv, StreamTypeOK, Fits
<1>3. StreamTypeOK'
  BY <1>2 DEF StreamInv, StreamTypeOK, Fits, dbVars
<1>4. ASSUME NEW d \in Conns
      PROVE  /\ Orderly(conn'[d]) /\ Announces(conn'[d], stored)
             /\ IF valid THEN told'[d].created \subseteq stored
                ELSE told'[d].created \subseteq before /\ Cleared(conn'[d], before)
  BY <1>1 DEF StreamInv
<1> QED
  BY <1>3, <1>4 DEF StreamInv, dbVars

\* Every callback and every request keeps the connections in order.
LEMMA StreamInvStep ==
  ASSUME StreamInv, [StreamNext]_streamVars
  PROVE  StreamInv'
<1>1. /\ StreamTypeOK
      /\ conn \in [Conns -> Connection] /\ told \in [Conns -> Told]
      /\ \A c \in Conns : /\ Fits(conn[c]) /\ Orderly(conn[c])
                          /\ Announces(conn[c], stored)
                          /\ ~valid => Cleared(conn[c], before)
                          /\ conn[c].queue \in Seq(Event)
                          /\ told[c].created \subseteq IF valid THEN stored ELSE before
  BY DEF StreamInv, StreamTypeOK, Fits, Connection
<1>2. ASSUME NEW n \in Notes, CommitNotification(n)
      PROVE  StreamInv'
  <2>1. StreamTypeOK'
    BY <1>1, <1>2 DEF CommitNotification, StreamTypeOK
  <2> QED
    BY <1>2, <2>1 DEF CommitNotification, StreamInv, Announces
<1>3. ASSUME NEW n \in Notes, PublishCreated(n)
      PROVE  StreamInv'
  <2> DEFINE event == [type |-> "created", note |-> n]
  <2>1. event \in Event /\ event.note \in stored
    BY <1>3 DEF Event, Created, PublishCreated, StreamInv
  <2> QED
    BY <1>1, <1>3, <2>1, ToAllInv DEF PublishCreated, StreamTypeOK
<1>4. ASSUME NEW rows \in SUBSET Notes, MarkRead(rows)
      PROVE  StreamInv'
  <2>1. StreamTypeOK'
    BY <1>1, <1>4 DEF MarkRead, StreamTypeOK
  <2> QED
    BY <1>4, <2>1 DEF MarkRead, StreamInv
<1>5. CASE PublishChanged
  <2>1. Changed \in Event /\ Changed.type # "created"
    BY DEF Event, Changed
  <2>2. announcing' \in Nat
    BY <1>1, <1>5 DEF PublishChanged, StreamTypeOK
  <2> QED
    BY <1>5, <2>1, <2>2, ToAllInv DEF PublishChanged
<1>6. CASE RevokeSession
  <2>1. StreamTypeOK'
    BY <1>1, <1>6 DEF RevokeSession, StreamTypeOK, dbVars
  <2>2. ASSUME NEW c \in Conns
        PROVE  Cleared(conn[c], stored)
    <3>1. Announces(conn[c], stored) /\ conn[c].queue \in Seq(Event)
      BY <1>1
    <3>2. conn[c].queue # <<>> => 1 \in DOMAIN conn[c].queue
                                  /\ Head(conn[c].queue) = conn[c].queue[1]
      BY <3>1
    <3> QED
      BY <3>1, <3>2 DEF Announces, Cleared
  <2> QED
    BY <1>1, <1>6, <2>1, <2>2 DEF RevokeSession, StreamInv, dbVars
<1>7. CASE Restart
  <2> DEFINE q == <<>>
             gone == [state |-> "CLOSED", queue |-> q, drain |-> "IDLE"]
  <2>1. q \in Seq(Event) /\ Len(q) <= MaxPending
    BY StreamAssumption
  <2>2. gone \in Connection
    <3> HIDE DEF q
    <3> QED
      BY <2>1 DEF Connection
  <2>3. Orderly(gone) /\ Announces(gone, stored) /\ Cleared(gone, before)
    BY DEF Orderly, Announces, Cleared
  <2> HIDE DEF q
  <2>4. gone.queue = q
    OBVIOUS
  <2> HIDE DEF gone
  <2>5. conn' = [c \in Conns |-> IF conn[c].state = "NEW" THEN conn[c] ELSE gone]
    BY <1>7 DEF Restart, gone, q
  <2>6. /\ conn' \in [Conns -> Connection]
        /\ \A c \in Conns : /\ Len(conn'[c].queue) <= MaxPending
                            /\ Orderly(conn'[c]) /\ Announces(conn'[c], stored)
                            /\ ~valid => Cleared(conn'[c], before)
    BY <1>1, <2>1, <2>2, <2>3, <2>4, <2>5 DEF Fits
  <2>7. StreamTypeOK'
    BY <1>1, <1>7, <2>6 DEF Restart, StreamTypeOK
  <2> QED
    BY <1>1, <1>7, <2>6, <2>7 DEF Restart, StreamInv
<1>8. ASSUME NEW c \in Conns, Connect(c) \/ Heartbeat(c)
      PROVE  StreamInv'
  <2> DEFINE k == [conn[c] EXCEPT !.state = "OPEN"]
  <2>1. \A event \in {Sync, Beat} : event \in Event /\ event.type # "created"
    BY DEF Event, Sync, Beat
  <2>2. CASE Connect(c)
    <3>1. /\ k \in Connection /\ k.queue = <<>> /\ k.drain = "IDLE"
          /\ k.state = "OPEN"
      BY <1>1, <2>2 DEF Connect, Connection, Orderly
    <3>2. Fits(k) /\ Orderly(k) /\ Announces(k, stored) /\ Cleared(k, before)
      BY <3>1, StreamAssumption DEF Fits, Orderly, Announces, Cleared
    <3>3. conn' = [conn EXCEPT ![c] = Enqueued(k, Sync)]
      BY <2>2 DEF Connect
    <3> HIDE DEF k
    <3>4. /\ Fits(Enqueued(k, Sync)) /\ Orderly(Enqueued(k, Sync))
          /\ Announces(Enqueued(k, Sync), stored)
          /\ Cleared(Enqueued(k, Sync), before)
      BY <2>1, <3>2, EnqueuedCases, EnqueuedKeeps
    <3> QED
      BY <1>1, <2>2, <3>3, <3>4, OneConnection DEF Connect
  <2>3. CASE Heartbeat(c)
    <3>1. /\ Fits(Enqueued(conn[c], Beat)) /\ Orderly(Enqueued(conn[c], Beat))
          /\ Announces(Enqueued(conn[c], Beat), stored)
          /\ ~valid => Cleared(Enqueued(conn[c], Beat), before)
      BY <1>1, <2>1, EnqueuedCases, EnqueuedKeeps
    <3> QED
      BY <1>1, <2>3, <3>1, OneConnection DEF Heartbeat
  <2> QED
    BY <1>8, <2>2, <2>3
<1>9. ASSUME NEW c \in Conns, Disconnect(c)
      PROVE  StreamInv'
  <2>1. /\ Fits(Removed(conn[c])) /\ Orderly(Removed(conn[c]))
        /\ Announces(Removed(conn[c]), stored)
        /\ Cleared(Removed(conn[c]), before)
    BY <1>1, RemovedFacts DEF Orderly, Announces, Cleared
  <2> QED
    BY <1>1, <1>9, <2>1, OneConnection DEF Disconnect
<1>10. ASSUME NEW c \in Conns, CheckSession(c)
       PROVE  StreamInv'
  <2>1. PICK answer \in {"ALLOWED", "REFUSED"} :
          /\ answer = "ALLOWED" => valid
          /\ conn' = [conn EXCEPT ![c].drain = answer]
    BY <1>10 DEF CheckSession
  <2> DEFINE k == [conn[c] EXCEPT !.drain = answer]
  <2>2. conn' = [conn EXCEPT ![c] = k]
    BY <1>1, <2>1 DEF Connection
  <2>3. /\ k \in Connection /\ k.queue = conn[c].queue
        /\ k.state = conn[c].state /\ k.drain = answer
    BY <1>1 DEF Connection
  <2>4. conn[c].drain = "ASKING"
    BY <1>10 DEF CheckSession
  <2> HIDE DEF k
  <2>5. Fits(k) /\ Orderly(k) /\ Announces(k, stored)
    BY <1>1, <2>3, <2>4 DEF Fits, Orderly, Announces
  <2>6. ~valid => Cleared(k, before)
    BY <2>1, <2>3 DEF Cleared
  <2> QED
    BY <1>1, <1>10, <2>2, <2>5, <2>6, OneConnection DEF CheckSession
<1>11. ASSUME NEW c \in Conns, Deliver(c)
       PROVE  StreamInv'
  <2> DEFINE q == conn[c].queue
  <2>1. conn[c] \in Connection /\ conn[c].drain = "ALLOWED" /\ q \in Seq(Event)
    BY <1>1, <1>11 DEF Deliver
  <2>2. CASE q = <<>>
    <3> DEFINE k == [conn[c] EXCEPT !.drain = "IDLE"]
    <3>1. conn' = [conn EXCEPT ![c] = k] /\ told' = told
      BY <1>1, <1>11, <2>2 DEF Deliver, Connection
    <3>2. /\ k \in Connection /\ k.queue = q
          /\ k.state = conn[c].state /\ k.drain = "IDLE"
      BY <2>1 DEF Connection
    <3> HIDE DEF k
    <3>3. /\ Fits(k) /\ Orderly(k) /\ Announces(k, stored) /\ Cleared(k, before)
      BY <1>1, <3>2 DEF Fits, Orderly, Announces, Cleared
    <3> QED
      BY <1>1, <1>11, <3>1, <3>3, OneConnection DEF Deliver
  <2>3. CASE q # <<>>
    <3> DEFINE d == IF Len(q) > 1 /\ conn[c].state = "OPEN" THEN "ASKING"
                                                            ELSE "IDLE"
               k == [conn[c] EXCEPT !.queue = Tail(q), !.drain = d]
    <3>1. /\ conn' = [conn EXCEPT ![c] = k]
          /\ told' = [told EXCEPT ![c] = With(@, Head(q))]
      BY <1>1, <1>11, <2>3 DEF Deliver, Connection
    <3>2. /\ Tail(q) \in Seq(Event) /\ Len(Tail(q)) = Len(q) - 1
          /\ Len(q) \in Nat \ {0} /\ Head(q) = q[1] /\ 1 \in DOMAIN q
          /\ \A i \in DOMAIN Tail(q) : i + 1 \in DOMAIN q /\ Tail(q)[i] = q[i + 1]
          /\ Head(q) \in Event
      <4> HIDE DEF q
      <4> QED
        BY <2>1, <2>3
    <3>3. /\ k \in Connection /\ k.queue = Tail(q) /\ k.drain = d
          /\ k.state = conn[c].state
      BY <2>1, <3>2 DEF Connection
    <3>4. /\ Len(q) <= MaxPending /\ Announces(conn[c], stored)
          /\ conn[c].state = "OPEN" /\ MaxPending \in Nat
      BY <1>1, <2>3, StreamAssumption DEF Fits, Orderly
    <3>5. Len(q) > 1 => Tail(q) # <<>>
      <4>1. Len(<<>>) = 0
        OBVIOUS
      <4> DEFINE t == Tail(q)
      <4>2. Len(t) = Len(q) - 1
        BY <3>2
      <4> HIDE DEF t
      <4>3. Len(q) > 1 => t # <<>>
        BY <3>2, <4>1, <4>2
      <4> QED
        BY <4>3 DEF t
    <3> HIDE DEF k
    <3>6. Fits(k) /\ Orderly(k) /\ Cleared(k, before)
      BY <3>2, <3>3, <3>4, <3>5 DEF Fits, Orderly, Cleared
    <3>7. Announces(k, stored)
      BY <3>2, <3>3, <3>4 DEF Announces
    <3>8. Head(q).type = "created"
            => Head(q).note \in IF valid THEN stored ELSE before
      BY <1>1, <2>1, <2>3, <3>2, <3>4 DEF Cleared, Announces
    <3> DEFINE v == With(told[c], Head(q))
    <3>9. v.created \subseteq (IF valid THEN stored ELSE before) /\ v \in Told
      <4> DEFINE event == Head(q)
                 s == told[c].created \union {event.note}
      <4>1. told[c] \in Told /\ stored \in SUBSET Notes /\ read \in SUBSET Notes
        BY <1>1 DEF StreamTypeOK
      <4>2. event \in Created \union {Sync, Changed, Beat}
        BY <3>2 DEF Event
      <4>3. CASE event.type = "created"
        <5>1. event.note \in Notes
          BY <4>2, <4>3 DEF Created, Sync, Changed, Beat
        <5>2. s \subseteq (IF valid THEN stored ELSE before) /\ s \in SUBSET Notes
          BY <1>1, <3>8, <4>1, <4>3, <5>1 DEF Told
        <5>3. v = [told[c] EXCEPT !.created = s]
          BY <4>3 DEF With
        <5> HIDE DEF s, v
        <5> QED
          BY <4>1, <5>2, <5>3 DEF Told
      <4>4. CASE event.type \in {"sync_required", "changed"}
        <5>1. v = [told[c] EXCEPT !.rows = stored, !.read = read]
          BY <4>4 DEF With
        <5> HIDE DEF v
        <5>2. v \in Told /\ v.created = told[c].created
          BY <4>1, <5>1 DEF Told
        <5> QED
          BY <1>1, <5>2
      <4>5. CASE event.type = "heartbeat"
        BY <1>1, <4>1, <4>5 DEF With
      <4> QED
        BY <4>2, <4>3, <4>4, <4>5 DEF Created, Sync, Changed, Beat
    <3>10. told' = [told EXCEPT ![c] = v]
      BY <1>1, <3>1
    <3> HIDE DEF v
    <3>11. /\ told' \in [Conns -> Told] /\ told'[c] = v
           /\ \A e \in Conns \ {c} : told'[e] = told[e]
      BY <1>1, <3>9, <3>10
    <3> QED
      BY <1>11, <3>1, <3>6, <3>7, <3>9, <3>11, OneConnection DEF Deliver
  <2> QED
    BY <2>2, <2>3
<1>12. ASSUME NEW c \in Conns, Refuse(c)
       PROVE  StreamInv'
  <2> DEFINE k == [conn[c] EXCEPT !.drain = "IDLE"]
  <2>1. k \in Connection
    BY <1>1 DEF Connection
  <2>2. conn' = [conn EXCEPT ![c] = Removed(k)]
    BY <1>12 DEF Refuse
  <2> HIDE DEF k
  <2>3. /\ Fits(Removed(k)) /\ Orderly(Removed(k))
        /\ Announces(Removed(k), stored) /\ Cleared(Removed(k), before)
    BY <2>1, RemovedFacts DEF Orderly, Announces, Cleared
  <2> QED
    BY <1>1, <1>12, <2>2, <2>3, OneConnection DEF Refuse
<1>13. CASE UNCHANGED streamVars
  BY <1>13 DEF streamVars, dbVars, StreamInv, StreamTypeOK
<1> QED
  BY <1>2, <1>3, <1>4, <1>5, <1>6, <1>7, <1>8, <1>9, <1>10, <1>11, <1>12,
     <1>13 DEF StreamNext

\* The invariant holds from the start, and through every step.
LEMMA StreamInvCorrect == StreamSpec => []StreamInv
<1>1. StreamInit => StreamInv
  <2> SUFFICES ASSUME StreamInit PROVE StreamInv
    OBVIOUS
  <2> DEFINE q == <<>>
             k == [state |-> "NEW", queue |-> q, drain |-> "IDLE"]
             v == [created |-> {}, rows |-> {}, read |-> {}]
  <2>1. q \in Seq(Event) /\ Len(q) <= MaxPending
    BY StreamAssumption
  <2>2. k.queue = q /\ Orderly(k) /\ Announces(k, {})
    BY DEF Orderly, Announces
  <2> HIDE DEF q
  <2>3. k \in Connection /\ v \in Told /\ v.created = {}
    BY <2>1 DEF Connection, Told
  <2> HIDE DEF k, v
  <2>4. conn = [c \in Conns |-> k] /\ told = [c \in Conns |-> v]
    BY DEF StreamInit, k, v, q
  <2> QED
    BY <2>1, <2>2, <2>3, <2>4 DEF StreamInit, StreamInv, StreamTypeOK
<1>2. StreamInv /\ [StreamNext]_streamVars => StreamInv'
  BY StreamInvStep
<1> QED
  BY <1>1, <1>2, PTL DEF StreamSpec

(* Rows and connections keep their types, and the queue of a               *)
(* connection never exceeds MAX_PENDING_EVENTS.                            *)
THEOREM StreamTypeCorrect == StreamSpec => []StreamTypeOK
<1>1. StreamInv => StreamTypeOK
  BY DEF StreamInv
<1> QED
  BY <1>1, StreamInvCorrect, PTL

(* drain: however long the answer of the session check takes, it lets      *)
(* through no row that was committed after the session was revoked.        *)
THEOREM RevocationIsRespected == StreamSpec => []NothingNewAfterRevocation
<1>1. StreamInv => NothingNewAfterRevocation
  BY DEF StreamInv, NothingNewAfterRevocation
<1> QED
  BY <1>1, StreamInvCorrect, PTL

(* terminate: a closed connection stays silent, its drain included, which  *)
(* may still be waiting for an answer.                                     *)
THEOREM ClosedIsSilent == StreamSpec => NothingAfterClose
<1>1. ASSUME StreamInv, [StreamNext]_streamVars,
             NEW c \in Conns, conn[c].state = "CLOSED"
      PROVE  told'[c] = told[c]
  <2>1. conn[c].queue = <<>> /\ told \in [Conns -> Told]
    BY <1>1 DEF StreamInv, StreamTypeOK, Orderly
  <2>2. ASSUME NEW d \in Conns, Deliver(d)
        PROVE  told'[c] = told[c]
    BY <2>1, <2>2 DEF Deliver
  <2> QED
    BY <1>1, <2>2
       DEF StreamNext, CommitNotification, PublishCreated, MarkRead,
           PublishChanged, RevokeSession, Restart, Connect, Disconnect,
           Heartbeat, CheckSession, Refuse, streamVars
<1>2. StreamInv /\ [StreamNext]_streamVars =>
        [\A c \in Conns : conn[c].state = "CLOSED" => told'[c] = told[c]]_streamVars
  BY <1>1
<1> QED
  BY <1>2, StreamInvCorrect, PTL DEF StreamSpec, NothingAfterClose

----------------------------------------------------------------------------
\* What is behind in a queue stays there, whatever is put behind it.
LEMMA AppendKeepsWaiting ==
  ASSUME StreamTypeOK, NEW c \in Conns, NEW event \in Event,
         conn'[c].queue = Append(conn[c].queue, event)
  PROVE  /\ Awaits(c, event)'
         /\ \A e : Awaits(c, e) => Awaits(c, e)'
<1> DEFINE q == conn[c].queue
           p == conn'[c].queue
<1>1. q \in Seq(Event)
  BY DEF StreamTypeOK, Connection
<1>2. p = Append(q, event)
  OBVIOUS
<1> HIDE DEF q, p
<1>3. /\ DOMAIN p = 1 .. Len(q) + 1 /\ Len(q) \in Nat
      /\ DOMAIN q = 1 .. Len(q)
      /\ p[Len(q) + 1] = event /\ \A i \in 1 .. Len(q) : p[i] = q[i]
  BY <1>1, <1>2
<1>4. /\ \E i \in DOMAIN p : p[i] = event
      /\ \A e : (\E i \in DOMAIN q : q[i] = e) => \E i \in DOMAIN p : p[i] = e
  BY <1>3
<1> QED
  BY <1>4 DEF Awaits, p, q

\* Delivering the first event keeps the others.
LEMMA TailKeepsWaiting ==
  ASSUME StreamTypeOK, NEW c \in Conns, conn[c].queue # <<>>,
         conn'[c].queue = Tail(conn[c].queue),
         NEW e, Awaits(c, e), e # Head(conn[c].queue)
  PROVE  Awaits(c, e)'
<1> DEFINE q == conn[c].queue
           p == conn'[c].queue
<1>1. q \in Seq(Event) /\ q # <<>> /\ p = Tail(q)
  BY DEF StreamTypeOK, Connection
<1>2. PICK i \in DOMAIN q : q[i] = e /\ e # Head(q)
  BY DEF Awaits
<1> HIDE DEF q, p
<1>3. /\ i \in 1 .. Len(q) /\ Len(q) \in Nat /\ i # 1
      /\ DOMAIN p = 1 .. Len(q) - 1
      /\ \A n \in 1 .. Len(q) - 1 : p[n] = q[n + 1]
  BY <1>1, <1>2
<1>4. i - 1 \in DOMAIN p /\ p[i - 1] = e
  BY <1>2, <1>3
<1> QED
  BY <1>4 DEF Awaits, p

\* What NothingIsMissed says of one connection.
Informed(c) ==
  conn[c].state = "OPEN" =>
    \/ Awaits(c, Sync)
    \/ /\ \A n \in stored :
            \/ Carried(c, n)
            \/ n \in publishing
            \/ Awaits(c, [type |-> "created", note |-> n])
       /\ read \subseteq told[c].read \/ announcing > 0 \/ Awaits(c, Changed)

\* An event for every connection: closed ones owe nothing.
LEMMA EveryConnectionKeeps ==
  ASSUME StreamInv, NEW event \in Event, ToAll(event), NEW c \in Conns,
         conn'[c].state = "OPEN"
  PROVE  /\ conn[c].state = "OPEN" /\ Awaits(c, event)'
         /\ \A e : Awaits(c, e) => Awaits(c, e)'
<1>1. conn'[c] = Enqueued(conn[c], event) /\ Fits(conn[c]) /\ StreamTypeOK
  BY DEF StreamInv, StreamTypeOK, ToAll, Fits
<1>2. conn[c].state = "OPEN" /\ conn'[c].queue = Append(conn[c].queue, event)
  BY <1>1, EnqueuedCases
<1> QED
  BY <1>1, <1>2, AppendKeepsWaiting

(* The stream is a hint, but not one that gets lost: on an open connection *)
(* every committed row and every read state has been announced since it    *)
(* was committed, or its announcement is still to come, whatever is        *)
(* committed, published or terminated meanwhile.                           *)
THEOREM NothingIsMissedCorrect == StreamSpec => []NothingIsMissed
<1>1. StreamInit => NothingIsMissed
  BY DEF StreamInit, NothingIsMissed
<1>2. StreamInv /\ NothingIsMissed /\ [StreamNext]_streamVars
        => NothingIsMissed'
  <2> SUFFICES ASSUME StreamInv, NothingIsMissed, [StreamNext]_streamVars,
                      NEW c \in Conns, conn'[c].state = "OPEN"
               PROVE  Informed(c)'
    BY DEF NothingIsMissed, Informed
  <2>1. /\ StreamTypeOK /\ Informed(c)
        /\ conn \in [Conns -> Connection] /\ told \in [Conns -> Told]
        /\ conn[c].queue \in Seq(Event) /\ Orderly(conn[c]) /\ Fits(conn[c])
    BY DEF StreamInv, StreamTypeOK, NothingIsMissed, Informed, Connection, Fits
  \* Another connection moves, or this one with the same queue and history.
  <2>2. ASSUME UNCHANGED dbVars, conn[c].state = "OPEN",
               conn'[c].queue = conn[c].queue, told'[c] = told[c]
        PROVE  Informed(c)'
    BY <2>1, <2>2 DEF Informed, Carried, Awaits, dbVars
  <2>3. ASSUME NEW n \in Notes, CommitNotification(n)
        PROVE  Informed(c)'
    BY <2>1, <2>3 DEF CommitNotification, Informed, Carried, Awaits
  <2>4. ASSUME NEW n \in Notes, PublishCreated(n)
        PROVE  Informed(c)'
    <3> DEFINE event == [type |-> "created", note |-> n]
    <3>1. event \in Event
      BY DEF Event, Created
    <3>2. ToAll(event) /\ publishing' = publishing \ {n}
          /\ UNCHANGED <<stored, read, announcing, valid, before, told>>
      BY <2>4 DEF PublishCreated
    <3> HIDE DEF event
    <3>3. /\ conn[c].state = "OPEN" /\ Awaits(c, event)'
          /\ \A e : Awaits(c, e) => Awaits(c, e)'
      BY <3>1, <3>2, EveryConnectionKeeps
    <3>4. \A m \in publishing \ publishing' :
            Awaits(c, [type |-> "created", note |-> m])'
      BY <3>2, <3>3 DEF event
    <3> QED
      BY <2>1, <3>2, <3>3, <3>4 DEF Informed, Carried
  <2>5. ASSUME NEW rows \in SUBSET Notes, MarkRead(rows)
        PROVE  Informed(c)'
    <3>1. announcing' > 0
      BY <2>1, <2>5 DEF MarkRead, StreamTypeOK
    <3> QED
      BY <2>1, <2>5, <3>1 DEF MarkRead, Informed, Carried, Awaits
  <2>6. CASE PublishChanged
    <3>1. Changed \in Event
      BY DEF Event
    <3>2. /\ conn[c].state = "OPEN" /\ Awaits(c, Changed)'
          /\ \A e : Awaits(c, e) => Awaits(c, e)'
      BY <2>6, <3>1, EveryConnectionKeeps DEF PublishChanged
    <3> QED
      BY <2>1, <2>6, <3>2 DEF PublishChanged, Informed, Carried
  <2>7. CASE Restart
    <3>1. conn'[c].state \in {"NEW", "CLOSED"}
      BY <2>1, <2>7 DEF Restart
    <3> QED
      BY <3>1
  <2>8. ASSUME NEW d \in Conns, Connect(d)
        PROVE  Informed(c)'
    <3>1. CASE d # c
      BY <2>1, <2>2, <2>8, <3>1 DEF Connect
    <3>2. CASE d = c
      <4> DEFINE k == [conn[c] EXCEPT !.state = "OPEN"]
      <4>1. /\ k \in Connection /\ k.queue = <<>> /\ k.state = "OPEN"
            /\ conn[c].queue = <<>>
        BY <2>1, <2>8, <3>2 DEF Connect, Connection, Orderly
      <4>2. conn'[c] = Enqueued(k, Sync)
        BY <2>1, <2>8, <3>2 DEF Connect
      <4> HIDE DEF k
      <4>3. Fits(k) /\ Sync \in Event
        BY <4>1, StreamAssumption DEF Fits, Event
      <4>4. conn'[c].queue = Append(conn[c].queue, Sync)
        BY <4>1, <4>2, <4>3, EnqueuedCases
      <4>5. Awaits(c, Sync)'
        BY <2>1, <4>3, <4>4, AppendKeepsWaiting
      <4> QED
        BY <4>5 DEF Informed
    <3> QED
      BY <3>1, <3>2
  <2>9. ASSUME NEW d \in Conns, Disconnect(d) \/ Refuse(d)
        PROVE  Informed(c)'
    <3>1. CASE d # c
      BY <2>1, <2>2, <2>9, <3>1 DEF Disconnect, Refuse
    <3>2. CASE d = c
      <4>1. CASE Disconnect(d)
        BY <2>1, <3>2, <4>1, RemovedFacts DEF Disconnect
      <4>2. CASE Refuse(d)
        <5> DEFINE k == [conn[c] EXCEPT !.drain = "IDLE"]
        <5>1. k \in Connection /\ conn'[c] = Removed(k)
          BY <2>1, <3>2, <4>2 DEF Refuse, Connection
        <5> HIDE DEF k
        <5> QED
          BY <5>1, RemovedFacts
      <4> QED
        BY <2>9, <4>1, <4>2
    <3> QED
      BY <3>1, <3>2
  <2>10. ASSUME NEW d \in Conns, Heartbeat(d)
         PROVE  Informed(c)'
    <3>1. CASE d # c
      BY <2>1, <2>2, <2>10, <3>1 DEF Heartbeat
    <3>2. CASE d = c
      <4>1. conn'[c] = Enqueued(conn[c], Beat) /\ Beat \in Event
        BY <2>1, <2>10, <3>2 DEF Heartbeat, Event
      <4>2. /\ conn[c].state = "OPEN"
            /\ conn'[c].queue = Append(conn[c].queue, Beat)
        BY <2>1, <4>1, EnqueuedCases
      <4>3. \A e : Awaits(c, e) => Awaits(c, e)'
        BY <2>1, <4>1, <4>2, AppendKeepsWaiting
      <4> QED
        BY <2>1, <2>10, <4>2, <4>3 DEF Heartbeat, Informed, Carried, dbVars
    <3> QED
      BY <3>1, <3>2
  <2>11. ASSUME NEW d \in Conns, CheckSession(d)
         PROVE  Informed(c)'
    <3>1. conn'[c].state = conn[c].state /\ conn'[c].queue = conn[c].queue
      BY <2>1, <2>11 DEF CheckSession, Connection
    <3> QED
      BY <2>2, <2>11, <3>1 DEF CheckSession
  <2>12. ASSUME NEW d \in Conns, Deliver(d)
         PROVE  Informed(c)'
    <3>1. CASE d # c \/ conn[d].queue = <<>>
      <4>1. /\ conn'[c].state = conn[c].state /\ conn'[c].queue = conn[c].queue
            /\ told'[c] = told[c]
        BY <2>1, <2>12, <3>1 DEF Deliver, Connection
      <4> QED
        BY <2>2, <2>12, <4>1 DEF Deliver
    <3>2. CASE d = c /\ conn[c].queue # <<>>
      <4> DEFINE event == Head(conn[c].queue)
      <4>1. /\ conn'[c].queue = Tail(conn[c].queue)
            /\ conn[c].state = "OPEN" /\ told'[c] = With(told[c], event)
        BY <2>1, <2>12, <3>2 DEF Deliver, Connection, Orderly
      <4>2. event \in Event
        BY <2>1, <3>2
      <4>3. \A e : Awaits(c, e) /\ e # event => Awaits(c, e)'
        BY <2>1, <3>2, <4>1, TailKeepsWaiting
      <4> HIDE DEF event
      <4>4. UNCHANGED dbVars
        BY <2>12 DEF Deliver
      <4>5. told[c] \in Told /\ stored \subseteq Notes /\ read \subseteq Notes
        BY <2>1 DEF StreamTypeOK
      <4>6. CASE event.type \in {"sync_required", "changed"}
        <5>1. told'[c] = [told[c] EXCEPT !.rows = stored, !.read = read]
          BY <4>1, <4>6 DEF With
        <5>2. told'[c].rows = stored /\ told'[c].read = read
          BY <4>5, <5>1 DEF Told
        <5> QED
          BY <4>4, <5>2 DEF Informed, Carried, dbVars
      <4>7. CASE event.type \in {"created", "heartbeat"}
        <5>1. event # Sync /\ event # Changed
          BY <4>7 DEF Sync, Changed
        <5>2. /\ told'[c].read = told[c].read
              /\ \A n : Carried(c, n) => Carried(c, n)'
              /\ event.type = "created" => event.note \in told'[c].created
          <6>1. CASE event.type = "created"
            <7>1. told'[c] = [told[c] EXCEPT !.created = @ \union {event.note}]
              BY <4>1, <6>1 DEF With
            <7>2. /\ told'[c].created = told[c].created \union {event.note}
                  /\ told'[c].rows = told[c].rows /\ told'[c].read = told[c].read
              BY <4>5, <7>1 DEF Told
            <7> QED
              BY <6>1, <7>2 DEF Carried
          <6>2. CASE event.type = "heartbeat"
            <7>1. told'[c] = told[c]
              BY <4>1, <6>2 DEF With
            <7> QED
              BY <6>2, <7>1 DEF Carried
          <6> QED
            BY <4>7, <6>1, <6>2
        <5>3. \A n : [type |-> "created", note |-> n] = event
                      => event.type = "created" /\ n = event.note
          OBVIOUS
        <5>4. CASE Awaits(c, Sync)
          BY <4>3, <5>1, <5>4 DEF Informed
        <5>5. CASE /\ \A n \in stored :
                        \/ Carried(c, n)
                        \/ n \in publishing
                        \/ Awaits(c, [type |-> "created", note |-> n])
                   /\ \/ read \subseteq told[c].read \/ announcing > 0
                      \/ Awaits(c, Changed)
          <6>1. ASSUME NEW n \in stored
                PROVE  \/ Carried(c, n)'
                       \/ n \in publishing'
                       \/ Awaits(c, [type |-> "created", note |-> n])'
            <7>1. CASE [type |-> "created", note |-> n] = event
              BY <5>2, <5>3, <7>1 DEF Carried
            <7>2. CASE [type |-> "created", note |-> n] # event
              BY <4>3, <4>4, <5>2, <5>5, <7>2 DEF dbVars
            <7> QED
              BY <7>1, <7>2
          <6>2. \/ read' \subseteq told'[c].read \/ announcing' > 0
                \/ Awaits(c, Changed)'
            BY <4>3, <4>4, <5>1, <5>2, <5>5 DEF dbVars
          <6> QED
            BY <4>4, <6>1, <6>2 DEF Informed, dbVars
        <5> QED
          BY <2>1, <4>1, <5>4, <5>5 DEF Informed
      <4> QED
        BY <4>2, <4>6, <4>7 DEF Event, Created, Sync, Changed, Beat
    <3> QED
      BY <3>1, <3>2
  <2>13. CASE RevokeSession \/ UNCHANGED streamVars
    BY <2>2, <2>13 DEF RevokeSession, streamVars, dbVars
  <2> QED
    BY <2>3, <2>4, <2>5, <2>6, <2>7, <2>8, <2>9, <2>10, <2>11, <2>12, <2>13
       DEF StreamNext
<1> QED
  BY <1>1, <1>2, StreamInvCorrect, PTL DEF StreamSpec
=============================================================================
