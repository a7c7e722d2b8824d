--------------------------- MODULE BorrowDeadline ---------------------------
(***************************************************************************)
(* Deadline notifications of loans: the sweep of                           *)
(* borrow-deadline-notifications.service.ts, which runs at startup and on  *)
(* a timer, and the rows createBorrowDeadlineNotifications writes for it.  *)
(*                                                                         *)
(* A sweep reads the clock, selects and locks a batch of loans, and then   *)
(* writes the notifications and commits: three steps.  Meanwhile time      *)
(* passes, loans are extended and given back, accounts come and go, and    *)
(* the sweep itself may fail.                                              *)
(***************************************************************************)
EXTENDS Integers, FiniteSets

CONSTANTS Loans,         \* ids of loans, which order a batch after the date
          Users,
          Borrower,      \* the borrower of each loan
          Staff,         \* the users who are ASSET_CENTER_STAFF
          Timers,        \* who asks for a sweep: the startup, the interval
          Dates,         \* possible return dates
          Window,        \* DUE_SOON_WINDOW_MS
          BatchSize,     \* SWEEP_BATCH_SIZE
          Horizon,       \* bound: the last instant of the clock
          MaxSwitches    \* bound: account (de)activations

ASSUME DeadlineAssumption ==
  /\ Loans \subseteq Nat
  /\ Dates \subseteq Nat
  /\ Borrower \in [Loans -> Users]
  /\ Staff \subseteq Users
  /\ Window \in Nat
  /\ BatchSize \in Nat \ {0}
  /\ Horizon \in Nat
  /\ MaxSwitches \in Nat

VARIABLES now,
          loan,          \* the borrow_transaction rows: out on loan, due date
          held,          \* loans that another transaction has locked
          active,        \* users neither deleted nor banned
          switches,      \* account changes so far
          notes,         \* the notification rows
          sweep          \* the sweep of each timer

deadlineVars == <<now, loan, held, active, switches, notes, sweep>>

Idle == [stage |-> "IDLE"]

Choice == [loan : Loans, due : Dates]

Sweeps ==
  {Idle}
    \union [stage : {"STARTED"}, at : Nat]
    \union [stage : {"SELECTED"}, at : Nat, batch : SUBSET Choice]

EventType == {"BORROW_DUE_SOON", "BORROW_OVERDUE"}

Note == [type : EventType, loan : Loans, due : Dates, user : Users]

DeadlineInit ==
  /\ now = 0
  /\ loan \in [Loans -> [out : {TRUE}, due : Dates]]
  /\ held = {}
  /\ active \in SUBSET Users
  /\ switches = 0
  /\ notes = {}
  /\ sweep = [t \in Timers |-> Idle]

----------------------------------------------------------------------------
TypeAt(due, at) == IF due < at THEN "BORROW_OVERDUE" ELSE "BORROW_DUE_SOON"

Recipients(l, due, at) ==
  ({Borrower[l]} \union (IF due < at THEN Staff ELSE {})) \intersect active

\* The rows of one event: the type, the loan and the date it is due.
Rows(l, due, at) ==
  {n \in notes : n.type = TypeAt(due, at) /\ n.loan = l /\ n.due = due}

\* Mutant: the rows a sweep has chosen are not locked.
NotLocked(l) == l \in held

\* FOR UPDATE: rows stay locked until the transaction that chose them ends.
Locked(l) ==
  \/ l \in held
  \/ \E t \in Timers : /\ sweep[t].stage = "SELECTED"
                       /\ \E c \in sweep[t].batch : c.loan = l

\* Mutant: a loan nobody can be told about takes its place in the batch.
EligibleWithoutRecipient(l, at) ==
  /\ loan[l].out
  /\ loan[l].due <= at + Window
  /\ Rows(l, loan[l].due, at) = {}

\* Mutant: an event that has its rows is chosen again.
EligibleAgain(l, at) ==
  /\ loan[l].out
  /\ loan[l].due <= at + Window
  /\ Recipients(l, loan[l].due, at) # {}

\* The WHERE of the query: due within the window, somebody to tell, not told.
Eligible(l, at) ==
  /\ loan[l].out
  /\ loan[l].due <= at + Window
  /\ Recipients(l, loan[l].due, at) # {}
  /\ Rows(l, loan[l].due, at) = {}

\* ORDER BY expected_return_date, borrow_transaction_id.
Before(l, m) ==
  loan[l].due < loan[m].due \/ (loan[l].due = loan[m].due /\ l < m)

\* LIMIT: the first BatchSize members of a set of loans.
Batch(S) == {l \in S : Cardinality({m \in S : Before(m, l)}) < BatchSize}

\* Mutant: a timer does not look at the sweep of another one.
StartSweepAlongside(t) ==
  /\ sweep[t] = Idle
  /\ sweep' = [sweep EXCEPT ![t] = [stage |-> "STARTED", at |-> now]]
  /\ UNCHANGED <<now, loan, held, active, switches, notes>>

\* runSweepOnce: whoever asks while a sweep is in flight joins that one.
StartSweep(t) ==
  /\ \A u \in Timers : sweep[u] = Idle
  /\ sweep' = [sweep EXCEPT ![t] = [stage |-> "STARTED", at |-> now]]
  /\ UNCHANGED <<now, loan, held, active, switches, notes>>

\* The query; SKIP LOCKED passes over the rows that are locked.
SelectBatch(t) ==
  /\ sweep[t].stage = "STARTED"
  /\ LET batch == Batch({l \in Loans : Eligible(l, sweep[t].at) /\ ~Locked(l)})
     IN  sweep' = [sweep EXCEPT ![t] =
           [stage |-> "SELECTED", at |-> sweep[t].at,
            batch |-> {[loan |-> l, due |-> loan[l].due] : l \in batch}]]
  /\ UNCHANGED <<now, loan, held, active, switches, notes>>

\* createBorrowDeadlineNotifications: recipients are looked up once more.
CommitSweep(t) ==
  /\ sweep[t].stage = "SELECTED"
  /\ notes' = notes \union
       UNION {{[type |-> TypeAt(c.due, sweep[t].at), loan |-> c.loan,
                due |-> c.due, user |-> u]
               : u \in Recipients(c.loan, c.due, sweep[t].at)}
              : c \in sweep[t].batch}
  /\ sweep' = [sweep EXCEPT ![t] = Idle]
  /\ UNCHANGED <<now, loan, held, active, switches>>

\* An error or a restart of the server: the transaction leaves nothing.
FailSweep(t) ==
  /\ sweep[t] # Idle
  /\ sweep' = [sweep EXCEPT ![t] = Idle]
  /\ UNCHANGED <<now, loan, held, active, switches, notes>>

----------------------------------------------------------------------------
(* What goes on around the sweep.                                          *)

Tick ==
  /\ now < Horizon
  /\ now' = now + 1
  /\ UNCHANGED <<loan, held, active, switches, notes, sweep>>

\* Another transaction locks the row of a loan: to write it, or because it adds
\* a row that refers to it, as the request for an online extension does.
LockLoan(l) ==
  /\ ~Locked(l)
  /\ held' = held \union {l}
  /\ UNCHANGED <<now, loan, active, switches, notes, sweep>>

\* It ends without a change to the loan: rolled back, or nothing to write.
UnlockLoan(l) ==
  /\ l \in held
  /\ held' = held \ {l}
  /\ UNCHANGED <<now, loan, active, switches, notes, sweep>>

\* Mutant: the date asked for is taken for a number of days.
ExtendLoanByDays(l, date) ==
  /\ l \in held
  /\ loan' = [loan EXCEPT ![l].due = @ + date]
  /\ held' = held \ {l}
  /\ UNCHANGED <<now, active, switches, notes, sweep>>

\* reviewExtension, or createExtension over the desk.  The date was compared
\* with the due date when it was asked for; the present one may be later.
ExtendLoan(l, date) ==
  /\ l \in held
  /\ loan' = [loan EXCEPT ![l].due = date]
  /\ held' = held \ {l}
  /\ UNCHANGED <<now, active, switches, notes, sweep>>

\* requestReturn or returnAsset.
GiveLoanBack(l) ==
  /\ l \in held /\ loan[l].out
  /\ loan' = [loan EXCEPT ![l].out = FALSE]
  /\ held' = held \ {l}
  /\ UNCHANGED <<now, active, switches, notes, sweep>>

Release(l) ==
  \/ UnlockLoan(l)
  \/ \E date \in Dates : ExtendLoan(l, date)
  \/ GiveLoanBack(l)

\* An account is banned or deleted, or allowed in again.
SwitchAccount(u) ==
  /\ switches < MaxSwitches
  /\ switches' = switches + 1
  /\ active' = IF u \in active THEN active \ {u} ELSE active \union {u}
  /\ UNCHANGED <<now, loan, held, notes, sweep>>

DeadlineNext ==
  \/ \E t \in Timers : \/ StartSweep(t)
                       \/ SelectBatch(t)
                       \/ CommitSweep(t)
                       \/ FailSweep(t)
  \/ Tick
  \/ \E l \in Loans : LockLoan(l) \/ Release(l)
  \/ \E u \in Users : SwitchAccount(u)

\* The query runs while l is not locked.
SelectUnlocked(t, l) == l \notin held /\ SelectBatch(t)

\* A batch with l in it is committed.
CommitChosen(t, l) ==
  sweep[t].stage = "SELECTED" /\ (\E c \in sweep[t].batch : c.loan = l) /\ CommitSweep(t)

(***************************************************************************)
(* The interval fires for ever.  Any sweep may fail at either of its       *)
(* steps, but not all those fail, from some point on, that could query     *)
(* while a given loan is not locked, nor all those that have chosen it.    *)
(* Clock, accounts, borrowers and the transactions that lock a loan owe    *)
(* nothing.                                                                *)
(***************************************************************************)
DeadlineFairness ==
  /\ WF_deadlineVars(\E t \in Timers : StartSweep(t))
  /\ \A l \in Loans : /\ SF_deadlineVars(\E t \in Timers : SelectUnlocked(t, l))
                      /\ SF_deadlineVars(\E t \in Timers : CommitChosen(t, l))

DeadlineSpec ==
  DeadlineInit /\ [][DeadlineNext]_deadlineVars /\ DeadlineFairness

----------------------------------------------------------------------------
(* Type correctness of the rows, the clock and the sweeps.                 *)
DeadlineTypeOK ==
  /\ now \in Nat
  /\ loan \in [Loans -> [out : BOOLEAN, due : Dates]]
  /\ held \in SUBSET Loans
  /\ active \in SUBSET Users
  /\ switches \in Nat
  /\ notes \in SUBSET Note
  /\ sweep \in [Timers -> Sweeps]

(* A notification speaks of a loan that is out and of its present due      *)
(* date, even when the return or the extension races with the sweep.       *)
DeadlineInForce ==
  [][\A n \in notes' \ notes :
       loan[n.loan].out /\ loan[n.loan].due = n.due]_deadlineVars

(* Nobody is reminded of a date that everybody was told has passed: no     *)
(* due-soon row follows the overdue rows of the same date.                 *)
NoReminderAfterOverdue ==
  [][\A n \in notes' \ notes :
       n.type = "BORROW_DUE_SOON" =>
         ~\E m \in notes : /\ m.type = "BORROW_OVERDUE"
                           /\ m.loan = n.loan
                           /\ m.due = n.due]_deadlineVars

(* An event is announced once: later sweeps add no recipient to it, users  *)
(* who came after it included.                                             *)
AnnouncedOnce ==
  [][\A n \in notes' \ notes :
       ~\E m \in notes : /\ m.type = n.type
                         /\ m.loan = n.loan
                         /\ m.due = n.due]_deadlineVars

OverdueUnannounced(l, date) ==
  /\ loan[l].out
  /\ loan[l].due = date
  /\ date < now
  /\ ({Borrower[l]} \union Staff) \intersect active # {}
  /\ ~\E n \in notes : n.type = "BORROW_OVERDUE" /\ n.loan = l /\ n.due = date

(* The row of l is not locked at some moment when a sweep is about to      *)
(* query.                                                                  *)
Reachable(l) == l \notin held /\ \E t \in Timers : sweep[t].stage = "STARTED"

(* However small the batch, and whatever fails, an overdue loan does not   *)
(* stay unannounced as long as there is somebody to tell, unless SKIP      *)
(* LOCKED passes over it for ever: other transactions may have locked it   *)
(* whenever a sweep runs, and nothing but chance keeps them from it.       *)
OverdueIsAnnounced ==
  \A l \in Loans :
    []<>Reachable(l) =>
      \A date \in Dates :
        OverdueUnannounced(l, date) ~> ~OverdueUnannounced(l, date)
=============================================================================
