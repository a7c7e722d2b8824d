-------------------------- MODULE BorrowExtension --------------------------
(***************************************************************************)
(* The extensions of one loan: createExtension, reviewExtension and        *)
(* cancelExtension of asset-borrow.service.ts.                             *)
(*                                                                         *)
(* All three read inside their transaction, but without a lock: under READ *)
(* COMMITTED another request may commit before they write.  reviewExtension *)
(* writes where the request is still PENDING and is one step of a worker;  *)
(* the other two write by id and are a Read... and a Commit... step each.  *)
(***************************************************************************)
EXTENDS Integers, FiniteSets

CONSTANTS Extensions,   \* ids of the extensions that may be requested
          Workers,      \* HTTP requests that may be in progress at once
          Dates         \* return dates that may be asked for

ASSUME ExtensionAssumption ==
  Dates \subseteq Nat \ {0} /\ IsFiniteSet(Extensions)

VARIABLES borrow,       \* the borrow_transaction row: status, due date, count
          extension,    \* the borrow_extension rows
          request       \* what each request in progress has read

extensionVars == <<borrow, extension, request>>

BorrowRow == [status : {"BORROWED", "GIVEN_BACK"}, due : Nat, count : Nat]

Decided == {"APPROVED", "REJECTED", "CANCELLED"}

\* was: the due date the loan had when the extension was asked for.
ExtensionRow == [status : {"NONE", "PENDING"} \union Decided,
                 round : Nat, was : Nat, asked : Nat]

NoExtension == [status |-> "NONE", round |-> 0, was |-> 0, asked |-> 0]

NoRequest == [op |-> "NONE"]

Requests ==
  {NoRequest}
    \union [op : {"CREATE"}, row : [status : {"PENDING", "APPROVED"},
                                    round : Nat, was : Nat, asked : Nat]]
    \union [op : {"CANCEL"}, id : Extensions]

Having(status) == {e \in Extensions : extension[e].status = status}

\* The loan has been handed over, due at date 0 of the model.
ExtensionInit ==
  /\ borrow = [status |-> "BORROWED", due |-> 0, count |-> 0]
  /\ extension = [e \in Extensions |-> NoExtension]
  /\ request = [w \in Workers |-> NoRequest]

----------------------------------------------------------------------------
Done(w) == request' = [request EXCEPT ![w] = NoRequest]

\* A later check fails or the transaction is lost: nothing is written.
GiveUp(w) ==
  /\ request[w] # NoRequest
  /\ Done(w)
  /\ UNCHANGED <<borrow, extension>>

\* Mutant: a pending request is not looked for.
ReadCreateUnchecked(w, type, date) ==
  /\ request[w] = NoRequest
  /\ borrow.status = "BORROWED"
  /\ date > borrow.due
  /\ request' = [request EXCEPT ![w] =
       [op  |-> "CREATE",
        row |-> [status |-> IF type = "DESK" THEN "APPROVED" ELSE "PENDING",
                 round  |-> borrow.count + 1,
                 was    |-> borrow.due,
                 asked  |-> date]]]
  /\ UNCHANGED <<borrow, extension>>

(***************************************************************************)
(* createExtension: over the desk the extension is approved at once, the   *)
(* online one waits for a review.                                          *)
(***************************************************************************)
ReadCreate(w, type, date) ==
  /\ request[w] = NoRequest
  /\ borrow.status = "BORROWED"
  /\ Having("PENDING") = {}
  /\ date > borrow.due
  /\ request' = [request EXCEPT ![w] =
       [op  |-> "CREATE",
        row |-> [status |-> IF type = "DESK" THEN "APPROVED" ELSE "PENDING",
                 round  |-> borrow.count + 1,
                 was    |-> borrow.due,
                 asked  |-> date]]]
  /\ UNCHANGED <<borrow, extension>>

\* The desk writes the round it read, not one more than there is now.
CommitCreate(w) ==
  LET row == request[w].row IN
  /\ request[w].op = "CREATE"
  /\ \E e \in Having("NONE") : extension' = [extension EXCEPT ![e] = row]
  /\ borrow' = IF row.status = "APPROVED"
               THEN [borrow EXCEPT !.due = row.asked, !.count = row.round]
               ELSE borrow
  /\ Done(w)

\* Mutant: the decision moves the due date whatever it is.
ReviewExtensionAlwaysMoves(w, e, decision) ==
  /\ request[w] = NoRequest
  /\ extension[e].status = "PENDING"
  /\ extension' = [extension EXCEPT ![e].status = decision]
  /\ borrow' = [borrow EXCEPT !.due = extension[e].asked, !.count = @ + 1]
  /\ UNCHANGED request

\* Mutant: a request that has been decided can be reviewed again.
ReviewExtensionAgain(w, e, decision) ==
  /\ request[w] = NoRequest
  /\ extension[e].status # "NONE"
  /\ extension' = [extension EXCEPT ![e].status = decision]
  /\ borrow' = IF decision = "APPROVED"
               THEN [borrow EXCEPT !.due = extension[e].asked, !.count = @ + 1]
               ELSE borrow
  /\ UNCHANGED request

\* reviewExtension: whether the loan is still out is not asked again.
ReviewExtension(w, e, decision) ==
  /\ request[w] = NoRequest
  /\ extension[e].status = "PENDING"
  /\ extension' = [extension EXCEPT ![e].status = decision]
  /\ borrow' = IF decision = "APPROVED"
               THEN [borrow EXCEPT !.due = extension[e].asked, !.count = @ + 1]
               ELSE borrow
  /\ UNCHANGED request

ReadCancel(w, e) ==
  /\ request[w] = NoRequest
  /\ extension[e].status = "PENDING"
  /\ request' = [request EXCEPT ![w] = [op |-> "CANCEL", id |-> e]]
  /\ UNCHANGED <<borrow, extension>>

\* Mutant: a cancelled extension gives its round back to the loan.
CommitCancelGivesRoundBack(w) ==
  /\ request[w].op = "CANCEL"
  /\ extension' = [extension EXCEPT ![request[w].id].status = "CANCELLED"]
  /\ Done(w)
  /\ borrow' = [borrow EXCEPT !.count = @ - 1]

\* cancelExtension overwrites the status, a decision taken meanwhile included.
CommitCancel(w) ==
  /\ request[w].op = "CANCEL"
  /\ extension' = [extension EXCEPT ![request[w].id].status = "CANCELLED"]
  /\ Done(w)
  /\ UNCHANGED borrow

\* requestReturn or returnAsset: the extensions are not looked at.
GiveBack(w) ==
  /\ request[w] = NoRequest
  /\ borrow.status = "BORROWED"
  /\ borrow' = [borrow EXCEPT !.status = "GIVEN_BACK"]
  /\ UNCHANGED <<extension, request>>

ExtensionStep(w) ==
  \/ \E type \in {"DESK", "ONLINE"}, date \in Dates : ReadCreate(w, type, date)
  \/ CommitCreate(w)
  \/ \E e \in Extensions, decision \in {"APPROVED", "REJECTED"} :
        ReviewExtension(w, e, decision)
  \/ \E e \in Extensions : ReadCancel(w, e)
  \/ CommitCancel(w)
  \/ GiveBack(w)
  \/ GiveUp(w)

ExtensionNext == \E w \in Workers : ExtensionStep(w)

ExtensionSpec == ExtensionInit /\ [][ExtensionNext]_extensionVars

----------------------------------------------------------------------------
(* Type correctness of the loan, its extensions and the requests.          *)
ExtensionTypeOK ==
  /\ borrow \in BorrowRow
  /\ extension \in [Extensions -> ExtensionRow]
  /\ request \in [Workers -> Requests]

Granted == {e \in Extensions : extension[e].status \in {"APPROVED", "CANCELLED"}}

(* However requests overlap, the due date of the loan is one somebody      *)
(* asked for and nobody refused: a rejected extension never moves it.      *)
DueDateWasGranted ==
  borrow.due # 0 => \E e \in Granted : extension[e].asked = borrow.due

(* Overlapping requests may lose a round, but never invent one.            *)
CountWithinGranted == borrow.count <= Cardinality(Granted)

(* The count of the loan, its due date and the rounds of its approved      *)
(* extensions tell one history: each round asked for a later date than the *)
(* one before, the last one is in force, and one request at most waits for *)
(* a decision.  Overlapping requests break every part of it.               *)
HistoryKept ==
  LET approved == Having("APPROVED") IN
  /\ borrow.count = Cardinality(approved)
  /\ {extension[e].round : e \in approved} = 1 .. borrow.count
  /\ \A e, f \in approved :
       extension[e].round < extension[f].round
         => extension[e].asked < extension[f].asked
  /\ \A e \in approved :
       extension[e].round = borrow.count => extension[e].asked = borrow.due
  /\ Cardinality(Having("PENDING")) <= 1
=============================================================================
