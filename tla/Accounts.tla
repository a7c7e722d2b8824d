------------------------------ MODULE Accounts ------------------------------
(***************************************************************************)
(* User accounts: backend/src/users/users.service.ts with the enrolment of *)
(* backend/src/auth/two-factor.service.ts.                                 *)
(*                                                                         *)
(* A change that may take an administrator away is a transaction: it locks *)
(* the ADMIN rows, reads and checks, writes and commits.  The lock query   *)
(* looks for ADMIN rows when it starts and waits for those that another    *)
(* transaction holds; who becomes ADMIN meanwhile is not among them.       *)
(* Creating an account is a call of better-auth, which commits on its own, *)
(* and then a transaction, or a compensation.                              *)
(***************************************************************************)
EXTENDS Integers, FiniteSets

CONSTANTS
  Users, Workers,  \* ids of accounts; requests of administrators in progress
  MaxRequests      \* bound: the number of such requests

ASSUME AccountAssumption == MaxRequests \in Nat /\ IsFiniteSet(Users)

VARIABLES
  user,        \* the users rows
  factor,      \* the two_factor_auth row of each user
  confirming,  \* confirmations that have read the recovery codes
  req,         \* requests of administrators
  begun        \* how many there were

accountVars == <<user, factor, confirming, req, begun>>

\* OFFICE stands for the other roles that need a second factor, STAFF for
\* those that need none.
UserRole == {"ADMIN", "OFFICE", "STAFF"}
requiresTwoFactor(role) == role # "STAFF"

\* HALF: better-auth has made the row, its own columns are not yet written.
UserRow == [state : {"NONE", "HALF", "LIVE"}, role : UserRole,
            banned : BOOLEAN, deleted : BOOLEAN]
Account(state, role) ==
  [state |-> state, role |-> role, banned |-> FALSE, deleted |-> FALSE]
NoUser == Account("NONE", "STAFF")

\* No row, a secret, recovery codes issued, enrollmentComplete.
Factor == {"NONE", "SECRET", "CODES", "COMPLETE"}

\* What is asked for.  KEEP: the field is not in the body of the update.
Change ==
  [op : {"UPDATE"}, target : Users, role : UserRole \union {"KEEP"},
   banned : {"BAN", "UNBAN", "KEEP"}]
    \union [op : {"REMOVE"}, target : Users]
    \union [op : {"RESET"}, target : Users, actor : Users]

Idle == [step |-> "IDLE"]
Request ==
  {Idle}
    \union [step : {"WAITING", "LOCKED", "CHECKED"}, change : Change,
            rows : SUBSET Users]
    \union [step : {"CREATING"}, target : Users, role : UserRole]

AccountTypeOK ==
  /\ user \in [Users -> UserRow]
  /\ factor \in [Users -> Factor]
  /\ confirming \subseteq Users
  /\ req \in [Workers -> Request]
  /\ begun \in 0..MaxRequests

Admins == {u \in Users : user[u].state # "NONE" /\ user[u].role = "ADMIN"}
ActiveAdmins == {u \in Admins : ~user[u].deleted /\ ~user[u].banned}
EnrolledAdmins == {u \in ActiveAdmins : factor[u] = "COMPLETE"}

\* The accounts of a hospital at work: the seed and the handover leave at
\* least one active administrator with a completed enrolment.
AccountInit ==
  /\ user \in [Users -> {NoUser} \union {Account("LIVE", r) : r \in UserRole}]
  /\ factor \in [Users -> {"NONE", "COMPLETE"}]
  /\ \A u \in Users : user[u] = NoUser => factor[u] = "NONE"
  /\ EnrolledAdmins # {}
  /\ confirming = {}
  /\ req = [w \in Workers |-> Idle]
  /\ begun = 0

InTransaction(w) == req[w].step \in {"LOCKED", "CHECKED"}
Waiting(w) == req[w].step = "WAITING"
HeldByOthers(w) ==
  UNION {req[v].rows : v \in {x \in Workers \ {w} : InTransaction(x)}}

-----------------------------------------------------------------------------
(* Update with a role or an account state, adminResetTwoFactor, remove.    *)

Found(u) == user[u].state # "NONE" /\ ~user[u].deleted

\* findOne, and what is refused before the transaction starts.
Acceptable(change) ==
  /\ Found(change.target)
  /\ change.op = "UPDATE" => change.role # "KEEP" \/ change.banned # "KEEP"
  /\ change.op = "RESET" =>
       change.actor # change.target /\ user[change.actor].role = "ADMIN"

Begin(w, request) ==
  /\ req[w] = Idle /\ begun < MaxRequests
  /\ begun' = begun + 1
  /\ req' = [req EXCEPT ![w] = request]

\* Mutant: only the row to be changed is locked.
LockTargetRow(w, change) ==
  /\ Acceptable(change)
  /\ Begin(w, [step |-> IF change.target \in HeldByOthers(w)
                        THEN "WAITING" ELSE "LOCKED",
               change |-> change, rows |-> {change.target}])
  /\ UNCHANGED <<user, factor, confirming>>

\* lockAdminRows: a query that has to wait holds nothing until all its rows are
\* free, and those who wait go on in any order.
LockAdminRows(w, change) ==
  /\ Acceptable(change)
  /\ Begin(w, [step |-> IF Admins \intersect HeldByOthers(w) = {}
                        THEN "LOCKED" ELSE "WAITING",
               change |-> change, rows |-> Admins])
  /\ UNCHANGED <<user, factor, confirming>>

\* The condition is evaluated again; whether the lock of a row that is no longer
\* ADMIN stays is left open.
GetLock(w) ==
  /\ Waiting(w) /\ req[w].rows \intersect HeldByOthers(w) = {}
  /\ \E rows \in {req[w].rows, req[w].rows \intersect Admins} :
       req' = [req EXCEPT ![w].step = "LOCKED", ![w].rows = rows]
  /\ UNCHANGED <<user, factor, confirming, begun>>

\* Mutant: who is disabled, deleted or not enrolled counts as well.
NotLastAdmin(u) == u \in EnrolledAdmins => Cardinality(Admins) > 1

\* assertNotLastActiveEnrolledAdmin
NotLast(u) ==
  u \in EnrolledAdmins => Cardinality(EnrolledAdmins) > 1

\* The changes that may take an administrator away.
Threatens(change) ==
  LET row == user[change.target] IN
  \/ change.op = "REMOVE"
  \/ /\ change.op = "UPDATE" /\ row.role = "ADMIN"
     /\ \/ change.role \notin {"KEEP", "ADMIN"}
        \/ change.banned = "BAN" /\ ~row.banned
  \/ /\ change.op = "RESET" /\ row.role = "ADMIN"
     /\ factor[change.target] = "COMPLETE"

Permitted(change) ==
  /\ Found(change.target)
  /\ change.op = "RESET" => /\ change.actor \in ActiveAdmins
                            /\ requiresTwoFactor(user[change.target].role)
                            /\ factor[change.target] # "NONE"
  /\ Threatens(change) => NotLast(change.target)

Check(w) ==
  /\ req[w].step = "LOCKED"
  /\ req' = [req EXCEPT ![w] = IF Permitted(req[w].change)
                               THEN [req[w] EXCEPT !.step = "CHECKED"]
                               ELSE Idle]
  /\ UNCHANGED <<user, factor, confirming, begun>>

Changed(row, change) ==
  CASE change.op = "UPDATE" ->
         [row EXCEPT !.role = IF change.role = "KEEP" THEN @ ELSE change.role,
                     !.banned = IF change.banned = "KEEP" THEN @
                                ELSE change.banned = "BAN"]
    [] change.op = "REMOVE" -> [row EXCEPT !.deleted = TRUE]
    [] change.op = "RESET" -> row

Commit(w) ==
  LET change == req[w].change
      u == change.target IN
  /\ req[w].step = "CHECKED"
  /\ u \notin HeldByOthers(w) /\ user[u].state # "NONE"
  /\ user' = [user EXCEPT ![u] = Changed(user[u], change)]
  /\ factor' = IF change.op = "RESET" THEN [factor EXCEPT ![u] = "NONE"]
                                      ELSE factor
  /\ req' = [req EXCEPT ![w] = Idle]
  /\ UNCHANGED <<confirming, begun>>

\* A timeout, a lost connection, a row that is gone: all is rolled back.
RollBack(w) ==
  /\ InTransaction(w) \/ Waiting(w)
  /\ req' = [req EXCEPT ![w] = Idle]
  /\ UNCHANGED <<user, factor, confirming, begun>>

restore(u) ==
  /\ user[u].deleted
  /\ \A w \in Workers : InTransaction(w) => u \notin req[w].rows
  /\ user' = [user EXCEPT ![u].deleted = FALSE]
  /\ UNCHANGED <<factor, confirming, req, begun>>

-----------------------------------------------------------------------------
(* create.                                                                 *)

BeingCreated(u) ==
  \E w \in Workers : req[w].step = "CREATING" /\ req[w].target = u

\* better-auth stores the account with the default role.
SignUpEmail(w, u, role) ==
  /\ user[u] = NoUser
  /\ Begin(w, [step |-> "CREATING", target |-> u, role |-> role])
  /\ user' = [user EXCEPT ![u] = Account("HALF", "STAFF")]
  /\ UNCHANGED <<factor, confirming>>

\* Mutant: a role that is left out of the body is not defaulted.
FinishCreateBlank(w) ==
  LET u == req[w].target IN
  /\ req[w].step = "CREATING"
  /\ u \notin HeldByOthers(w)
  /\ user' = [user EXCEPT ![u].state = "LIVE", ![u].role = "KEEP"]
  /\ req' = [req EXCEPT ![w] = Idle]
  /\ UNCHANGED <<factor, confirming, begun>>

\* The transaction, the compensation after a failure, or a stop of the
\* process, which leaves the account as better-auth made it.
FinishCreate(w) ==
  LET u == req[w].target IN
  /\ req[w].step = "CREATING"
  /\ \/ /\ u \notin HeldByOthers(w)
        /\ user' = [user EXCEPT ![u].state = "LIVE", ![u].role = req[w].role]
     \/ /\ u \notin HeldByOthers(w)
        /\ user' = [user EXCEPT ![u] = NoUser]
     \/ UNCHANGED user
  /\ req' = [req EXCEPT ![w] = Idle]
  /\ UNCHANGED <<factor, confirming, begun>>

-----------------------------------------------------------------------------
(* Enrolment, by a person whose account has been created.                  *)

Enrol(u, status) ==
  /\ user[u].state # "NONE" /\ ~BeingCreated(u)
  /\ factor' = [factor EXCEPT ![u] = status]
  /\ UNCHANGED <<user, req, begun>>

generateSecret(u) ==
  factor[u] = "NONE" /\ Enrol(u, "SECRET") /\ UNCHANGED confirming

verifyAndEnroll(u) ==
  factor[u] = "SECRET" /\ Enrol(u, "CODES") /\ UNCHANGED confirming

\* confirmBackupCodesSaved reads the row and then updates whatever row there
\* is.
ReadCodes(u) ==
  /\ factor[u] = "CODES"
  /\ confirming' = confirming \union {u}
  /\ UNCHANGED <<user, factor, req, begun>>

ConfirmCodes(u) ==
  /\ u \in confirming /\ factor[u] # "NONE"
  /\ confirming' = confirming \ {u}
  /\ Enrol(u, "COMPLETE")

DropConfirm(u) ==
  /\ u \in confirming
  /\ confirming' = confirming \ {u}
  /\ UNCHANGED <<user, factor, req, begun>>

-----------------------------------------------------------------------------
AccountNext ==
  \/ \E w \in Workers : \/ \E change \in Change : LockAdminRows(w, change)
                        \/ GetLock(w) \/ Check(w) \/ Commit(w) \/ RollBack(w)
                        \/ \E u \in Users, r \in UserRole : SignUpEmail(w, u, r)
                        \/ FinishCreate(w)
  \/ \E u \in Users : \/ restore(u) \/ generateSecret(u) \/ verifyAndEnroll(u)
                      \/ ReadCodes(u) \/ ConfirmCodes(u) \/ DropConfirm(u)

AccountSpec == AccountInit /\ [][AccountNext]_accountVars

-----------------------------------------------------------------------------
\* backend/docs/specs/two-factor-authentication-and-browser-sessions.md:86: the
\* last active enrolled ADMIN is not deleted, disabled or demoted; the code means
\* to refuse a reset as well.  It keeps to this as far as AccountWatch says.
AdminRemains == EnrolledAdmins # {}

\* users.service.ts:432, "This serializes concurrent demotions/disables against
\* the same count": no two of them are between their lock and their commit.
LockSerializes ==
  \A v, w \in Workers : InTransaction(v) /\ InTransaction(w) => v = w
=============================================================================
