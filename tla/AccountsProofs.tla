--------------------------- MODULE AccountsProofs ---------------------------
(***************************************************************************)
(* Proofs about accounts, for any number of users and of requests of       *)
(* administrators.                                                         *)
(***************************************************************************)
EXTENDS AccountWatch, FiniteSetTheorems, TLAPS

Locking == [step : {"WAITING", "LOCKED", "CHECKED"}, change : Change,
            rows : SUBSET Users]
Creating == [step : {"CREATING"}, target : Users, role : UserRole]

\* An update that takes nothing from an administrator.
Harmless(change) ==
  /\ change.op = "UPDATE"
  /\ change.role \in {"KEEP", "ADMIN"} /\ change.banned # "BAN"

\* An account that is being created belongs to one request and to no person.
CreatePart ==
  /\ \A u \in Users : user[u].state = "NONE" => user[u] = NoUser
  /\ \A u \in Users : user[u].state = "NONE" => factor[u] = "NONE"
  /\ \A w \in Workers : req[w].step = "CREATING" =>
       /\ user[req[w].target].state = "HALF"
       /\ factor[req[w].target] = "NONE"
  /\ \A v, w \in Workers :
       /\ req[v].step = "CREATING" /\ req[w].step = "CREATING"
       /\ req[v].target = req[w].target
       => v = w

\* Every transaction holds an enrolled administrator, whom every query that
\* waits has found; and what it is about to write leaves another.
LockPart ==
  /\ AdminRemains
  /\ LockSerializes
  /\ \A w \in Workers : InTransaction(w) => EnrolledAdmins \intersect req[w].rows # {}
  /\ ~Missed
  /\ \A w \in Workers : req[w].step = "CHECKED" =>
       \/ Harmless(req[w].change)
       \/ EnrolledAdmins \ {req[w].change.target} # {}

AccountInv == AccountTypeOK /\ CreatePart

WatchInv == AccountInv /\ (overtaken \/ LockPart)

(* What a request holds, by the step it is at.                             *)
LEMMA RequestFacts ==
  ASSUME NEW r \in Request
  PROVE  /\ r.step \in {"IDLE", "WAITING", "LOCKED", "CHECKED", "CREATING"}
         /\ r.step \in {"WAITING", "LOCKED", "CHECKED"} => r \in Locking
         /\ r.step = "CREATING" => r \in Creating
         /\ r.step = "IDLE" => r = Idle
  BY DEF Request, Idle, Locking, Creating

LEMMA RequestKinds == Request = {Idle} \union Locking \union Creating
  BY DEF Request, Locking, Creating

LEMMA EnrolledAreVested ==
  /\ EnrolledAdmins \subseteq Users
  /\ \A u \in EnrolledAdmins : Vested(u)
  BY DEF EnrolledAdmins, ActiveAdmins, Admins, Vested

(* Under ~Missed a query that waits has found every enrolled administrator.*)
LEMMA WaitingFoundAll ==
  ASSUME ~Missed, NEW w \in Workers, Waiting(w)
  PROVE  EnrolledAdmins \subseteq req[w].rows
  BY EnrolledAreVested DEF Missed

(* Who is held by others: with one transaction, what that one has locked.  *)
LEMMA HeldFacts ==
  ASSUME NEW w \in Workers, NEW u, u \notin HeldByOthers(w),
         NEW v \in Workers, v # w, InTransaction(v)
  PROVE  u \notin req[v].rows
  BY DEF HeldByOthers

LEMMA InvInit == AccountInit => AccountInv /\ LockPart
<1> SUFFICES ASSUME AccountInit PROVE AccountInv /\ LockPart
  OBVIOUS
<1>1. AccountTypeOK
  <2>1. 0 \in 0..MaxRequests
    BY AccountAssumption
  <2>2. NoUser \in UserRow /\ \A r \in UserRole : Account("LIVE", r) \in UserRow
    BY DEF NoUser, Account, UserRow, UserRole
  <2> QED
    BY <2>1, <2>2 DEF AccountInit, AccountTypeOK, Factor, Request
<1>2. CreatePart
  <2>1. \A u \in Users : user[u].state = "NONE" => user[u] = NoUser
    BY DEF AccountInit, Account
  <2> QED
    BY <2>1 DEF AccountInit, CreatePart, Idle
<1>3. LockPart
  BY DEF AccountInit, LockPart, AdminRemains, LockSerializes, Missed,
     Waiting, InTransaction, Idle
<1> QED
  BY <1>1, <1>2, <1>3 DEF AccountInv

(* Steps under which nobody stops being an enrolled administrator, and     *)
(* that leave alone the requests that wait or are in a transaction.        *)
LEMMA GrowthKeepsLocks ==
  ASSUME LockPart, ~Missed',
         EnrolledAdmins \subseteq EnrolledAdmins',
         \A w \in Workers : req'[w] = req[w]
            \/ /\ req[w].step \in {"IDLE", "CREATING"}
               /\ req'[w].step \in {"IDLE", "CREATING"}
  PROVE  LockPart'
<1>1. \A w \in Workers : /\ InTransaction(w)' =>
                              InTransaction(w) /\ req'[w] = req[w]
                         /\ req'[w].step = "CHECKED" => req'[w] = req[w]
  BY DEF InTransaction
<1>2. AdminRemains' /\ LockSerializes'
  BY <1>1 DEF LockPart, AdminRemains, LockSerializes
<1>3. \A w \in Workers : InTransaction(w)' =>
        EnrolledAdmins' \intersect req'[w].rows # {}
  BY <1>1 DEF LockPart
<1>4. \A w \in Workers : req'[w].step = "CHECKED" =>
        \/ Harmless(req'[w].change)
        \/ EnrolledAdmins' \ {req'[w].change.target} # {}
  BY <1>1 DEF LockPart
<1> QED
  BY <1>2, <1>3, <1>4 DEF LockPart, Harmless

(* Enrolment and restoring change no request.                              *)
LEMMA PersonStep ==
  ASSUME AccountInv, NEW u \in Users,
         \/ restore(u) \/ generateSecret(u) \/ verifyAndEnroll(u)
         \/ ReadCodes(u) \/ ConfirmCodes(u) \/ DropConfirm(u)
  PROVE  AccountInv' /\ (LockPart /\ ~Missed' => LockPart')
<1>1. AccountTypeOK /\ CreatePart
  BY DEF AccountInv
<1>2. req' = req /\ begun' = begun
  BY DEF restore, generateSecret, verifyAndEnroll, ReadCodes, ConfirmCodes,
     DropConfirm, Enrol
<1>3. CASE restore(u)
  <2>1. user' = [user EXCEPT ![u].deleted = FALSE] /\ UNCHANGED <<factor, confirming>>
    BY <1>3 DEF restore
  <2>2. user' \in [Users -> UserRow]
    BY <1>1, <2>1 DEF AccountTypeOK, UserRow
  <2>3. \A x \in Users : /\ user'[x].state = user[x].state
                         /\ user'[x].role = user[x].role
                         /\ user'[x].banned = user[x].banned
                         /\ ~user[x].deleted => ~user'[x].deleted
    BY <1>1, <2>1 DEF AccountTypeOK, UserRow
  <2>4. user[u].state # "NONE"
    BY <1>1, <1>3 DEF restore, CreatePart, NoUser, Account
  <2>5. CreatePart'
    BY <1>1, <1>2, <2>1, <2>3, <2>4, RequestFacts DEF CreatePart, AccountTypeOK, Creating
  <2>6. EnrolledAdmins \subseteq EnrolledAdmins'
    BY <2>1, <2>3 DEF EnrolledAdmins, ActiveAdmins, Admins
  <2>7. LockPart /\ ~Missed' => LockPart'
    BY <1>2, <2>6, GrowthKeepsLocks
  <2> QED
    BY <1>1, <1>2, <2>1, <2>2, <2>5, <2>7 DEF AccountInv, AccountTypeOK
<1>4. CASE ReadCodes(u) \/ DropConfirm(u)
  <2>1. UNCHANGED <<user, factor>> /\ confirming' \subseteq Users
    BY <1>1, <1>4 DEF ReadCodes, DropConfirm, AccountTypeOK
  <2>2. CreatePart'
    BY <1>1, <1>2, <2>1 DEF CreatePart
  <2>3. EnrolledAdmins' = EnrolledAdmins
    BY <2>1 DEF EnrolledAdmins, ActiveAdmins, Admins
  <2>4. LockPart /\ ~Missed' => LockPart'
    BY <1>2, <2>3, GrowthKeepsLocks
  <2> QED
    BY <1>1, <1>2, <2>1, <2>2, <2>4 DEF AccountInv, AccountTypeOK
<1>5. CASE generateSecret(u) \/ verifyAndEnroll(u) \/ ConfirmCodes(u)
  <2>1. PICK status \in {"SECRET", "CODES", "COMPLETE"} :
          /\ Enrol(u, status)
          /\ factor[u] = "COMPLETE" => status = "COMPLETE"
    BY <1>5 DEF generateSecret, verifyAndEnroll, ConfirmCodes
  <2>2. /\ factor' = [factor EXCEPT ![u] = status] /\ user' = user
        /\ user[u].state # "NONE" /\ ~BeingCreated(u)
    BY <2>1 DEF Enrol
  <2>3. confirming' \subseteq Users
    BY <1>1, <1>5 DEF generateSecret, verifyAndEnroll, ConfirmCodes, AccountTypeOK
  <2>4. factor' \in [Users -> Factor]
    BY <1>1, <2>1, <2>2 DEF AccountTypeOK, Factor
  <2>5. \A x \in Users : x # u => factor'[x] = factor[x]
    BY <1>1, <2>2 DEF AccountTypeOK
  <2>6. \A w \in Workers : req[w].step = "CREATING" =>
          req[w].target \in Users /\ req[w].target # u
    BY <1>1, <2>2, RequestFacts DEF BeingCreated, AccountTypeOK, Creating
  <2>7. CreatePart'
    BY <1>1, <1>2, <2>2, <2>5, <2>6 DEF CreatePart
  <2>8. factor'[u] = status
    BY <1>1, <2>2 DEF AccountTypeOK
  <2>9. EnrolledAdmins \subseteq EnrolledAdmins'
    BY <2>1, <2>2, <2>5, <2>8 DEF EnrolledAdmins, ActiveAdmins, Admins
  <2>10. LockPart /\ ~Missed' => LockPart'
    BY <1>2, <2>9, GrowthKeepsLocks
  <2> QED
    BY <1>1, <1>2, <2>2, <2>3, <2>4, <2>7, <2>10 DEF AccountInv, AccountTypeOK
<1> QED
  BY <1>3, <1>4, <1>5

(* Creating an account concerns nobody who is enrolled.                    *)
LEMMA SignUpStep ==
  ASSUME AccountInv, NEW w \in Workers, NEW u \in Users, NEW role \in UserRole,
         SignUpEmail(w, u, role)
  PROVE  AccountInv' /\ (LockPart /\ ~Missed' => LockPart')
<1> DEFINE request == [step |-> "CREATING", target |-> u, role |-> role]
<1>1. AccountTypeOK /\ CreatePart
  BY DEF AccountInv
<1>2. /\ req[w] = Idle /\ req' = [req EXCEPT ![w] = request]
      /\ begun' \in 0..MaxRequests
      /\ user' = [user EXCEPT ![u] = Account("HALF", "STAFF")]
      /\ UNCHANGED <<factor, confirming>> /\ user[u] = NoUser
  BY <1>1, AccountAssumption DEF SignUpEmail, Begin, AccountTypeOK
<1>3. /\ request \in Request /\ request.step = "CREATING" /\ request.target = u
  BY DEF Request, Creating
<1>4. /\ Account("HALF", "STAFF") \in UserRow
      /\ Account("HALF", "STAFF").state = "HALF"
      /\ Account("HALF", "STAFF").role = "STAFF"
  BY DEF Account, UserRow, UserRole
<1> HIDE DEF request
<1>5. /\ req'[w] = request
      /\ \A v \in Workers : v # w => req'[v] = req[v]
      /\ user'[u] = Account("HALF", "STAFF")
      /\ \A x \in Users : x # u => user'[x] = user[x]
  BY <1>1, <1>2 DEF AccountTypeOK
<1>6. AccountTypeOK'
  BY <1>1, <1>2, <1>3, <1>4 DEF AccountTypeOK
<1>7. factor[u] = "NONE" /\ user[u].state = "NONE"
  BY <1>1, <1>2 DEF CreatePart, NoUser, Account
<1>8. \A v \in Workers : req[v].step = "CREATING" =>
        req[v].target # u /\ req[v].target \in Users
  BY <1>1, <1>7, RequestFacts DEF CreatePart, AccountTypeOK, Creating
<1>9. CreatePart'
  BY <1>1, <1>2, <1>3, <1>4, <1>5, <1>7, <1>8 DEF CreatePart
<1>10. EnrolledAdmins \subseteq EnrolledAdmins'
  BY <1>2, <1>5, <1>7 DEF EnrolledAdmins, ActiveAdmins, Admins
<1>11. req[w].step = "IDLE" /\ req'[w].step = "CREATING"
  BY <1>2, <1>3, <1>5 DEF Idle
<1>12. LockPart /\ ~Missed' => LockPart'
  BY <1>5, <1>10, <1>11, GrowthKeepsLocks
<1> QED
  BY <1>6, <1>9, <1>12 DEF AccountInv

LEMMA FinishStep ==
  ASSUME AccountInv, NEW w \in Workers, FinishCreate(w)
  PROVE  AccountInv' /\ (LockPart /\ ~Missed' => LockPart')
<1> DEFINE u == req[w].target
<1>1. AccountTypeOK /\ CreatePart
  BY DEF AccountInv
<1>2. /\ req[w].step = "CREATING" /\ req' = [req EXCEPT ![w] = Idle]
      /\ UNCHANGED <<factor, confirming, begun>>
  BY DEF FinishCreate
<1>3. u \in Users /\ req[w].role \in UserRole /\ user[u].state = "HALF"
      /\ factor[u] = "NONE"
  BY <1>1, <1>2, RequestFacts DEF AccountTypeOK, Creating, CreatePart
<1>4. PICK row \in UserRow : /\ user' = [user EXCEPT ![u] = row]
                             /\ row.state = "NONE" => row = NoUser
  <2>1. CASE user' = [user EXCEPT ![u].state = "LIVE", ![u].role = req[w].role]
    <3> DEFINE row == [user[u] EXCEPT !.state = "LIVE", !.role = req[w].role]
    <3>1. row \in UserRow /\ row.state = "LIVE"
      BY <1>1, <1>3 DEF AccountTypeOK, UserRow
    <3>2. user' = [user EXCEPT ![u] = row]
      BY <1>1, <1>3, <2>1 DEF AccountTypeOK, UserRow
    <3> QED
      BY <3>1, <3>2
  <2>2. CASE user' = [user EXCEPT ![u] = NoUser]
    BY <2>2 DEF NoUser, Account, UserRow, UserRole
  <2>3. CASE UNCHANGED user
    <3>1. user' = [user EXCEPT ![u] = user[u]]
      BY <1>1, <1>3, <2>3 DEF AccountTypeOK
    <3> QED
      BY <1>1, <1>3, <3>1 DEF AccountTypeOK
  <2> QED
    BY <2>1, <2>2, <2>3 DEF FinishCreate
<1>5. /\ req'[w] = Idle
      /\ \A v \in Workers : v # w => req'[v] = req[v]
      /\ user'[u] = row
      /\ \A x \in Users : x # u => user'[x] = user[x]
  BY <1>1, <1>2, <1>3, <1>4 DEF AccountTypeOK
<1>6. AccountTypeOK'
  BY <1>1, <1>2, <1>3, <1>4 DEF AccountTypeOK, Request
<1>7. \A v \in Workers : v # w /\ req[v].step = "CREATING" =>
        req[v].target # u /\ req[v].target \in Users
  BY <1>1, <1>2, RequestFacts DEF CreatePart, AccountTypeOK, Creating
<1>8. Idle.step = "IDLE"
  BY DEF Idle
<1> HIDE DEF u
<1>9. CreatePart'
  BY <1>1, <1>2, <1>3, <1>4, <1>5, <1>7, <1>8 DEF CreatePart
<1>10. EnrolledAdmins \subseteq EnrolledAdmins'
  BY <1>2, <1>3, <1>5 DEF EnrolledAdmins, ActiveAdmins, Admins
<1>11. LockPart /\ ~Missed' => LockPart'
  BY <1>2, <1>5, <1>8, <1>10, GrowthKeepsLocks
<1> QED
  BY <1>6, <1>9, <1>11 DEF AccountInv

(* The accounts themselves do not change while a request is locking.       *)
LEMMA AccountsKept ==
  ASSUME UNCHANGED <<user, factor>>
  PROVE  EnrolledAdmins' = EnrolledAdmins
  BY DEF EnrolledAdmins, ActiveAdmins, Admins

LEMMA CreationKept ==
  ASSUME CreatePart, UNCHANGED <<user, factor>>,
         NEW w \in Workers, NEW r, r.step # "CREATING",
         req \in [Workers -> Request], req' = [req EXCEPT ![w] = r]
  PROVE  CreatePart'
<1>1. \A v \in Workers : req'[v].step = "CREATING" => req'[v] = req[v]
  OBVIOUS
<1> QED
  BY <1>1 DEF CreatePart

(* Whoever has found every enrolled administrator, and none of them held,  *)
(* is alone with its lock.                                                 *)
LEMMA LockIsExclusive ==
  ASSUME LockPart, NEW w \in Workers, ~InTransaction(w), NEW rows,
         EnrolledAdmins \subseteq rows, rows \intersect HeldByOthers(w) = {}
  PROVE  \A v \in Workers : ~InTransaction(v)
<1> SUFFICES ASSUME NEW v \in Workers, InTransaction(v) PROVE FALSE
  OBVIOUS
<1>1. PICK e \in EnrolledAdmins : e \in req[v].rows
  BY DEF LockPart
<1>2. e \in rows /\ v # w
  OBVIOUS
<1> QED
  BY <1>1, <1>2, HeldFacts

(* A request that starts to wait or to hold its rows, or goes on with them. *)
LEMMA LockingKeepsLocks ==
  ASSUME LockPart, ~Missed', UNCHANGED <<user, factor>>, NEW w \in Workers,
         \A v \in Workers : v # w => req'[v] = req[v],
         req'[w].step \in {"WAITING", "LOCKED"},
         \A v \in Workers : req'[w].step = "LOCKED" => ~InTransaction(v),
         req'[w].step = "LOCKED" => EnrolledAdmins \subseteq req'[w].rows
  PROVE  LockPart'
<1>1. req'[w].step # "CHECKED"
  OBVIOUS
<1>2. EnrolledAdmins' = EnrolledAdmins
  BY AccountsKept
<1>3. AdminRemains'
  BY <1>2 DEF LockPart, AdminRemains
<1>4. LockSerializes'
  BY <1>1 DEF LockPart, LockSerializes, InTransaction
<1>5. \A x \in Workers : InTransaction(x)' =>
        EnrolledAdmins' \intersect req'[x].rows # {}
  BY <1>1, <1>2 DEF LockPart, InTransaction, AdminRemains
<1>6. \A x \in Workers : req'[x].step = "CHECKED" =>
        \/ Harmless(req'[x].change)
        \/ EnrolledAdmins' \ {req'[x].change.target} # {}
  BY <1>1, <1>2 DEF LockPart
<1> QED
  BY <1>3, <1>4, <1>5, <1>6 DEF LockPart, Harmless

(* The lock query finds every enrolled administrator; if another           *)
(* transaction holds one, it waits.                                        *)
LEMMA LockStep ==
  ASSUME AccountInv, NEW w \in Workers, NEW change \in Change,
         LockAdminRows(w, change)
  PROVE  AccountInv' /\ (LockPart /\ ~Missed' => LockPart')
<1> DEFINE step == IF Admins \intersect HeldByOthers(w) = {}
                   THEN "LOCKED" ELSE "WAITING"
           request == [step |-> step, change |-> change, rows |-> Admins]
<1>1. AccountTypeOK /\ CreatePart
  BY DEF AccountInv
<1>2. /\ req[w] = Idle /\ req' = [req EXCEPT ![w] = request]
      /\ begun' \in 0..MaxRequests
      /\ UNCHANGED <<user, factor, confirming>>
  BY <1>1, AccountAssumption DEF LockAdminRows, Begin, AccountTypeOK
<1>3. /\ request \in Request /\ request.step = step /\ request.rows = Admins
      /\ step \in {"LOCKED", "WAITING"}
  BY RequestKinds DEF Locking, Admins
<1>4. ~InTransaction(w) /\ EnrolledAdmins \subseteq Admins
  BY <1>2, EnrolledAreVested DEF InTransaction, Idle, Vested
<1>5. LockPart /\ step = "LOCKED" => \A v \in Workers : ~InTransaction(v)
  BY <1>4, LockIsExclusive
<1> HIDE DEF step, request
<1>6. AccountTypeOK'
  BY <1>1, <1>2, <1>3 DEF AccountTypeOK
<1>7. CreatePart'
  BY <1>1, <1>2, <1>3, CreationKept DEF AccountTypeOK
<1>8. ASSUME LockPart, ~Missed' PROVE LockPart'
  <2>1. /\ \A v \in Workers : request.step = "LOCKED" => ~InTransaction(v)
        /\ request.step = "LOCKED" => EnrolledAdmins \subseteq request.rows
    BY <1>8, <1>3, <1>4, <1>5
  <2>2. /\ UNCHANGED <<user, factor>> /\ req'[w] = request
        /\ \A v \in Workers : v # w => req'[v] = req[v]
        /\ request.step \in {"WAITING", "LOCKED"}
    BY <1>1, <1>2, <1>3, <1>4, <1>5 DEF AccountTypeOK
  <2> QED
    BY <1>8, <2>1, <2>2, LockingKeepsLocks
<1> QED
  BY <1>6, <1>7, <1>8 DEF AccountInv

(* The lock is granted when the one transaction there was has ended.       *)
LEMMA GetLockStep ==
  ASSUME AccountInv, NEW w \in Workers, GetLock(w)
  PROVE  AccountInv' /\ (LockPart /\ ~Missed' => LockPart')
<1>1. AccountTypeOK /\ CreatePart
  BY DEF AccountInv
<1>2. req[w] \in Locking /\ req[w].step = "WAITING"
  BY <1>1, RequestFacts DEF GetLock, Waiting, AccountTypeOK
<1>3. PICK rows \in {req[w].rows, req[w].rows \intersect Admins} :
        /\ req' = [req EXCEPT ![w].step = "LOCKED", ![w].rows = rows]
        /\ UNCHANGED <<user, factor, confirming, begun>>
  BY DEF GetLock
<1> DEFINE request == [req[w] EXCEPT !.step = "LOCKED", !.rows = rows]
<1>4. req' = [req EXCEPT ![w] = request]
  BY <1>1, <1>2, <1>3 DEF AccountTypeOK, Locking
<1>5. request \in Request /\ request.step = "LOCKED" /\ request.rows = rows
  <2>1. rows \subseteq Users
    BY <1>2, <1>3 DEF Locking
  <2> QED
    BY <1>2, <2>1, RequestKinds DEF Locking
<1>6. LockPart => /\ \A v \in Workers : ~InTransaction(v)
                  /\ EnrolledAdmins \subseteq rows
  <2> SUFFICES ASSUME LockPart
               PROVE  /\ \A v \in Workers : ~InTransaction(v)
                      /\ EnrolledAdmins \subseteq rows
    OBVIOUS
  <2>1. EnrolledAdmins \subseteq req[w].rows
    BY WaitingFoundAll DEF LockPart, GetLock
  <2>2. ~InTransaction(w)
    BY <1>2 DEF InTransaction
  <2>3. \A v \in Workers : ~InTransaction(v)
    BY <2>1, <2>2, LockIsExclusive DEF GetLock
  <2> QED
    BY <1>3, <2>1, <2>3, EnrolledAreVested DEF Vested
<1> HIDE DEF request
<1>7. AccountTypeOK' /\ CreatePart'
  BY <1>1, <1>3, <1>4, <1>5, CreationKept DEF AccountTypeOK
<1>8. ASSUME LockPart, ~Missed' PROVE LockPart'
  <2>1. /\ \A v \in Workers : request.step = "LOCKED" => ~InTransaction(v)
        /\ request.step = "LOCKED" => EnrolledAdmins \subseteq request.rows
    BY <1>8, <1>5, <1>6
  <2>2. /\ UNCHANGED <<user, factor>> /\ req'[w] = request
        /\ \A v \in Workers : v # w => req'[v] = req[v]
        /\ request.step \in {"WAITING", "LOCKED"}
    BY <1>1, <1>3, <1>4, <1>5, <1>6 DEF AccountTypeOK
  <2> QED
    BY <1>8, <2>1, <2>2, LockingKeepsLocks
<1> QED
  BY <1>7, <1>8 DEF AccountInv

(* What passes the check leaves an enrolled administrator other than the   *)
(* one it is about.                                                        *)
LEMMA PermittedIsSafe ==
  ASSUME AccountTypeOK, AdminRemains, NEW change \in Change, Permitted(change)
  PROVE  Harmless(change) \/ EnrolledAdmins \ {change.target} # {}
<1> DEFINE u == change.target
<1>1. CASE u \notin EnrolledAdmins
  BY <1>1 DEF AdminRemains
<1>2. CASE u \in EnrolledAdmins /\ Threatens(change)
  <2>1. IsFiniteSet(EnrolledAdmins) /\ Cardinality(EnrolledAdmins) > 1
    BY <1>2, AccountAssumption, EnrolledAreVested, FS_Subset DEF Permitted, NotLast
  <2>2. EnrolledAdmins # {u}
    BY <2>1, FS_Singleton
  <2> QED
    BY <1>2, <2>2
<1>3. CASE u \in EnrolledAdmins /\ ~Threatens(change)
  <2>1. user[u].role = "ADMIN" /\ ~user[u].banned /\ factor[u] = "COMPLETE"
    BY <1>3 DEF EnrolledAdmins, ActiveAdmins, Admins
  <2>2. change.op = "UPDATE"
    BY <1>3, <2>1 DEF Threatens, Change
  <2> QED
    BY <1>3, <2>1, <2>2 DEF Threatens, Harmless
<1> QED
  BY <1>1, <1>2, <1>3

(* A request that goes on or leaves, without a change to the accounts.     *)
LEMMA CheckStep ==
  ASSUME AccountInv, NEW w \in Workers, Check(w) \/ RollBack(w)
  PROVE  AccountInv' /\ (LockPart /\ ~Missed' => LockPart')
<1>1. AccountTypeOK /\ CreatePart
  BY DEF AccountInv
<1>2. /\ req[w] \in Locking
      /\ Check(w) => InTransaction(w)
      /\ UNCHANGED <<user, factor, confirming, begun>>
  BY <1>1, RequestFacts DEF Check, RollBack, InTransaction, Waiting, AccountTypeOK
<1>3. PICK r \in Request :
        /\ req' = [req EXCEPT ![w] = r]
        /\ \/ r = Idle
           \/ /\ Check(w) /\ r.step = "CHECKED" /\ r.rows = req[w].rows
              /\ r.change = req[w].change /\ Permitted(r.change)
  <2>1. CASE req' = [req EXCEPT ![w] = Idle]
    BY <2>1 DEF Request
  <2>2. CASE Check(w) /\ Permitted(req[w].change)
    <3> DEFINE r == [req[w] EXCEPT !.step = "CHECKED"]
    <3>1. /\ r \in Request /\ r.step = "CHECKED" /\ r.rows = req[w].rows
          /\ r.change = req[w].change
      BY <1>2, RequestKinds DEF Locking
    <3> QED
      BY <2>2, <3>1 DEF Check
  <2> QED
    BY <2>1, <2>2 DEF Check, RollBack
<1>4. r.step \in {"IDLE", "CHECKED"}
  BY <1>3 DEF Idle
<1>5. AccountTypeOK' /\ CreatePart'
  BY <1>1, <1>2, <1>3, <1>4, CreationKept DEF AccountTypeOK
<1>6. /\ req'[w] = r
      /\ \A v \in Workers : v # w => req'[v] = req[v]
  BY <1>1, <1>3 DEF AccountTypeOK
<1>7. EnrolledAdmins' = EnrolledAdmins
  BY <1>2, AccountsKept
<1>8. \A v \in Workers : InTransaction(v)' =>
        InTransaction(v) /\ req'[v].rows = req[v].rows
  BY <1>2, <1>3, <1>4, <1>6 DEF InTransaction, Idle
<1>9. LockPart => AdminRemains' /\ LockSerializes'
  BY <1>7, <1>8 DEF LockPart, AdminRemains, LockSerializes
<1>10. LockPart => \A x \in Workers : InTransaction(x)' =>
         EnrolledAdmins' \intersect req'[x].rows # {}
  BY <1>7, <1>8 DEF LockPart
<1>11. LockPart /\ req'[w].step = "CHECKED" =>
         \/ Harmless(req'[w].change)
         \/ EnrolledAdmins' \ {req'[w].change.target} # {}
  <2>1. req[w].change \in Change
    BY <1>2 DEF Locking
  <2> QED
    BY <1>1, <1>3, <1>6, <1>7, <2>1, PermittedIsSafe DEF LockPart, Idle
<1>12. LockPart => \A x \in Workers : req'[x].step = "CHECKED" =>
         \/ Harmless(req'[x].change)
         \/ EnrolledAdmins' \ {req'[x].change.target} # {}
  BY <1>6, <1>7, <1>11 DEF LockPart
<1>13. LockPart /\ ~Missed' => LockPart'
  BY <1>9, <1>10, <1>12 DEF LockPart, Harmless
<1> QED
  BY <1>5, <1>13 DEF AccountInv

(* A commit takes away at most its target, and leaves an administrator.    *)
LEMMA CommitStep ==
  ASSUME AccountInv, NEW w \in Workers, Commit(w)
  PROVE  AccountInv' /\ (LockPart /\ ~Missed' => LockPart')
<1> DEFINE change == req[w].change
           u == change.target
<1>1. AccountTypeOK /\ CreatePart
  BY DEF AccountInv
<1>2. /\ req[w] \in Locking /\ req[w].step = "CHECKED" /\ InTransaction(w)
      /\ req' = [req EXCEPT ![w] = Idle] /\ UNCHANGED <<confirming, begun>>
      /\ user[u].state # "NONE"
      /\ user' = [user EXCEPT ![u] = Changed(user[u], change)]
      /\ factor' \in {factor, [factor EXCEPT ![u] = "NONE"]}
      /\ factor' = factor \/ change.op = "RESET"
  BY <1>1, RequestFacts DEF Commit, InTransaction, AccountTypeOK
<1>3. change \in Change /\ u \in Users
  BY <1>2 DEF Locking, Change
<1>4. /\ Changed(user[u], change) \in UserRow
      /\ Changed(user[u], change).state = user[u].state
      /\ Harmless(change) =>
           /\ user[u].role = "ADMIN" => Changed(user[u], change).role = "ADMIN"
           /\ ~user[u].banned => ~Changed(user[u], change).banned
           /\ Changed(user[u], change).deleted = user[u].deleted
  <2>1. user[u] \in UserRow
    BY <1>1, <1>3 DEF AccountTypeOK
  <2>2. CASE change.op = "UPDATE"
    <3>1. change.role \in UserRole \union {"KEEP"}
      BY <1>3, <2>2 DEF Change
    <3> QED
      BY <2>1, <2>2, <3>1 DEF Changed, UserRow, Harmless
  <2>3. CASE change.op = "REMOVE"
    BY <2>1, <2>3 DEF Changed, UserRow, Harmless
  <2>4. CASE change.op = "RESET"
    BY <2>1, <2>4 DEF Changed, UserRow, Harmless
  <2> QED
    BY <1>3, <2>2, <2>3, <2>4 DEF Change
<1>5. AccountTypeOK'
  BY <1>1, <1>2, <1>3, <1>4 DEF AccountTypeOK, Factor, Request
<1>6. /\ user'[u] = Changed(user[u], change)
      /\ \A x \in Users : x # u => user'[x] = user[x] /\ factor'[x] = factor[x]
      /\ \A x \in Users : factor'[x] = factor[x] \/ factor'[x] = "NONE"
      /\ req'[w] = Idle
      /\ \A v \in Workers : v # w => req'[v] = req[v]
  BY <1>1, <1>2, <1>3 DEF AccountTypeOK
<1>7. Idle.step = "IDLE"
  BY DEF Idle
<1>8. \A v \in Workers : req'[v].step = "CREATING" =>
        req'[v] = req[v] /\ req[v].target \in Users
  BY <1>1, <1>6, <1>7, RequestFacts DEF AccountTypeOK, Creating
<1>9. \A x \in Users : user'[x].state = user[x].state
  BY <1>4, <1>6
<1>10. \A x \in Users : user[x].state = "NONE" => user'[x] = user[x]
  BY <1>2, <1>6
<1> HIDE DEF u, change
<1>11. CreatePart'
  BY <1>1, <1>6, <1>8, <1>9, <1>10 DEF CreatePart
<1>12. LockPart => AdminRemains'
  <2>1. CASE Harmless(change)
    <3>1. factor' = factor
      BY <1>2, <2>1 DEF Harmless
    <3>2. EnrolledAdmins \subseteq EnrolledAdmins'
      BY <1>4, <1>6, <1>9, <2>1, <3>1 DEF EnrolledAdmins, ActiveAdmins, Admins
    <3> QED
      BY <3>2 DEF LockPart, AdminRemains
  <2>2. CASE LockPart /\ ~Harmless(change)
    <3>1. PICK e \in EnrolledAdmins : e # u
      BY <1>2, <2>2 DEF LockPart, u, change
    <3>2. e \in EnrolledAdmins'
      BY <1>6, <3>1 DEF EnrolledAdmins, ActiveAdmins, Admins
    <3> QED
      BY <3>2 DEF AdminRemains
  <2> QED
    BY <2>1, <2>2
<1>13. LockPart => \A v \in Workers : InTransaction(v) => v = w
  BY <1>2 DEF LockPart, LockSerializes
<1>14. LockPart => \A v \in Workers : ~InTransaction(v)' /\ req'[v].step # "CHECKED"
  BY <1>6, <1>7, <1>13 DEF InTransaction
<1>15. LockPart /\ ~Missed' => LockPart'
  BY <1>12, <1>14 DEF LockPart, LockSerializes
<1> QED
  BY <1>5, <1>11, <1>15 DEF AccountInv

(* Every step of the accounts, and what it does to the locks while no      *)
(* query that waits has missed anybody.                                    *)
LEMMA AccountStep ==
  ASSUME AccountInv, [AccountNext]_accountVars
  PROVE  AccountInv' /\ (LockPart /\ ~Missed' => LockPart')
<1>1. CASE UNCHANGED accountVars
  BY <1>1 DEF accountVars, AccountInv, AccountTypeOK, CreatePart, LockPart,
     AdminRemains, LockSerializes, InTransaction, EnrolledAdmins,
     ActiveAdmins, Admins
<1> QED
  BY <1>1, PersonStep, SignUpStep, FinishStep, LockStep, GetLockStep,
     CheckStep, CommitStep DEF AccountNext

LEMMA WatchInvariant == WatchSpec => []WatchInv
<1>1. WatchInv /\ [WatchNext]_watchVars => WatchInv'
  <2> SUFFICES ASSUME WatchInv, [WatchNext]_watchVars PROVE WatchInv'
    OBVIOUS
  <2>1. CASE WatchNext
    BY <2>1, AccountStep DEF WatchInv, WatchNext
  <2>2. CASE UNCHANGED watchVars
    <3>1. UNCHANGED accountVars /\ overtaken' = overtaken
      BY <2>2 DEF watchVars
    <3>2. Missed' = Missed
      BY <3>1 DEF accountVars, Missed, Waiting, Vested, Admins
    <3> QED
      BY <3>1, <3>2, AccountStep DEF WatchInv, LockPart
  <2> QED
    BY <2>1, <2>2
<1>2. WatchInit => WatchInv
  BY InvInit DEF WatchInit, WatchInv
<1> QED
  BY <1>1, <1>2, PTL DEF WatchSpec

(* Users, enrolments and requests keep their types.                        *)
THEOREM AccountTypeCorrect == AccountSpec => []AccountTypeOK
<1>1. AccountInit => AccountInv
  BY InvInit
<1>2. AccountInv /\ [AccountNext]_accountVars => AccountInv'
  BY AccountStep
<1>3. AccountInv => AccountTypeOK
  BY DEF AccountInv
<1> QED
  BY <1>1, <1>2, <1>3, PTL DEF AccountSpec

(* An active enrolled administrator always remains, however many changes   *)
(* wait for each other and run beside each other, as long as no            *)
(* administrator is added while one of them waits.                         *)
THEOREM AdminRemainsCorrect == WatchSpec => []AdminRemainsUnlessOvertaken
<1>1. WatchInv => AdminRemainsUnlessOvertaken
  BY DEF WatchInv, LockPart, AdminRemainsUnlessOvertaken
<1> QED
  BY <1>1, WatchInvariant, PTL

(* Under the same condition no two changes are between their lock and      *)
(* their commit.                                                           *)
THEOREM LockSerializesCorrect == WatchSpec => []LockSerializesUnlessOvertaken
<1>1. WatchInv => LockSerializesUnlessOvertaken
  BY DEF WatchInv, LockPart, LockSerializesUnlessOvertaken
<1> QED
  BY <1>1, WatchInvariant, PTL
=============================================================================
