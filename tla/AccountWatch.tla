---------------------------- MODULE AccountWatch ----------------------------
(***************************************************************************)
(* How far the lock of the ADMIN rows protects the last administrator.     *)
(*                                                                         *)
(* The locks of two transactions exclude each other as long as every query *)
(* that waits has found whoever is an administrator by then.  A history    *)
(* variable records that one did not: somebody was promoted, or completed  *)
(* the enrolment after a promotion, while the query was waiting.           *)
(***************************************************************************)
EXTENDS Accounts

VARIABLE overtaken  \* a lock query has waited while an administrator was added

watchVars == <<accountVars, overtaken>>

\* An ADMIN with a completed enrolment, disabled and deleted ones included.
Vested(u) == u \in Admins /\ factor[u] = "COMPLETE"

\* A query that waits has not found this one.
Missed ==
  \E w \in Workers, u \in Users : Waiting(w) /\ Vested(u) /\ u \notin req[w].rows

WatchInit == AccountInit /\ overtaken = FALSE

WatchNext == AccountNext /\ overtaken' = (overtaken \/ Missed')

WatchSpec == WatchInit /\ [][WatchNext]_watchVars

-----------------------------------------------------------------------------
\* The last active enrolled administrator survives any number of demotions,
\* deletions, bans and resets beside each other (assertNotLastActiveEnrolledAdmin
\* under lockAdminRows), unless an administrator was added while a lock query
\* was waiting.
AdminRemainsUnlessOvertaken == overtaken \/ AdminRemains

\* With the same exception, no two changes are between lock and commit, however
\* many of them wait: the count of one is not taken beside another's change.
LockSerializesUnlessOvertaken == overtaken \/ LockSerializes
=============================================================================
