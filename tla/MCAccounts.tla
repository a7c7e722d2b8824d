----------------------------- MODULE MCAccounts -----------------------------
(***************************************************************************)
(* Instances of Accounts for TLC: the last two administrators, and one     *)
(* with somebody who can be promoted, beside an account that may be        *)
(* created; and one administrator with two who are promoted.  Users and    *)
(* requests are interchangeable.                                           *)
(***************************************************************************)
EXTENDS AccountWatch, TLC

Established == {{"ADMIN"}, {"ADMIN", "OFFICE"}}

MCAccountInit ==
  /\ WatchInit
  /\ {user[u].role : u \in {x \in Users : user[x] # NoUser}} \in Established
  /\ Cardinality({u \in Users : user[u] # NoUser}) = Cardinality(Users) - 1
  /\ \A u \in Users : user[u] # NoUser => factor[u] = "COMPLETE"

MCAccountSpec == MCAccountInit /\ [][WatchNext]_watchVars

Interchangeable == Permutations(Users) \union Permutations(Workers)

-----------------------------------------------------------------------------
(* Nothing but changes of roles, none of which fails.                      *)

OneAdmin ==
  /\ WatchInit
  /\ \A u \in Users : user[u].role \in {"ADMIN", "OFFICE"} /\ factor[u] = "COMPLETE"
  /\ Cardinality(Admins) = 1

RoleChange == {c \in Change : c.op = "UPDATE" /\ c.banned = "KEEP"}

ChangeRoles ==
  /\ \E w \in Workers :
       \/ \E change \in RoleChange : LockAdminRows(w, change)
       \/ GetLock(w) \/ Check(w) \/ Commit(w)
  /\ overtaken' = (overtaken \/ Missed')

RoleChangeSpec == OneAdmin /\ [][ChangeRoles]_watchVars
=============================================================================
