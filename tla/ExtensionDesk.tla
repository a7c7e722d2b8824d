--------------------------- MODULE ExtensionDesk ---------------------------
(***************************************************************************)
(* The extensions of a loan, served by a desk that has so many requests in *)
(* progress at once: the number is chosen in the initial state.  What the  *)
(* code keeps only when requests do not overlap is stated of the desk that *)
(* serves one after the other.                                             *)
(***************************************************************************)
EXTENDS BorrowExtension

CONSTANT Loads  \* numbers of requests a desk may have in progress

ASSUME LoadAssumption == Loads \subseteq Nat

VARIABLE atOnce  \* bound: requests in progress

deskVars == <<extensionVars, atOnce>>

Others(w) == {v \in Workers \ {w} : request[v] # NoRequest}

DeskInit == ExtensionInit /\ atOnce \in Loads

DeskNext ==
  /\ \E w \in Workers : ExtensionStep(w) /\ Cardinality(Others(w)) < atOnce
  /\ UNCHANGED atOnce

DeskSpec == DeskInit /\ [][DeskNext]_deskVars

(* One request after the other keeps the history of the loan: count,       *)
(* rounds, dates and the one pending request agree.                        *)
HistoryKeptInTurn == atOnce = 1 => HistoryKept

(* One request after the other moves the due date later or not at all, and *)
(* counts each move as one extension.  Of two that overlap, the later      *)
(* write may bring the date forward again.                                 *)
ExtendsInTurn ==
  [][atOnce = 1 =>
       \/ UNCHANGED <<borrow.due, borrow.count>>
       \/ borrow'.due > borrow.due /\ borrow'.count = borrow.count + 1]_deskVars
=============================================================================
