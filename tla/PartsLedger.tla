----------------------------- MODULE PartsLedger -----------------------------
(***************************************************************************)
(* What the repair office promises of spare parts, without plans, steps or *)
(* requests: a ticket is handed parts once, out of a stock that has them   *)
(* or bought outside; it gives back no more than it was handed; and what   *)
(* was handed out or given back stays on record.                           *)
(***************************************************************************)
EXTENDS Integers

CONSTANTS Jobs, InitStock

VARIABLES stock,    \* parts in stock
          handed,   \* parts handed to each ticket
          returned  \* parts each ticket gave back

vars == <<stock, handed, returned>>

Init ==
  /\ stock = InitStock
  /\ handed = [j \in Jobs |-> 0]
  /\ returned = [j \in Jobs |-> 0]

HandOut(j, n) ==
  /\ handed[j] = 0
  /\ handed' = [handed EXCEPT ![j] = n]
  /\ UNCHANGED returned

FromStock(j, n) ==
  /\ n <= stock
  /\ HandOut(j, n)
  /\ stock' = stock - n

BoughtOutside(j, n) == HandOut(j, n) /\ UNCHANGED stock

GiveBack(j, n) ==
  /\ returned[j] + n <= handed[j]
  /\ returned' = [returned EXCEPT ![j] = @ + n]
  /\ stock' = stock + n
  /\ UNCHANGED handed

Next ==
  \E j \in Jobs, n \in Nat \ {0} :
    FromStock(j, n) \/ BoughtOutside(j, n) \/ GiveBack(j, n)

Spec == Init /\ [][Next]_vars
=============================================================================
