---------------------------- MODULE RepairOffice ----------------------------
(***************************************************************************)
(* The repair workflow of an office that has so many requests in progress, *)
(* tickets open and plans per ticket: the numbers are chosen in the        *)
(* initial state.  What the code keeps only when requests do not overlap   *)
(* is stated of the office that serves one after the other.                *)
(***************************************************************************)
EXTENDS RepairWorkflow

CONSTANT Offices  \* the offices there are

ASSUME OfficeAssumption ==
  Offices \subseteq [requests : Nat, tickets : Nat, plans : Nat]

VARIABLE office  \* bounds: requests in progress, tickets, plans per ticket

officeVars == <<repairVars, office>>

Within ==
  /\ Cardinality({w \in Workers : req[w] # NoReq}) <= office.requests
  /\ Cardinality({j \in Jobs : job[j].status # "NONE"}) <= office.tickets
  /\ \A j \in Jobs : job[j].plan <= office.plans

OfficeInit == RepairInit /\ office \in Offices

OfficeNext ==
  /\ \E w \in Workers : ReadStage(w) \/ CommitStage(w)
  /\ UNCHANGED office
  /\ Within'

OfficeSpec == OfficeInit /\ [][OfficeNext]_officeVars

OneAtATime == office.requests = 1

(* One request after the other keeps the stock ledger exact, and no ticket *)
(* gives back more parts than it took.                                     *)
PartsAccountedInTurn ==
  OneAtATime => LedgerBalanced /\ ReturnedWithinWithdrawn

(* One request after the other, a refused plan has not been passed.        *)
RejectedPlanCanBeRediagnosedInTurn == OneAtATime => RejectedPlanCanBeRediagnosed

handed == [j \in Jobs |-> Withdrawn(line[j])]

Ledger == INSTANCE PartsLedger

(* One request after the other implements the ledger of parts: diagnosing  *)
(* again, rejecting, cancelling and completing leave it alone, the         *)
(* hand-over enters it once and finds the parts in stock.                  *)
KeepsLedgerInTurn == OneAtATime => Ledger!Spec

(* One request after the other never promises a part that is not there.    *)
StockSufficesInTurn == OneAtATime => stock >= 0

(* One request after the other, the status and the plan of a completed     *)
(* ticket never change again.  Those of a cancelled one may: its steps can *)
(* still be completed (see OneActiveJob).                                  *)
CompletedIsFinalInTurn ==
  [][OneAtATime => \A j \in Jobs :
       job[j].status = "COMPLETED" => job'[j] = job[j]]_officeVars
=============================================================================
