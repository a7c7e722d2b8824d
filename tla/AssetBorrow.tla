---------------------------- MODULE AssetBorrow ----------------------------
(***************************************************************************)
(* The loans of one asset: asset-borrow.service.ts.                        *)
(*                                                                         *)
(* Every handler of the service reads its loan inside its transaction and  *)
(* writes with updateMany(where: the status it read), so what it read is   *)
(* still true when it writes or it throws and nothing changes.  Each       *)
(* handler is therefore one atomic step.                                   *)
(***************************************************************************)
EXTENDS HospitalAsset

CONSTANT Loans       \* ids of the borrow transactions that may be created

VARIABLE loan        \* loan[l]: status code of l, "NONE" before it exists

borrowVars == <<asset, loan>>

Requested  == {"PENDING_APPROVE", "APPROVED"}
Returning  == {"PENDING_RETURN", "IN_PICKUP"}
Terminal   == {"RETURNED", "REJECTED", "CANCELLED"}
Open       == Requested \union {"BORROWED"} \union Returning
BorrowStatus == {"NONE"} \union Open \union Terminal

OpenLoans == {l \in Loans : loan[l] \in Open}

MoveLoan(l, from, to) ==
  /\ loan[l] \in from
  /\ loan' = [loan EXCEPT ![l] = to]

BorrowInit ==
  /\ asset = LendableAsset
  /\ loan = [l \in Loans |-> "NONE"]

\* Mutant: the status code CONTEXT.md gives a new request, which the table
\* borrow_statuses does not hold.
CreateBorrowAsDocumented(l, source) ==
  /\ asset = LendableAsset
  /\ MoveAvailability("AVAILABLE", "RESERVED")
  /\ MoveLoan(l, {"NONE"}, "PENDING_APPROVAL")

(***************************************************************************)
(* createBorrow: a self-service request reserves the asset, the desk of    *)
(* the asset centre hands it over at once.                                 *)
(***************************************************************************)
CreateBorrow(l, source) ==
  /\ asset.status = "NORMAL"
  /\ CASE source = "SELF_SERVICE" ->
            /\ MoveAvailability("AVAILABLE", "RESERVED")
            /\ MoveLoan(l, {"NONE"}, "PENDING_APPROVE")
       [] source = "CENTER_SERVICE" ->
            /\ MoveAvailability("AVAILABLE", "BORROWED")
            /\ MoveLoan(l, {"NONE"}, "BORROWED")

ApproveBorrow(l) ==
  /\ MoveLoan(l, {"PENDING_APPROVE"}, "APPROVED")
  /\ UNCHANGED asset

HandoverAsset(l) ==
  /\ MoveLoan(l, {"APPROVED"}, "BORROWED")
  /\ MoveAvailability("RESERVED", "BORROWED")

RejectBorrow(l) ==
  /\ MoveLoan(l, {"PENDING_APPROVE"}, "REJECTED")
  /\ MoveAvailability("RESERVED", "AVAILABLE")

\* Mutant: the reservation is forgotten.
CancelBorrowKeepsAsset(l, isStaffOverride) ==
  /\ MoveLoan(l, Requested, "CANCELLED")
  /\ UNCHANGED asset

\* Only staff may withdraw a request that has been approved.
CancelBorrow(l, isStaffOverride) ==
  /\ MoveLoan(l, IF isStaffOverride THEN Requested ELSE {"PENDING_APPROVE"},
              "CANCELLED")
  /\ MoveAvailability("RESERVED", "AVAILABLE")

\* Mutant: the asset is offered again before it has been picked up.
RequestReturnFreesAsset(l) ==
  /\ MoveLoan(l, {"BORROWED"}, "PENDING_RETURN")
  /\ MoveAvailability("BORROWED", "AVAILABLE")

\* The borrower asks for a pickup: the asset is locked as UNAVAILABLE.
RequestReturn(l) ==
  /\ MoveLoan(l, {"BORROWED"}, "PENDING_RETURN")
  /\ MoveAvailability("BORROWED", "UNAVAILABLE")

ClaimPickup(l) ==
  /\ MoveLoan(l, {"PENDING_RETURN"}, "IN_PICKUP")
  /\ UNCHANGED asset

(***************************************************************************)
(* completeReturn closes a pickup.  Its write of the asset names only the  *)
(* id: whatever the row holds is overwritten.                              *)
(***************************************************************************)
CompleteReturn(l, condition) ==
  /\ MoveLoan(l, Returning, "RETURNED")
  /\ asset' = IF condition = "Normal" THEN LendableAsset
                                      ELSE Row("DAMAGED", "UNAVAILABLE")

\* returnAsset: a return over the desk, without a pickup.
ReturnAsset(l, condition) ==
  /\ MoveLoan(l, {"BORROWED"}, "RETURNED")
  /\ asset.avail = "BORROWED"
  /\ asset' = IF condition = "Normal"
              THEN [asset EXCEPT !.avail = "AVAILABLE"]
              ELSE Row("DAMAGED", "UNAVAILABLE")

LoanStep(l) ==
  \/ \E source \in {"SELF_SERVICE", "CENTER_SERVICE"} : CreateBorrow(l, source)
  \/ ApproveBorrow(l)
  \/ HandoverAsset(l)
  \/ RejectBorrow(l)
  \/ \E isStaffOverride \in BOOLEAN : CancelBorrow(l, isStaffOverride)
  \/ RequestReturn(l)
  \/ ClaimPickup(l)
  \/ \E condition \in {"Normal", "Damage"} :
        CompleteReturn(l, condition) \/ ReturnAsset(l, condition)

BorrowNext == \E l \in Loans : LoanStep(l)

BorrowSpec == BorrowInit /\ [][BorrowNext]_borrowVars

----------------------------------------------------------------------------
(* Type correctness of the two rows. *)
BorrowTypeOK ==
  /\ asset \in AssetRow
  /\ loan \in [Loans -> BorrowStatus]

(* The asset is promised to at most one borrower: the guards of all nine   *)
(* handlers together keep a second loan from opening before the first one  *)
(* is closed.                                                              *)
AtMostOneOpenLoan ==
  \A k, l \in OpenLoans : k = l

(* The availability column follows the loans, as the nine handlers write   *)
(* it: reserved exactly while a request is pending or approved, borrowed   *)
(* exactly while a loan is handed over and no return has been asked for,   *)
(* lendable only when no loan is open.  While a return awaits its pickup   *)
(* or verification the column is thus UNAVAILABLE, which is the rule of    *)
(* the code (requestReturn) and not of CONTEXT.md:237, where it stays      *)
(* BORROWED until the return is verified; GhostAvailability.cfg shows what *)
(* follows from that.                                                      *)
AvailabilityMirrorsLoans ==
  /\ asset.avail = "RESERVED" <=> \E l \in Loans : loan[l] \in Requested
  /\ asset.avail = "BORROWED" <=> \E l \in Loans : loan[l] = "BORROWED"
  /\ asset.avail = "AVAILABLE" => OpenLoans = {}
  /\ asset.status # "NORMAL" => OpenLoans = {}

----------------------------------------------------------------------------
(***************************************************************************)
(* The refinement mapping to AssetCustody: the custodian's view.           *)
(***************************************************************************)
CustodyPhase ==
  IF asset.status # "NORMAL" THEN "OUT_OF_SERVICE"
  ELSE CASE asset.avail = "AVAILABLE"   -> "IDLE"
         [] asset.avail = "RESERVED"    -> "PROMISED"
         [] asset.avail = "BORROWED"    -> "OUT"
         [] asset.avail = "UNAVAILABLE" -> "COMING_BACK"

Custody == INSTANCE AssetCustody
             WITH Borrowers <- Loans,
                  holders   <- OpenLoans,
                  phase     <- CustodyPhase,
                  served    <- {l \in Loans : loan[l] \in Terminal}

(* The loan workflow implements exclusive custody: one holder at a time,   *)
(* who gets the equipment before giving it back and never holds it again   *)
(* under the same loan.                                                    *)
ImplementsCustody == Custody!Spec
=============================================================================
