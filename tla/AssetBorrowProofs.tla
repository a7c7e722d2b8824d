-------------------------- MODULE AssetBorrowProofs --------------------------
(***************************************************************************)
(* Proofs about the loan workflow, for any set of loans: type correctness, *)
(* the two safety invariants, and the refinement of AssetCustody.          *)
(***************************************************************************)
EXTENDS AssetBorrow, TLAPS

USE DEF AssetStatus, AvailabilityStatus, AssetRow, Row, LendableAsset

----------------------------------------------------------------------------
(* The handlers keep both rows within their types.                         *)
LEMMA BorrowTypeStep ==
  ASSUME BorrowTypeOK, [BorrowNext]_borrowVars
  PROVE  BorrowTypeOK'
<1> USE DEF BorrowTypeOK, BorrowStatus, Open, Requested, Returning, Terminal,
            MoveLoan, MoveAvailability
<1>1. ASSUME NEW l \in Loans, LoanStep(l)
      PROVE  BorrowTypeOK'
  <2>1. CASE \E source \in {"SELF_SERVICE", "CENTER_SERVICE"} :
               CreateBorrow(l, source)
    BY <2>1 DEF CreateBorrow
  <2>2. CASE ApproveBorrow(l)
    BY <2>2 DEF ApproveBorrow
  <2>3. CASE HandoverAsset(l)
    BY <2>3 DEF HandoverAsset
  <2>4. CASE RejectBorrow(l)
    BY <2>4 DEF RejectBorrow
  <2>5. CASE \E isStaffOverride \in BOOLEAN : CancelBorrow(l, isStaffOverride)
    BY <2>5 DEF CancelBorrow
  <2>6. CASE RequestReturn(l)
    BY <2>6 DEF RequestReturn
  <2>7. CASE ClaimPickup(l)
    BY <2>7 DEF ClaimPickup
  <2>8. CASE \E condition \in {"Normal", "Damage"} : CompleteReturn(l, condition)
    BY <2>8 DEF CompleteReturn
  <2>9. CASE \E condition \in {"Normal", "Damage"} : ReturnAsset(l, condition)
    BY <2>9 DEF ReturnAsset
  <2> QED
    BY <1>1, <2>1, <2>2, <2>3, <2>4, <2>5, <2>6, <2>7, <2>8, <2>9 DEF LoanStep
<1>2. CASE UNCHANGED borrowVars
  BY <1>2 DEF borrowVars
<1> QED
  BY <1>1, <1>2 DEF BorrowNext

(* Both rows stay within their types in every behaviour.                   *)
THEOREM BorrowTypeCorrect == BorrowSpec => []BorrowTypeOK
<1>1. BorrowInit => BorrowTypeOK
  BY DEF BorrowInit, BorrowTypeOK, BorrowStatus
<1>2. BorrowTypeOK /\ [BorrowNext]_borrowVars => BorrowTypeOK'
  BY BorrowTypeStep
<1> QED
  BY <1>1, <1>2, PTL DEF BorrowSpec

----------------------------------------------------------------------------
(***************************************************************************)
(* The inductive invariant.  Neither invariant is inductive by itself: a   *)
(* second loan is kept out by the availability column, and a handler may   *)
(* move that column because no other loan is open.                         *)
(***************************************************************************)
BorrowInv == BorrowTypeOK /\ AtMostOneOpenLoan /\ AvailabilityMirrorsLoans

(* An open loan is the only one, on an asset in good order, and the        *)
(* availability tells which stage it has reached.                          *)
LEMMA OpenLoanOwnsAsset ==
  ASSUME BorrowInv, NEW l \in Loans, loan[l] \in Open
  PROVE  /\ \A k \in Loans : loan[k] \in Open => k = l
         /\ asset.status = "NORMAL"
         /\ asset.avail = IF loan[l] \in Requested THEN "RESERVED"
                          ELSE IF loan[l] = "BORROWED" THEN "BORROWED"
                          ELSE "UNAVAILABLE"
<1>1. l \in OpenLoans
  BY DEF OpenLoans
<1>2. \A k \in Loans : loan[k] \in Open => k = l
  BY <1>1 DEF BorrowInv, AtMostOneOpenLoan, OpenLoans
<1>3. asset.status = "NORMAL" /\ asset.avail # "AVAILABLE"
  BY <1>1 DEF BorrowInv, AvailabilityMirrorsLoans
<1>4. asset.avail \in AvailabilityStatus
  BY DEF BorrowInv, BorrowTypeOK
<1>5. CASE loan[l] \in Requested
  BY <1>2, <1>3, <1>5 DEF BorrowInv, AvailabilityMirrorsLoans
<1>6. CASE loan[l] = "BORROWED"
  BY <1>2, <1>3, <1>6 DEF BorrowInv, AvailabilityMirrorsLoans, Requested
<1>7. CASE loan[l] \in Returning
  <2>1. \A k \in Loans : loan[k] \notin Requested /\ loan[k] # "BORROWED"
    BY <1>2, <1>7 DEF Open, Requested, Returning
  <2> QED
    BY <1>2, <1>3, <1>4, <1>7, <2>1
       DEF BorrowInv, AvailabilityMirrorsLoans, Requested, Returning
<1> QED
  BY <1>2, <1>3, <1>5, <1>6, <1>7 DEF Open

(* When only one loan may be open after a step, the invariant holds if the *)
(* asset tells the stage of that loan.                                     *)
LEMMA OnlyLoanSuffices ==
  ASSUME BorrowTypeOK', NEW l \in Loans,
         \A k \in Loans : loan'[k] \in Open => k = l,
         loan'[l] \in Open => asset'.status = "NORMAL",
         asset'.avail = "RESERVED" <=> loan'[l] \in Requested,
         asset'.avail = "BORROWED" <=> loan'[l] = "BORROWED",
         asset'.avail = "AVAILABLE" => loan'[l] \notin Open
  PROVE  BorrowInv'
<1>1. AtMostOneOpenLoan'
  BY DEF AtMostOneOpenLoan, OpenLoans
<1>2. AvailabilityMirrorsLoans'
  BY DEF AvailabilityMirrorsLoans, OpenLoans, Open
<1> QED
  BY <1>1, <1>2 DEF BorrowInv

LEMMA BorrowInvStep ==
  ASSUME BorrowInv, [BorrowNext]_borrowVars
  PROVE  BorrowInv'
<1>1. BorrowTypeOK'
  BY BorrowTypeStep DEF BorrowInv
<1>2. loan \in [Loans -> BorrowStatus] /\ asset \in AssetRow
  BY DEF BorrowInv, BorrowTypeOK
<1>3. ASSUME NEW l \in Loans, LoanStep(l)
      PROVE  BorrowInv'
  <2> USE DEF MoveLoan, MoveAvailability, Open, Requested, Returning, Terminal
  <2>1. CASE \E source \in {"SELF_SERVICE", "CENTER_SERVICE"} :
               CreateBorrow(l, source)
    <3>1. \A k \in Loans : loan[k] \notin Open
      BY <2>1 DEF CreateBorrow, BorrowInv, AvailabilityMirrorsLoans, OpenLoans
    <3> QED
      BY <1>1, <1>2, <2>1, <3>1, OnlyLoanSuffices DEF CreateBorrow
  <2>2. CASE ApproveBorrow(l)
    BY <1>1, <1>2, <2>2, OpenLoanOwnsAsset, OnlyLoanSuffices DEF ApproveBorrow
  <2>3. CASE HandoverAsset(l)
    BY <1>1, <1>2, <2>3, OpenLoanOwnsAsset, OnlyLoanSuffices DEF HandoverAsset
  <2>4. CASE RejectBorrow(l)
    BY <1>1, <1>2, <2>4, OpenLoanOwnsAsset, OnlyLoanSuffices DEF RejectBorrow
  <2>5. CASE \E isStaffOverride \in BOOLEAN : CancelBorrow(l, isStaffOverride)
    BY <1>1, <1>2, <2>5, OpenLoanOwnsAsset, OnlyLoanSuffices DEF CancelBorrow
  <2>6. CASE RequestReturn(l)
    BY <1>1, <1>2, <2>6, OpenLoanOwnsAsset, OnlyLoanSuffices DEF RequestReturn
  <2>7. CASE ClaimPickup(l)
    BY <1>1, <1>2, <2>7, OpenLoanOwnsAsset, OnlyLoanSuffices DEF ClaimPickup
  <2>8. CASE \E condition \in {"Normal", "Damage"} : CompleteReturn(l, condition)
    BY <1>1, <1>2, <2>8, OpenLoanOwnsAsset, OnlyLoanSuffices DEF CompleteReturn
  <2>9. CASE \E condition \in {"Normal", "Damage"} : ReturnAsset(l, condition)
    BY <1>1, <1>2, <2>9, OpenLoanOwnsAsset, OnlyLoanSuffices DEF ReturnAsset
  <2> QED
    BY <1>3, <2>1, <2>2, <2>3, <2>4, <2>5, <2>6, <2>7, <2>8, <2>9 DEF LoanStep
<1>4. CASE UNCHANGED borrowVars
  BY <1>4 DEF borrowVars, BorrowInv, BorrowTypeOK, AtMostOneOpenLoan,
              AvailabilityMirrorsLoans, OpenLoans
<1> QED
  BY <1>3, <1>4 DEF BorrowNext

LEMMA BorrowInvariant == BorrowSpec => []BorrowInv
<1>1. BorrowInit => BorrowInv
  BY DEF BorrowInit, BorrowInv, BorrowTypeOK, AtMostOneOpenLoan, OpenLoans,
         AvailabilityMirrorsLoans, BorrowStatus, Open, Requested, Returning
<1>2. BorrowInv /\ [BorrowNext]_borrowVars => BorrowInv'
  BY BorrowInvStep
<1> QED
  BY <1>1, <1>2, PTL DEF BorrowSpec

(* The asset is promised to one borrower at a time, however many requests  *)
(* there are.                                                              *)
THEOREM OneBorrowerAtATime == BorrowSpec => []AtMostOneOpenLoan
  BY BorrowInvariant, PTL DEF BorrowInv

(* The availability column and the loans never disagree.                   *)
THEOREM AvailabilityIsExact == BorrowSpec => []AvailabilityMirrorsLoans
  BY BorrowInvariant, PTL DEF BorrowInv

----------------------------------------------------------------------------
(***************************************************************************)
(* Refinement.  A handler opens a loan (Promise), hands it over (Deliver), *)
(* starts the pickup (StartReturn), closes it (EndClaim), or moves a loan  *)
(* between two statuses the custodian does not tell apart.                 *)
(***************************************************************************)
LEMMA CustodyStep ==
  ASSUME BorrowInv, [BorrowNext]_borrowVars
  PROVE  [Custody!Next]_Custody!vars
<1> USE DEF MoveLoan, MoveAvailability, Open, Requested, Returning, Terminal
<1> DEFINE served == {l \in Loans : loan[l] \in Terminal}
<1>1. loan \in [Loans -> BorrowStatus] /\ asset \in AssetRow
  BY DEF BorrowInv, BorrowTypeOK
<1>2. ASSUME NEW l \in Loans, loan[l] \in Open, loan'[l] \in Terminal,
             loan' = [loan EXCEPT ![l] = loan'[l]],
             \/ CustodyPhase = "PROMISED" /\ CustodyPhase' = "IDLE"
             \/ /\ CustodyPhase \in {"OUT", "COMING_BACK"}
                /\ CustodyPhase' \in {"IDLE", "OUT_OF_SERVICE"}
      PROVE  Custody!EndClaim(l)
  <2>1. OpenLoans = {l}
    BY <1>2, OpenLoanOwnsAsset DEF OpenLoans
  <2>2. OpenLoans' = {}
    BY <1>1, <1>2, <2>1 DEF OpenLoans
  <2>3. served' = served \union {l}
    BY <1>1, <1>2
  <2> QED
    BY <1>2, <2>1, <2>2, <2>3 DEF Custody!EndClaim
<1>3. ASSUME NEW l \in Loans, loan[l] \in Open, loan'[l] \in Open,
             loan' = [loan EXCEPT ![l] = loan'[l]]
      PROVE  OpenLoans' = OpenLoans /\ served' = served
  BY <1>1, <1>3 DEF OpenLoans
<1>4. ASSUME NEW l \in Loans, LoanStep(l)
      PROVE  Custody!Next \/ UNCHANGED Custody!vars
  <2>1. CASE \E source \in {"SELF_SERVICE", "CENTER_SERVICE"} :
               CreateBorrow(l, source)
    <3>1. loan[l] = "NONE" /\ OpenLoans = {} /\ CustodyPhase = "IDLE"
      BY <2>1 DEF CreateBorrow, BorrowInv, AvailabilityMirrorsLoans, CustodyPhase
    <3>2. OpenLoans' = {l} /\ served' = served /\ l \notin served
      BY <1>1, <2>1, <3>1 DEF CreateBorrow, OpenLoans
    <3>3. CustodyPhase' \in {"PROMISED", "OUT"}
      BY <1>1, <2>1 DEF CreateBorrow, CustodyPhase
    <3>4. Custody!Promise(l)
      BY <3>1, <3>2, <3>3 DEF Custody!Promise
    <3> QED
      BY <3>4 DEF Custody!Next
  <2>2. CASE ApproveBorrow(l) \/ ClaimPickup(l)
    <3>1. CustodyPhase' = CustodyPhase
      BY <1>1, <2>2 DEF ApproveBorrow, ClaimPickup, CustodyPhase
    <3>2. OpenLoans' = OpenLoans /\ served' = served
      BY <1>1, <1>3, <2>2 DEF ApproveBorrow, ClaimPickup
    <3> QED
      BY <3>1, <3>2 DEF Custody!vars
  <2>3. CASE HandoverAsset(l)
    <3>1. OpenLoans' = OpenLoans /\ served' = served
      BY <1>1, <1>3, <2>3 DEF HandoverAsset
    <3>2. CustodyPhase = "PROMISED" /\ CustodyPhase' = "OUT"
      BY <1>1, <2>3, OpenLoanOwnsAsset DEF HandoverAsset, CustodyPhase
    <3>3. Custody!Deliver
      BY <3>1, <3>2 DEF Custody!Deliver
    <3> QED
      BY <3>3 DEF Custody!Next
  <2>4. CASE RequestReturn(l)
    <3>1. OpenLoans' = OpenLoans /\ served' = served
      BY <1>1, <1>3, <2>4 DEF RequestReturn
    <3>2. CustodyPhase = "OUT" /\ CustodyPhase' = "COMING_BACK"
      BY <1>1, <2>4, OpenLoanOwnsAsset DEF RequestReturn, CustodyPhase
    <3>3. Custody!StartReturn
      BY <3>1, <3>2 DEF Custody!StartReturn
    <3> QED
      BY <3>3 DEF Custody!Next
  <2>5. CASE \/ RejectBorrow(l)
             \/ \E isStaffOverride \in BOOLEAN : CancelBorrow(l, isStaffOverride)
    <3>1. CustodyPhase = "PROMISED" /\ CustodyPhase' = "IDLE"
      BY <1>1, <2>5, OpenLoanOwnsAsset DEF RejectBorrow, CancelBorrow, CustodyPhase
    <3>2. Custody!EndClaim(l)
      BY <1>1, <1>2, <2>5, <3>1 DEF RejectBorrow, CancelBorrow
    <3> QED
      BY <3>2 DEF Custody!Next
  <2>6. CASE \E condition \in {"Normal", "Damage"} :
               CompleteReturn(l, condition) \/ ReturnAsset(l, condition)
    <3>1. /\ CustodyPhase \in {"OUT", "COMING_BACK"}
          /\ CustodyPhase' \in {"IDLE", "OUT_OF_SERVICE"}
      BY <1>1, <2>6, OpenLoanOwnsAsset
         DEF CompleteReturn, ReturnAsset, CustodyPhase
    <3>2. Custody!EndClaim(l)
      BY <1>1, <1>2, <2>6, <3>1 DEF CompleteReturn, ReturnAsset
    <3> QED
      BY <3>2 DEF Custody!Next
  <2> QED
    BY <1>4, <2>1, <2>2, <2>3, <2>4, <2>5, <2>6 DEF LoanStep
<1>5. CASE UNCHANGED borrowVars
  BY <1>5 DEF borrowVars, Custody!vars, OpenLoans, CustodyPhase
<1> QED
  BY <1>4, <1>5 DEF BorrowNext

(* The loan workflow keeps the promise AssetCustody makes to borrowers.    *)
THEOREM BorrowRefinesCustody == BorrowSpec => ImplementsCustody
<1>1. BorrowInit => Custody!Init
  BY DEF BorrowInit, Custody!Init, OpenLoans, CustodyPhase, Open, Requested,
         Returning, Terminal
<1>2. BorrowInv /\ [BorrowNext]_borrowVars => [Custody!Next]_Custody!vars
  BY CustodyStep
<1> QED
  BY <1>1, <1>2, BorrowInvariant, PTL DEF BorrowSpec, ImplementsCustody, Custody!Spec
=============================================================================
