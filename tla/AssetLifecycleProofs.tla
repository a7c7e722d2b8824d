------------------------ MODULE AssetLifecycleProofs ------------------------
(***************************************************************************)
(* Proofs about the three services together, for any number of loans,      *)
(* tickets and requests in progress.                                       *)
(***************************************************************************)
EXTENDS AssetLifecycle, AssetBorrowProofs, RepairWorkflowProofs

USE DEF AssetStatus, AvailabilityStatus, AssetRow, Row, LendableAsset

(* A status edit writes a pair rule 1 allows.                              *)
LEMMA EditedRow ==
  ASSUME NEW target \in AssetStatus
  PROVE  /\ Row(target, ConsistentAvailability(target)) \in AssetRow
         /\ ConsistentAvailability(target) \in {"AVAILABLE", "UNAVAILABLE"}
         /\ ConsistentAvailability(target) = "AVAILABLE" => target = "NORMAL"
  BY DEF ConsistentAvailability

(* The cascade of a LOST asset only closes loans and tickets.              *)
LEMMA CascadeTypes ==
  ASSUME LifecycleTypeOK, CommitLost
  PROVE  LifecycleTypeOK'
<1>1. /\ loan \in [Loans -> BorrowStatus]
      /\ job \in [Jobs -> JobRow]
      /\ line \in [Jobs -> LineRow]
  BY DEF LifecycleTypeOK, BorrowTypeOK, RepairTypeOK
<1>2. loan' \in [Loans -> BorrowStatus]
  BY <1>1 DEF CommitLost, CascadeCancelLoans, BorrowStatus, Terminal
<1>3. job' \in [Jobs -> JobRow]
  <2>1. \A j \in Jobs : [job[j] EXCEPT !.status = "CANCELLED"] \in JobRow
    BY <1>1 DEF JobRow, JobStatus
  <2> QED
    BY <1>1, <2>1 DEF CommitLost, CascadeCancelTickets
<1>4. line' \in [Jobs -> LineRow]
  BY <1>1, LineFacts DEF CommitLost, CascadeCancelTickets
<1>5. asset' \in AssetRow
  BY EditedRow DEF CommitLost
<1> QED
  BY <1>2, <1>3, <1>4, <1>5
     DEF CommitLost, LifecycleTypeOK, BorrowTypeOK, RepairTypeOK, LostScans

LEMMA LifecycleTypeStep ==
  ASSUME LifecycleTypeOK, [LifecycleNext]_lifecycleVars
  PROVE  LifecycleTypeOK'
<1>1. CASE LoanServiceStep
  <2>1. BorrowTypeOK'
    BY <1>1, BorrowTypeStep DEF LoanServiceStep, LifecycleTypeOK
  <2> QED
    BY <1>1, <2>1
       DEF LoanServiceStep, ticketVars, LifecycleTypeOK, BorrowTypeOK, RepairTypeOK
<1>2. CASE RepairServiceStep
  <2>1. RepairTypeOK'
    BY <1>2, RepairTypeStep DEF RepairServiceStep, LifecycleTypeOK
  <2> QED
    BY <1>2, <2>1
       DEF RepairServiceStep, LifecycleTypeOK, BorrowTypeOK, RepairTypeOK
<1>3. CASE StatusStep
  <2>1. CASE \/ \E target \in AssetStatus \ {"LOST"} : UpdateStatus(target)
             \/ CreateDisposal
    <3>1. asset' \in AssetRow
      BY <2>1, EditedRow DEF UpdateStatus, CreateDisposal
    <3> QED
      BY <2>1, <3>1 DEF UpdateStatus, CreateDisposal, ticketVars,
                        LifecycleTypeOK, BorrowTypeOK, RepairTypeOK
  <2>2. CASE ScanForLost
    BY <2>2 DEF ScanForLost, ticketVars, LostScans,
                LifecycleTypeOK, BorrowTypeOK, RepairTypeOK
  <2>3. CASE CommitLost
    BY <2>3, CascadeTypes
  <2>4. CASE AbortLost
    BY <2>4 DEF AbortLost, ticketVars, LostScans,
                LifecycleTypeOK, BorrowTypeOK, RepairTypeOK
  <2> QED
    BY <1>3, <2>1, <2>2, <2>3, <2>4 DEF StatusStep
<1>4. CASE UNCHANGED lifecycleVars
  BY <1>4 DEF lifecycleVars, LifecycleTypeOK, BorrowTypeOK, RepairTypeOK
<1> QED
  BY <1>1, <1>2, <1>3, <1>4 DEF LifecycleNext

(* The composition keeps the types of every table.                         *)
THEOREM LifecycleTypeCorrect == LifecycleSpec => []LifecycleTypeOK
<1>1. LifecycleInit => LifecycleTypeOK
  BY RepairTypeInit
     DEF LifecycleInit, LifecycleTypeOK, BorrowTypeOK, RepairTypeOK, BorrowStatus,
         LostScans
<1>2. LifecycleTypeOK /\ [LifecycleNext]_lifecycleVars => LifecycleTypeOK'
  BY LifecycleTypeStep
<1> QED
  BY <1>1, <1>2, PTL DEF LifecycleSpec

----------------------------------------------------------------------------
(***************************************************************************)
(* What a step of each service may do to the asset row.                    *)
(***************************************************************************)
RuleOnePair(row) == row.avail = "UNAVAILABLE" \/ row = LendableAsset

(* The repair service writes whole pairs, none of which holds the asset.   *)
LEMMA RepairWritesPairs ==
  ASSUME RepairNext
  PROVE  asset' = asset \/ RuleOnePair(asset')
<1>1. PICK w \in Workers : ReadStage(w) \/ CommitStage(w)
  BY DEF RepairNext
<1>2. CASE ReadStage(w)
  BY <1>2 DEF ReadStage, Read, ReadCreateRequest, ReadAssign, ReadDiagnose,
              ReadStep, ReadReject, ReadCompleteUnrepairable, ReadCancel,
              ReadReturn
<1>3. CASE CommitStep(w)
  BY <1>3 DEF CommitStep, RuleOnePair
<1>4. CASE CommitCreateRequest(w) \/ CommitCompleteUnrepairable(w) \/ CommitCancel(w)
  BY <1>4 DEF CommitCreateRequest, CommitCompleteUnrepairable, CommitCancel,
              RuleOnePair
<1>5. CASE \/ CommitAssign(w) \/ CommitDiagnose(w) \/ ReadHandover(w)
           \/ CommitHandover(w) \/ CommitReject(w) \/ CommitReturn(w) \/ Abort(w)
  BY <1>5 DEF CommitAssign, CommitDiagnose, ReadHandover, CommitHandover,
              CommitReject, CommitReturn, Abort
<1> QED
  BY <1>1, <1>2, <1>3, <1>4, <1>5 DEF CommitStage

(* So does a status edit.                                                  *)
LEMMA EditWritesPairs ==
  ASSUME StatusStep
  PROVE  asset' = asset \/ RuleOnePair(asset')
<1>1. \A target : RuleOnePair(Row(target, ConsistentAvailability(target)))
  BY DEF RuleOnePair, ConsistentAvailability
<1> QED
  BY <1>1 DEF StatusStep, UpdateStatus, CreateDisposal, ScanForLost, CommitLost,
              AbortLost, RuleOnePair

(* An edit that changes no row of the asset leaves the loans alone.        *)
LEMMA EditKeepsLoans ==
  ASSUME StatusStep, LifecycleTypeOK, asset' = asset
  PROVE  loan' = loan \/ asset.avail = "UNAVAILABLE"
  BY DEF StatusStep, UpdateStatus, CreateDisposal, ScanForLost, CommitLost,
         AbortLost, ConsistentAvailability

----------------------------------------------------------------------------
(***************************************************************************)
(* The inductive invariant.  Rule 1 needs to know that a loan is handed    *)
(* over or given back only while the asset is held, and an asset is held   *)
(* only in NORMAL status; the two are proved together.                     *)
(***************************************************************************)
LifecycleInv == LifecycleTypeOK /\ StatusControlsAvailability /\ NoOrphanHold

LEMMA LoanStepKeepsRules ==
  ASSUME LifecycleInv, NEW l \in Loans, LoanStep(l)
  PROVE  StatusControlsAvailability' /\ NoOrphanHold'
<1>1. asset \in AssetRow /\ loan \in [Loans -> BorrowStatus]
  BY DEF LifecycleInv, LifecycleTypeOK, BorrowTypeOK
<1> USE <1>1 DEF MoveLoan, MoveAvailability, Requested, LifecycleInv,
                 StatusControlsAvailability, NoOrphanHold
<1>2. CASE \E source \in {"SELF_SERVICE", "CENTER_SERVICE"} :
             CreateBorrow(l, source)
  BY <1>2 DEF CreateBorrow
<1>3. CASE ApproveBorrow(l)
  BY <1>3 DEF ApproveBorrow
<1>4. CASE HandoverAsset(l)
  BY <1>4 DEF HandoverAsset
<1>5. CASE RejectBorrow(l)
  BY <1>5 DEF RejectBorrow
<1>6. CASE \E isStaffOverride \in BOOLEAN : CancelBorrow(l, isStaffOverride)
  BY <1>6 DEF CancelBorrow
<1>7. CASE RequestReturn(l)
  BY <1>7 DEF RequestReturn
<1>8. CASE ClaimPickup(l)
  BY <1>8 DEF ClaimPickup
<1>9. CASE \E condition \in {"Normal", "Damage"} : CompleteReturn(l, condition)
  BY <1>9 DEF CompleteReturn
<1>10. CASE \E condition \in {"Normal", "Damage"} : ReturnAsset(l, condition)
  BY <1>10 DEF ReturnAsset
<1> QED
  BY <1>2, <1>3, <1>4, <1>5, <1>6, <1>7, <1>8, <1>9, <1>10 DEF LoanStep

(* Writing a pair of rule 1 keeps both invariants, whatever the loans do.  *)
LEMMA PairKeepsRules ==
  ASSUME RuleOnePair(asset')
  PROVE  StatusControlsAvailability' /\ NoOrphanHold'
  BY DEF RuleOnePair, StatusControlsAvailability, NoOrphanHold

LEMMA LifecycleInvStep ==
  ASSUME LifecycleInv, [LifecycleNext]_lifecycleVars
  PROVE  LifecycleInv'
<1>1. LifecycleTypeOK'
  BY LifecycleTypeStep DEF LifecycleInv
<1>2. ASSUME asset' = asset, loan' = loan
      PROVE  StatusControlsAvailability' /\ NoOrphanHold'
  BY <1>2 DEF LifecycleInv, StatusControlsAvailability, NoOrphanHold
<1>3. CASE LoanServiceStep
  BY <1>1, <1>3, LoanStepKeepsRules DEF LoanServiceStep, BorrowNext, LifecycleInv
<1>4. CASE RepairServiceStep
  BY <1>1, <1>2, <1>4, RepairWritesPairs, PairKeepsRules
     DEF RepairServiceStep, LifecycleInv
<1>5. CASE StatusStep
  <2>1. CASE asset' = asset /\ asset.avail = "UNAVAILABLE"
    <3>1. RuleOnePair(asset')
      BY <2>1 DEF RuleOnePair
    <3> QED
      BY <1>1, <3>1, PairKeepsRules DEF LifecycleInv
  <2> QED
    BY <1>1, <1>2, <1>5, <2>1, EditWritesPairs, EditKeepsLoans, PairKeepsRules
       DEF LifecycleInv
<1>6. CASE UNCHANGED lifecycleVars
  BY <1>1, <1>2, <1>6 DEF lifecycleVars, LifecycleInv
<1> QED
  BY <1>3, <1>4, <1>5, <1>6 DEF LifecycleNext

LEMMA LifecycleInvariant == LifecycleSpec => []LifecycleInv
<1>1. LifecycleInit => LifecycleInv
  BY RepairTypeInit
     DEF LifecycleInit, RepairInit, RegisteredAsset, LifecycleInv,
         LifecycleTypeOK, BorrowTypeOK, RepairTypeOK, BorrowStatus, LostScans,
         StatusControlsAvailability, NoOrphanHold
<1>2. LifecycleInv /\ [LifecycleNext]_lifecycleVars => LifecycleInv'
  BY LifecycleInvStep
<1> QED
  BY <1>1, <1>2, PTL DEF LifecycleSpec

(* Rule 1 of CONTEXT.md holds whatever the three services do at once.      *)
THEOREM StatusRuleHolds == LifecycleSpec => []StatusControlsAvailability
  BY LifecycleInvariant, PTL DEF LifecycleInv

(* No asset is ever held without a loan that can release it.               *)
THEOREM HoldsHaveLoans == LifecycleSpec => []NoOrphanHold
  BY LifecycleInvariant, PTL DEF LifecycleInv
----------------------------------------------------------------------------
(***************************************************************************)
(* The invariant of the repair workflow outlives the composition: loans    *)
(* and status edits do not touch tickets, and the cascade of a LOST asset  *)
(* is one more way for a ticket to change under the requests that read it. *)
(***************************************************************************)
LEMMA CascadeAdvances ==
  ASSUME RepairInv, CommitLost, NEW j \in Jobs
  PROVE  Advances(j) /\ Settled(j)' /\ UnrepairableByPlan(j)'
<1>1. /\ job[j] \in JobRow /\ job[j].done \in Nat
      /\ Settled(j) /\ UnrepairableByPlan(j)
  BY DEF RepairInv, RepairTypeOK, JobRow
<1>2. /\ job'[j].track = job[j].track /\ job'[j].plan = job[j].plan
      /\ job'[j].done = job[j].done
      /\ job'[j].status = job[j].status \/ job'[j].status = "CANCELLED"
  BY <1>1 DEF CommitLost, CascadeCancelTickets, JobRow
<1>3. /\ line'[j].kind = "PENDING_WITHDRAW" => line[j].kind = "PENDING_WITHDRAW"
      /\ line'[j].kind = "WITHDRAW" => line[j].kind = "WITHDRAW"
  BY DEF CommitLost, CascadeCancelTickets, DropPending, NoLine
<1> QED
  BY <1>1, <1>2, <1>3 DEF Advances, Settled, HandedOver, UnrepairableByPlan

LEMMA CascadeKeepsRepairInv ==
  ASSUME RepairInv, RepairTypeOK', CommitLost
  PROVE  RepairInv'
<1>1. req' = req
  BY DEF CommitLost
<1>2. ASSUME NEW w \in Workers
      PROVE  StillTrue(req[w])'
  <2>1. CASE req[w].op \in {"STEP", "HANDOVER", "COMPLETE_UNREPAIRABLE"}
    <3>1. req[w].job \in Jobs
      BY <2>1, RequestFields DEF RepairInv, RepairTypeOK
    <3> QED
      BY <1>1, <2>1, <3>1, CascadeAdvances, AdvanceKeepsTruth
  <2>2. CASE req[w].op \notin {"STEP", "HANDOVER", "COMPLETE_UNREPAIRABLE"}
    BY <1>1, <2>2 DEF StillTrue
  <2> QED
    BY <2>1, <2>2
<1> QED
  BY <1>2, CascadeAdvances DEF RepairInv

LEMMA RepairInvInLifecycle == LifecycleSpec => []RepairInv
<1>1. LifecycleInit => RepairInv
  BY RepairInvInit DEF LifecycleInit
<1>2. LifecycleTypeOK' /\ RepairInv /\ [LifecycleNext]_lifecycleVars => RepairInv'
  <2> SUFFICES ASSUME LifecycleTypeOK', RepairInv, [LifecycleNext]_lifecycleVars
               PROVE  RepairInv'
    OBVIOUS
  <2>1. RepairTypeOK'
    BY DEF LifecycleTypeOK
  <2>2. ASSUME UNCHANGED ticketVars
        PROVE  RepairInv'
    BY <2>1, <2>2
       DEF ticketVars, RepairInv, Settled, HandedOver, UnrepairableByPlan,
           StillTrue
  <2>3. CASE RepairServiceStep
    BY <2>1, <2>3, ReadStageInv, CommitStageInv DEF RepairServiceStep, RepairNext
  <2>4. CASE CommitLost
    BY <2>1, <2>4, CascadeKeepsRepairInv
  <2>5. CASE LoanServiceStep \/ (StatusStep /\ ~ CommitLost)
    BY <2>2, <2>5 DEF LoanServiceStep, StatusStep, UpdateStatus, CreateDisposal,
                      ScanForLost, AbortLost
  <2>6. CASE UNCHANGED lifecycleVars
    BY <2>2, <2>6 DEF lifecycleVars, ticketVars
  <2> QED
    BY <2>3, <2>4, <2>5, <2>6 DEF LifecycleNext
<1> QED
  BY <1>1, <1>2, LifecycleTypeCorrect, PTL DEF LifecycleSpec

(***************************************************************************)
(* Beside loans, status edits and the cascade of a LOST asset as well, a   *)
(* completed batch hand-over has settled the requisition of its ticket,    *)
(* and nothing else withdraws parts.                                       *)
(***************************************************************************)
THEOREM HandoversSettleInLifecycle == LifecycleSpec => []HandoverSettlesRequisition
<1>1. RepairInv => HandoverSettlesRequisition
  BY DEF RepairInv, Settled, HandedOver, HandoverSettlesRequisition
<1> QED
  BY <1>1, RepairInvInLifecycle, PTL

----------------------------------------------------------------------------
(***************************************************************************)
(* Retirement is final.  By rule 1 a retired asset is UNAVAILABLE, which   *)
(* disables every loan handler that writes it except the pickup's; the     *)
(* rest follows from what QuietlyRetired says of tickets and requests.     *)
(***************************************************************************)
LEMMA RetiredLoans ==
  ASSUME LifecycleInv, QuietlyRetired, NEW l \in Loans, LoanStep(l)
  PROVE  asset' = asset /\ \A k \in Loans : loan'[k] \notin Returning
<1>1. asset.avail = "UNAVAILABLE" /\ asset.status # "NORMAL"
  BY DEF LifecycleInv, StatusControlsAvailability, QuietlyRetired
<1>2. ApproveBorrow(l)
  BY <1>1 DEF LoanStep, QuietlyRetired, CreateBorrow, HandoverAsset, RejectBorrow,
              CancelBorrow, RequestReturn, ClaimPickup, CompleteReturn,
              ReturnAsset, MoveLoan, MoveAvailability, Returning
<1>3. loan \in [Loans -> BorrowStatus]
  BY DEF LifecycleInv, LifecycleTypeOK, BorrowTypeOK
<1> QED
  BY <1>2, <1>3 DEF ApproveBorrow, MoveLoan, QuietlyRetired, Returning

LEMMA RetiredTickets ==
  ASSUME LifecycleInv, QuietlyRetired, RepairNext
  PROVE  /\ asset' = asset /\ job' = job
         /\ \A w \in Workers : req'[w].op \in {"NONE", "RETURN"}
<1>1. \A j \in Jobs : ~ Active(j) /\ ~ CanProgress(job[j])
  BY DEF QuietlyRetired, CanProgress, Active
<1>2. req \in [Workers -> Requests]
  BY DEF LifecycleInv, LifecycleTypeOK, RepairTypeOK
<1>3. PICK w \in Workers : ReadStage(w) \/ CommitStage(w)
  BY DEF RepairNext
<1>4. req[w].op \in {"NONE", "RETURN"}
  BY DEF QuietlyRetired
<1>5. CASE ReadStage(w)
  <2>1. PICK j \in Jobs, qty \in Quantities : ReadReturn(w, j, qty)
    BY <1>1, <1>5 DEF ReadStage, ReadCreateRequest, ReadAssign, ReadDiagnose,
                      ReadStep, ReadReject, ReadCompleteUnrepairable, ReadCancel,
                      QuietlyRetired, CanProgress
  <2> QED
    BY <1>2, <2>1 DEF ReadReturn, Read, QuietlyRetired
<1>6. CASE CommitStage(w)
  <2>1. CommitReturn(w) \/ Abort(w)
    BY <1>4, <1>6 DEF CommitStage, CommitCreateRequest, CommitAssign,
                      CommitDiagnose, CommitStep, ReadHandover, CommitHandover,
                      CommitReject, CommitCompleteUnrepairable, CommitCancel
  <2>2. req' = [req EXCEPT ![w] = NoReq] /\ asset' = asset /\ job' = job
    BY <2>1 DEF CommitReturn, Abort, Finish
  <2> QED
    BY <1>2, <2>2 DEF QuietlyRetired, NoReq
<1> QED
  BY <1>3, <1>5, <1>6

LEMMA RetiredByStatusEdit ==
  ASSUME LifecycleInv, QuietlyRetired, StatusStep
  PROVE  QuietlyRetired'
<1>1. /\ loan \in [Loans -> BorrowStatus]
      /\ job \in [Jobs -> JobRow]
  BY DEF LifecycleInv, LifecycleTypeOK, BorrowTypeOK, RepairTypeOK
<1>2. CommitLost \/ AbortLost
  <2>1. \A target \in AssetStatus : asset.status \notin AllowedFrom(target)
    BY DEF QuietlyRetired, AllowedFrom
  <2> QED
    BY <2>1 DEF StatusStep, UpdateStatus, CreateDisposal, ScanForLost
<1>3. CASE AbortLost
  BY <1>3 DEF AbortLost, ticketVars, QuietlyRetired
<1>4. CASE CommitLost
  <2>1. asset'.status = "LOST"
    BY <1>4 DEF CommitLost
  <2>2. \A l \in Loans : loan'[l] \notin Returning
    BY <1>1, <1>4 DEF CommitLost, CascadeCancelLoans, QuietlyRetired, Returning
  <2>3. ASSUME NEW j \in Jobs
        PROVE  ~ CanProgress(job'[j])
    <3>1. job'[j] = job[j] \/ job'[j] = [job[j] EXCEPT !.status = "CANCELLED"]
      BY <1>4 DEF CommitLost, CascadeCancelTickets
    <3>2. job[j] \in JobRow /\ ~ CanProgress(job[j])
      BY <1>1 DEF QuietlyRetired
    <3> QED
      BY <3>1, <3>2 DEF CanProgress, JobRow
  <2> QED
    BY <1>4, <2>1, <2>2, <2>3 DEF CommitLost, QuietlyRetired
<1> QED
  BY <1>2, <1>3, <1>4

(* An asset disposed of or lost, with nothing in flight, never comes back. *)
THEOREM RetiredForGood == LifecycleSpec => RetirementIsFinal
<1>1. ASSUME LifecycleInv, [LifecycleNext]_lifecycleVars, QuietlyRetired
      PROVE  QuietlyRetired'
  <2>1. CASE LoanServiceStep
    BY <1>1, <2>1, RetiredLoans
       DEF LoanServiceStep, BorrowNext, ticketVars, QuietlyRetired
  <2>2. CASE RepairServiceStep
    BY <1>1, <2>2, RetiredTickets DEF RepairServiceStep, QuietlyRetired
  <2>3. CASE StatusStep
    BY <1>1, <2>3, RetiredByStatusEdit
  <2>4. CASE UNCHANGED lifecycleVars
    BY <1>1, <2>4 DEF lifecycleVars, QuietlyRetired
  <2> QED
    BY <1>1, <2>1, <2>2, <2>3, <2>4 DEF LifecycleNext
<1>2. LifecycleInv /\ [LifecycleNext]_lifecycleVars
        => [QuietlyRetired => QuietlyRetired']_lifecycleVars
  BY <1>1
<1> QED
  BY <1>2, LifecycleInvariant, PTL DEF LifecycleSpec, RetirementIsFinal
=============================================================================
