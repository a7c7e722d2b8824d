------------------------ MODULE RepairWorkflowProofs ------------------------
(***************************************************************************)
(* Proofs about the repair workflow, for any tickets, requests, quantities *)
(* and plans.  Type correctness is what makes the two-step handlers sound: *)
(* whatever commits between the read and the transaction, the transaction  *)
(* finds the record it relies on.  The rest follows from what a stale      *)
(* request still knows of the plan it has read.                            *)
(***************************************************************************)
EXTENDS RepairOffice, FiniteSetTheorems, WellFoundedInduction, TLAPS

(* What a request in progress has read, by the operation it is.            *)
LEMMA RequestFields ==
  ASSUME NEW r \in Requests
  PROVE  /\ r.op = "CREATE" => r.seen \in AssetRow
         /\ r.op \in {"ASSIGN", "DIAGNOSE", "STEP", "HANDOVER", "REJECT",
                      "COMPLETE_UNREPAIRABLE", "CANCEL", "RETURN"}
              => r.job \in Jobs
         /\ r.op = "DIAGNOSE" => r.to \in Diagnoses
         /\ r.op \in {"STEP", "HANDOVER", "REJECT", "COMPLETE_UNREPAIRABLE"}
              => r.plan \in Nat
         /\ r.op = "STEP" => r.target \in 1 .. 8
         /\ r.op = "HANDOVER" => r.pending \in LineRow
         /\ r.op = "RETURN" => r.qty \in Quantities
  BY DEF Requests, NoReq

(* What is read can be recorded.                                           *)
LEMMA RequestRecords ==
  /\ NoReq \in Requests
  /\ \A seen \in AssetRow : [op |-> "CREATE", seen |-> seen] \in Requests
  /\ \A j \in Jobs : /\ [op |-> "ASSIGN", job |-> j] \in Requests
                     /\ [op |-> "CANCEL", job |-> j] \in Requests
  /\ \A j \in Jobs, to \in Diagnoses :
       [op |-> "DIAGNOSE", job |-> j, to |-> to] \in Requests
  /\ \A j \in Jobs, p \in Nat, t \in 1 .. 8 :
       [op |-> "STEP", job |-> j, plan |-> p, target |-> t] \in Requests
  /\ \A j \in Jobs, p \in Nat, l \in LineRow :
       [op |-> "HANDOVER", job |-> j, plan |-> p, pending |-> l] \in Requests
  /\ \A j \in Jobs, p \in Nat :
       [op |-> "REJECT", job |-> j, plan |-> p] \in Requests
  /\ \A j \in Jobs, p \in Nat, d \in 0 .. 8 :
       [op |-> "COMPLETE_UNREPAIRABLE", job |-> j, plan |-> p, done |-> d]
         \in Requests
  /\ \A j \in Jobs, q \in Quantities :
       [op |-> "RETURN", job |-> j, qty |-> q] \in Requests
  BY DEF Requests

LEMMA LineFacts ==
  /\ NoLine \in LineRow
  /\ \A l \in LineRow : DropPending(l) \in LineRow /\ Withdrawn(l) \in Nat
  /\ \A to \in Diagnoses : /\ to.track \in Tracks
                           /\ to.line \in LineRow
                           /\ DiagnosedStatus(to) \in JobStatus
                           /\ DiagnosedSteps(to.track) \in 0 .. 8
<1>1. NoLine \in LineRow
  BY DEF NoLine, LineRow
<1>2. \A l \in LineRow : DropPending(l) \in LineRow /\ Withdrawn(l) \in Nat
  BY <1>1 DEF LineRow, DropPending, Withdrawn
<1>3. ASSUME NEW to \in Diagnoses
      PROVE  to.track \in Tracks /\ to.line \in LineRow
  <2>1. \A s \in {"INTERNAL", "EXTERNAL"}, q \in Quantities :
          Requisition("PENDING_WITHDRAW", s, q) \in LineRow
    BY RepairAssumption DEF Requisition, LineRow
  <2> QED
    BY <1>1, <2>1 DEF Diagnoses, Tracks
<1>4. ASSUME NEW to \in Diagnoses
      PROVE  DiagnosedStatus(to) \in JobStatus
  BY <1>3 DEF DiagnosedStatus, JobStatus, Tracks
<1>5. \A track : DiagnosedSteps(track) \in 0 .. 8
  BY DEF DiagnosedSteps
<1> QED
  BY <1>1, <1>2, <1>3, <1>4, <1>5

(* Completing a step keeps the ticket a ticket.                            *)
LEMMA CompleteStepType ==
  ASSUME RepairTypeOK, NEW j \in Jobs, NEW target \in 1 .. 8,
         CompleteStep(j, target)
  PROVE  job' \in [Jobs -> JobRow]
<1>1. job[j] \in JobRow
  BY DEF RepairTypeOK
<1>2. StepStatus(job[j], target) \in {"NONE"} \union JobStatus
  BY <1>1 DEF StepStatus, JobStatus, JobRow
<1> DEFINE row == [job[j] EXCEPT
                     !.status   = StepStatus(job[j], target),
                     !.done     = IF @ < target THEN target ELSE @,
                     !.rejected = @ /\ target # 5]
<1>3. row.done \in 0 .. 8
  BY <1>1 DEF JobRow
<1>4. (job[j].rejected /\ target # 5) \in BOOLEAN
  OBVIOUS
<1>5. row \in JobRow
  BY <1>1, <1>2, <1>3, <1>4 DEF JobRow
<1>6. job' = [job EXCEPT ![j] = row]
  BY <1>1 DEF CompleteStep, JobRow, RepairTypeOK
<1> QED
  BY <1>5, <1>6 DEF RepairTypeOK

----------------------------------------------------------------------------
(* A request that reads leaves the tables alone.                           *)
LEMMA ReadKeepsTypes ==
  ASSUME RepairTypeOK, NEW w \in Workers, NEW r \in Requests, Read(w, r)
  PROVE  RepairTypeOK'
  BY DEF RepairTypeOK, Read

LEMMA ReadStageTypes ==
  ASSUME RepairTypeOK, NEW w \in Workers, ReadStage(w)
  PROVE  RepairTypeOK'
<1>1. CASE ReadCreateRequest(w)
  BY <1>1, ReadKeepsTypes, RequestRecords DEF ReadCreateRequest, RepairTypeOK
<1>2. ASSUME NEW j \in Jobs, ReadAssign(w, j)
      PROVE  RepairTypeOK'
  BY <1>2, ReadKeepsTypes, RequestRecords DEF ReadAssign
<1>3. ASSUME NEW j \in Jobs, NEW to \in Diagnoses, ReadDiagnose(w, j, to)
      PROVE  RepairTypeOK'
  BY <1>3, ReadKeepsTypes, RequestRecords DEF ReadDiagnose
<1>4. ASSUME NEW j \in Jobs, ReadStep(w, j)
      PROVE  RepairTypeOK'
  <2>1. job[j].plan \in Nat /\ job[j].done + 1 \in 1 .. 8
    BY <1>4 DEF ReadStep, RepairTypeOK, JobRow, TotalSteps
  <2> QED
    BY <1>4, <2>1, ReadKeepsTypes, RequestRecords DEF ReadStep
<1>5. ASSUME NEW j \in Jobs, ReadReject(w, j)
      PROVE  RepairTypeOK'
  <2>1. job[j].plan \in Nat
    BY DEF RepairTypeOK, JobRow
  <2> QED
    BY <1>5, <2>1, ReadKeepsTypes, RequestRecords DEF ReadReject
<1>6. ASSUME NEW j \in Jobs, ReadCompleteUnrepairable(w, j)
      PROVE  RepairTypeOK'
  <2>1. job[j].plan \in Nat /\ job[j].done \in 0 .. 8
    BY DEF RepairTypeOK, JobRow
  <2> QED
    BY <1>6, <2>1, ReadKeepsTypes, RequestRecords DEF ReadCompleteUnrepairable
<1>7. ASSUME NEW j \in Jobs, ReadCancel(w, j)
      PROVE  RepairTypeOK'
  BY <1>7, ReadKeepsTypes, RequestRecords DEF ReadCancel
<1>8. ASSUME NEW j \in Jobs, NEW qty \in Quantities, ReadReturn(w, j, qty)
      PROVE  RepairTypeOK'
  BY <1>8, ReadKeepsTypes, RequestRecords DEF ReadReturn
<1> QED
  BY <1>1, <1>2, <1>3, <1>4, <1>5, <1>6, <1>7, <1>8 DEF ReadStage

LEMMA CommitStageTypes ==
  ASSUME RepairTypeOK, NEW w \in Workers, CommitStage(w)
  PROVE  RepairTypeOK'
<1>1. /\ asset \in AssetRow
      /\ job \in [Jobs -> JobRow]
      /\ line \in [Jobs -> LineRow]
      /\ returned \in [Jobs -> Nat]
      /\ stock \in Int
      /\ req \in [Workers -> Requests]
  BY DEF RepairTypeOK
<1>2. /\ LendableAsset \in AssetRow
      /\ Row("UNDER_REPAIR", "UNAVAILABLE") \in AssetRow
      /\ Row("WAIT_DISPOSAL", "UNAVAILABLE") \in AssetRow
  BY DEF LendableAsset, Row, AssetRow, AssetStatus, AvailabilityStatus
<1>3. \A s \in JobStatus, j \in Jobs : [job[j] EXCEPT !.status = s] \in JobRow
  BY <1>1 DEF JobRow
<1>4. ASSUME Finish(w) PROVE req' \in [Workers -> Requests]
  BY <1>1, <1>4, RequestRecords DEF Finish
<1>5. CASE CommitCreateRequest(w)
  <2>1. job' \in [Jobs -> JobRow]
    BY <1>1, <1>3, <1>5 DEF CommitCreateRequest, JobStatus
  <2> QED
    BY <1>1, <1>2, <1>4, <1>5, <2>1 DEF CommitCreateRequest, RepairTypeOK
<1>6. CASE CommitAssign(w)
  <2>1. job' \in [Jobs -> JobRow]
    BY <1>1, <1>3, <1>6 DEF CommitAssign, JobStatus
  <2> QED
    BY <1>1, <1>4, <1>6, <2>1 DEF CommitAssign, RepairTypeOK
<1>7. CASE CommitDiagnose(w)
  <2> DEFINE j == req[w].job
             to == req[w].to
             row == [status |-> DiagnosedStatus(to), track |-> to.track,
                     plan |-> job[j].plan + 1, done |-> DiagnosedSteps(to.track),
                     rejected |-> FALSE]
  <2>1. j \in Jobs /\ to \in Diagnoses
    BY <1>1, <1>7, RequestFields DEF CommitDiagnose
  <2>2. row \in JobRow
    BY <1>1, <2>1, LineFacts DEF JobRow
  <2>3. job' \in [Jobs -> JobRow]
    BY <1>1, <1>7, <2>2 DEF CommitDiagnose
  <2>4. line' \in [Jobs -> LineRow] /\ stock' \in Int
    BY <1>1, <1>7, <2>1, LineFacts DEF CommitDiagnose
  <2>5. returned' \in [Jobs -> Nat]
    BY <1>1, <1>7 DEF CommitDiagnose
  <2> QED
    BY <1>1, <1>4, <1>7, <2>3, <2>4, <2>5 DEF CommitDiagnose, RepairTypeOK
<1>8. CASE CommitStep(w)
  <2>1. job' \in [Jobs -> JobRow]
    BY <1>1, <1>8, RequestFields, CompleteStepType DEF CommitStep
  <2>2. asset' \in AssetRow
    BY <1>1, <1>2, <1>8 DEF CommitStep
  <2> QED
    BY <1>1, <1>4, <1>8, <2>1, <2>2 DEF CommitStep, RepairTypeOK
<1>9. CASE ReadHandover(w)
  <2> DEFINE j == req[w].job
             pending == IF line[j].kind = "PENDING_WITHDRAW" THEN line[j]
                                                             ELSE NoLine
             r == [op |-> "HANDOVER", job |-> j, plan |-> req[w].plan,
                   pending |-> pending]
  <2>1. j \in Jobs /\ req[w].plan \in Nat
    BY <1>1, <1>9, RequestFields DEF ReadHandover
  <2>2. pending \in LineRow
    BY <1>1, <2>1, LineFacts
  <2>3. r \in Requests
    BY <2>1, <2>2, RequestRecords
  <2>4. req' = [req EXCEPT ![w] = r]
    BY <1>9 DEF ReadHandover
  <2> QED
    BY <1>1, <1>9, <2>3, <2>4 DEF ReadHandover, RepairTypeOK
<1>10. CASE CommitHandover(w)
  <2> DEFINE j == req[w].job
             pending == req[w].pending
  <2>1. j \in Jobs /\ pending \in LineRow
    BY <1>1, <1>10, RequestFields DEF CommitHandover
  <2>2. job' \in [Jobs -> JobRow]
    BY <1>10, <2>1, CompleteStepType DEF CommitHandover
  <2>3. [line[j] EXCEPT !.kind = "WITHDRAW"] \in LineRow /\ pending.qty \in Nat
    BY <1>1, <2>1 DEF LineRow
  <2>4. line' \in [Jobs -> LineRow] /\ stock' \in Int
    BY <1>1, <1>10, <2>3 DEF CommitHandover
  <2> QED
    BY <1>1, <1>4, <1>10, <2>2, <2>4 DEF CommitHandover, RepairTypeOK
<1>11. CASE CommitReject(w)
  <2> DEFINE j == req[w].job
             row == [job[j] EXCEPT !.rejected = TRUE, !.status = "IN_PROGRESS"]
  <2>1. j \in Jobs
    BY <1>1, <1>11, RequestFields DEF CommitReject
  <2>2. row \in JobRow
    BY <1>1, <2>1 DEF JobRow, JobStatus
  <2>3. job' = [job EXCEPT ![j] = row]
    BY <1>1, <1>11, <2>1 DEF CommitReject, JobRow
  <2>4. line' \in [Jobs -> LineRow]
    BY <1>1, <1>11, <2>1, LineFacts DEF CommitReject
  <2> QED
    BY <1>1, <1>4, <1>11, <2>2, <2>3, <2>4 DEF CommitReject, RepairTypeOK
<1>12. CASE CommitCompleteUnrepairable(w)
  <2> DEFINE j == req[w].job
             d == IF job[j].plan = req[w].plan THEN 8 ELSE job[j].done
             row == [job[j] EXCEPT !.status = "COMPLETED", !.done = d]
  <2>1. j \in Jobs
    BY <1>1, <1>12, RequestFields DEF CommitCompleteUnrepairable
  <2>2. d \in 0 .. 8
    BY <1>1, <2>1 DEF JobRow
  <2>3. row \in JobRow
    <3> HIDE DEF d
    <3> QED
      BY <1>1, <2>1, <2>2 DEF JobRow, JobStatus
  <2>4. job' = [job EXCEPT ![j] = row]
    BY <1>1, <1>12, <2>1 DEF CommitCompleteUnrepairable, JobRow
  <2> QED
    BY <1>1, <1>2, <1>4, <1>12, <2>3, <2>4
       DEF CommitCompleteUnrepairable, RepairTypeOK
<1>13. CASE CommitCancel(w)
  <2>1. job' \in [Jobs -> JobRow]
    BY <1>1, <1>3, <1>13 DEF CommitCancel, JobStatus
  <2>2. line' \in [Jobs -> LineRow]
    BY <1>1, <1>13, LineFacts DEF CommitCancel
  <2> QED
    BY <1>1, <1>2, <1>4, <1>13, <2>1, <2>2 DEF CommitCancel, RepairTypeOK
<1>14. CASE CommitReturn(w)
  <2>1. req[w].qty \in Nat /\ req[w].job \in Jobs
    BY <1>1, <1>14, RequestFields, RepairAssumption DEF CommitReturn
  <2>2. returned[req[w].job] + req[w].qty \in Nat /\ stock + req[w].qty \in Int
    BY <1>1, <2>1
  <2>3. returned' \in [Jobs -> Nat] /\ stock' \in Int
    BY <1>1, <1>14, <2>2 DEF CommitReturn
  <2> QED
    BY <1>1, <1>4, <1>14, <2>3 DEF CommitReturn, RepairTypeOK
<1>15. CASE Abort(w)
  BY <1>1, <1>4, <1>15 DEF Abort, RepairTypeOK
<1> QED
  BY <1>5, <1>6, <1>7, <1>8, <1>9, <1>10, <1>11, <1>12, <1>13, <1>14, <1>15
     DEF CommitStage

LEMMA RepairTypeStep ==
  ASSUME RepairTypeOK, [RepairNext]_repairVars
  PROVE  RepairTypeOK'
<1>1. CASE RepairNext
  BY <1>1, ReadStageTypes, CommitStageTypes DEF RepairNext
<1>2. CASE UNCHANGED repairVars
  BY <1>2 DEF repairVars, RepairTypeOK
<1> QED
  BY <1>1, <1>2

LEMMA RepairTypeInit == RepairInit => RepairTypeOK
<1>1. NoJob \in JobRow
  BY DEF NoJob, JobRow
<1>2. RegisteredAsset \subseteq AssetRow
  BY DEF RegisteredAsset, LendableAsset, Row, AssetRow, AssetStatus,
         AvailabilityStatus
<1> QED
  BY <1>1, <1>2, LineFacts, RequestRecords, RepairAssumption
     DEF RepairInit, RepairTypeOK

(* However the requests interleave, a transaction never leaves a row its   *)
(* schema would not hold.                                                  *)
THEOREM RepairTypeCorrect == RepairSpec => []RepairTypeOK
<1>1. RepairTypeOK /\ [RepairNext]_repairVars => RepairTypeOK'
  BY RepairTypeStep
<1> QED
  BY <1>1, RepairTypeInit, PTL DEF RepairSpec

----------------------------------------------------------------------------
\* The batch hand-over of j is behind it.
HandedOver(j) == job[j].track = "WITH_PARTS" /\ job[j].done >= 6

\* Its requisition is settled: withdrawn by the hand-over, and only by it.
Settled(j) ==
  /\ HandedOver(j) => line[j].kind # "PENDING_WITHDRAW"
  /\ line[j].kind = "WITHDRAW" => HandedOver(j)

\* Only a plan without a repair leaves a ticket UNREPAIRABLE.
UnrepairableByPlan(j) ==
  job[j].status = "UNREPAIRABLE" => job[j].track = "UNREPAIRABLE"

\* What a request knows of a plan that is still the plan of its ticket.
StillTrue(r) ==
  /\ r.op \in {"STEP", "HANDOVER", "COMPLETE_UNREPAIRABLE"}
       => r.plan <= job[r.job].plan
  /\ r.op = "STEP" /\ r.plan = job[r.job].plan
       => r.target <= job[r.job].done + 1
  /\ r.op = "HANDOVER" /\ r.plan = job[r.job].plan
       => /\ job[r.job].track = "WITH_PARTS"
          /\ r.pending = NoLine => line[r.job].kind # "PENDING_WITHDRAW"
  /\ r.op = "COMPLETE_UNREPAIRABLE" /\ r.plan = job[r.job].plan
       => job[r.job].track = "UNREPAIRABLE"

RepairInv ==
  /\ RepairTypeOK
  /\ \A j \in Jobs : Settled(j) /\ UnrepairableByPlan(j)
  /\ \A w \in Workers : StillTrue(req[w])

\* How a ticket may change under a request that has read it: a new plan, or
\* the same plan further on, and a requisition that is pending only if it was.
Advances(j) ==
  \/ job'[j].plan > job[j].plan
  \/ /\ job'[j].plan = job[j].plan /\ job'[j].track = job[j].track
     /\ job'[j].done >= job[j].done
     /\ line'[j].kind = "PENDING_WITHDRAW" => line[j].kind = "PENDING_WITHDRAW"

(* Tickets that advance keep true what the requests in progress know.      *)
LEMMA AdvanceKeepsTruth ==
  ASSUME RepairInv, RepairTypeOK', NEW w \in Workers, Advances(req[w].job),
         req[w].op \in {"STEP", "HANDOVER", "COMPLETE_UNREPAIRABLE"},
         req'[w] = req[w]
  PROVE  StillTrue(req[w])'
<1> DEFINE r == req[w]
           j == r.job
<1>1. /\ r \in Requests /\ j \in Jobs /\ StillTrue(r)
      /\ job[j] \in JobRow /\ job'[j] \in JobRow
  BY RequestFields DEF RepairInv, RepairTypeOK
<1>2. r.plan \in Nat /\ (r.op = "STEP" => r.target \in Nat)
  BY <1>1, RequestFields
<1>3. /\ job[j].plan \in Nat /\ job'[j].plan \in Nat
      /\ job[j].done \in Nat /\ job'[j].done \in Nat
  BY <1>1 DEF JobRow
<1> HIDE DEF r, j
<1>4. Advances(j)
  BY DEF r, j
<1>5. StillTrue(r)'
  <2>1. req'[w] = r
    BY DEF r
  <2>2. CASE job'[j].plan > job[j].plan
    BY <1>1, <1>2, <1>3, <2>2 DEF StillTrue, r, j
  <2>3. CASE job'[j].plan = job[j].plan
    BY <1>1, <1>2, <1>3, <1>4, <2>3 DEF StillTrue, Advances, r, j
  <2> QED
    BY <1>3, <1>4, <2>2, <2>3 DEF Advances
<1> QED
  BY <1>5 DEF r

\* A ticket that is not touched is as good as it was.
LEMMA UntouchedTicket ==
  ASSUME RepairInv, NEW j \in Jobs, job'[j] = job[j], line'[j] = line[j]
  PROVE  Advances(j) /\ Settled(j)' /\ UnrepairableByPlan(j)'
<1>1. job[j] \in JobRow /\ Settled(j) /\ UnrepairableByPlan(j)
  BY DEF RepairInv, RepairTypeOK
<1>2. job[j].done \in Nat
  BY <1>1 DEF JobRow
<1> QED
  BY <1>1, <1>2 DEF Advances, Settled, HandedOver, UnrepairableByPlan

\* A step of w is checked against the tickets and the next request of w.
LEMMA TicketsAdvance ==
  ASSUME RepairInv, RepairTypeOK', NEW w \in Workers,
         \A v \in Workers \ {w} : req'[v] = req[v],
         StillTrue(req[w])',
         \A j \in Jobs : Advances(j) /\ Settled(j)' /\ UnrepairableByPlan(j)'
  PROVE  RepairInv'
<1>1. ASSUME NEW v \in Workers \ {w}
      PROVE  StillTrue(req[v])'
  <2>1. CASE req[v].op \in {"STEP", "HANDOVER", "COMPLETE_UNREPAIRABLE"}
    <3>1. req[v].job \in Jobs
      BY <2>1, RequestFields DEF RepairInv, RepairTypeOK
    <3> QED
      BY <2>1, <3>1, AdvanceKeepsTruth
  <2>2. CASE req[v].op \notin {"STEP", "HANDOVER", "COMPLETE_UNREPAIRABLE"}
    BY <2>2 DEF StillTrue
  <2> QED
    BY <2>1, <2>2
<1> QED
  BY <1>1 DEF RepairInv

\* A request that has written what it wanted knows nothing any more.
LEMMA FinishedKnowsNothing ==
  ASSUME RepairTypeOK, NEW w \in Workers, Finish(w)
  PROVE  /\ \A v \in Workers \ {w} : req'[v] = req[v]
         /\ StillTrue(req[w])'
<1>1. req'[w] = NoReq /\ \A v \in Workers \ {w} : req'[v] = req[v]
  BY DEF Finish, RepairTypeOK
<1> QED
  BY <1>1 DEF StillTrue, NoReq

\* What a request has just read is true.
LEMMA ReadStageInv ==
  ASSUME RepairInv, RepairTypeOK', NEW w \in Workers, ReadStage(w)
  PROVE  RepairInv'
<1>1. /\ job' = job /\ line' = line
      /\ \A v \in Workers \ {w} : req'[v] = req[v]
  BY DEF ReadStage, ReadCreateRequest, ReadAssign, ReadDiagnose, ReadStep,
         ReadReject, ReadCompleteUnrepairable, ReadCancel, ReadReturn, Read,
         RepairInv, RepairTypeOK
<1>2. ASSUME NEW r \in Requests, Read(w, r)
      PROVE  req'[w] = r
  BY <1>2 DEF Read, RepairInv, RepairTypeOK
<1>3. StillTrue(req[w])'
  <2>1. ASSUME NEW j \in Jobs, ReadStep(w, j)
        PROVE  StillTrue(req[w])'
    <3>1. job[j] \in JobRow
      BY DEF RepairInv, RepairTypeOK
    <3>2. job[j].plan \in Nat /\ job[j].done + 1 \in 1 .. 8
      BY <2>1, <3>1 DEF ReadStep, JobRow, TotalSteps
    <3>3. req'[w] = [op |-> "STEP", job |-> j, plan |-> job[j].plan,
                     target |-> job[j].done + 1]
      BY <1>2, <2>1, <3>2, RequestRecords DEF ReadStep
    <3> QED
      BY <1>1, <3>2, <3>3 DEF StillTrue
  <2>2. ASSUME NEW j \in Jobs, ReadCompleteUnrepairable(w, j)
        PROVE  StillTrue(req[w])'
    <3>1. job[j] \in JobRow /\ UnrepairableByPlan(j)
      BY DEF RepairInv, RepairTypeOK
    <3>2. job[j].plan \in Nat /\ job[j].done \in 0 .. 8
      BY <3>1 DEF JobRow
    <3>3. req'[w] = [op |-> "COMPLETE_UNREPAIRABLE", job |-> j,
                     plan |-> job[j].plan, done |-> job[j].done]
      BY <1>2, <2>2, <3>2, RequestRecords DEF ReadCompleteUnrepairable
    <3> QED
      BY <1>1, <2>2, <3>1, <3>2, <3>3
         DEF StillTrue, ReadCompleteUnrepairable, UnrepairableByPlan
  <2>3. ASSUME NEW r, Read(w, r),
               r.op \notin {"STEP", "HANDOVER", "COMPLETE_UNREPAIRABLE"}
        PROVE  StillTrue(req[w])'
    <3>1. req'[w] = r
      BY <2>3 DEF Read, RepairInv, RepairTypeOK
    <3> QED
      BY <2>3, <3>1 DEF StillTrue
  <2>4. CASE ReadCreateRequest(w)
    BY <2>3, <2>4 DEF ReadCreateRequest
  <2>5. ASSUME NEW j \in Jobs, ReadAssign(w, j)
        PROVE  StillTrue(req[w])'
    BY <2>3, <2>5 DEF ReadAssign
  <2>6. ASSUME NEW j \in Jobs, NEW to \in Diagnoses, ReadDiagnose(w, j, to)
        PROVE  StillTrue(req[w])'
    BY <2>3, <2>6 DEF ReadDiagnose
  <2>7. ASSUME NEW j \in Jobs, ReadReject(w, j)
        PROVE  StillTrue(req[w])'
    BY <2>3, <2>7 DEF ReadReject
  <2>8. ASSUME NEW j \in Jobs, ReadCancel(w, j)
        PROVE  StillTrue(req[w])'
    BY <2>3, <2>8 DEF ReadCancel
  <2>9. ASSUME NEW j \in Jobs, NEW qty \in Quantities, ReadReturn(w, j, qty)
        PROVE  StillTrue(req[w])'
    BY <2>3, <2>9 DEF ReadReturn
  <2> QED
    BY <2>1, <2>2, <2>4, <2>5, <2>6, <2>7, <2>8, <2>9 DEF ReadStage
<1> QED
  BY <1>1, <1>3, TicketsAdvance, UntouchedTicket

\* A transaction that finishes is checked against its own ticket.
LEMMA TransactionInv ==
  ASSUME RepairInv, RepairTypeOK', NEW w \in Workers, Finish(w),
         NEW j \in Jobs,
         \A k \in Jobs \ {j} : job'[k] = job[k] /\ line'[k] = line[k],
         Advances(j), Settled(j)', UnrepairableByPlan(j)'
  PROVE  RepairInv'
<1>1. \A k \in Jobs : Advances(k) /\ Settled(k)' /\ UnrepairableByPlan(k)'
  BY UntouchedTicket
<1>2. RepairTypeOK
  BY DEF RepairInv
<1> QED
  BY <1>1, <1>2, TicketsAdvance, FinishedKnowsNothing

\* A write of the status alone, of a ticket that it does not make UNREPAIRABLE.
LEMMA StatusWriteInv ==
  ASSUME RepairInv, RepairTypeOK', NEW w \in Workers, Finish(w),
         NEW j \in Jobs, NEW s, s # "UNREPAIRABLE",
         job' = [job EXCEPT ![j].status = s],
         line' = line \/ line' = [line EXCEPT ![j] = DropPending(@)]
  PROVE  RepairInv'
<1>1. /\ job \in [Jobs -> JobRow] /\ line \in [Jobs -> LineRow]
      /\ job[j] \in JobRow /\ line[j] \in LineRow /\ Settled(j)
  BY DEF RepairInv, RepairTypeOK
<1>2. /\ job'[j].track = job[j].track /\ job'[j].plan = job[j].plan
      /\ job'[j].done = job[j].done /\ job'[j].status = s
      /\ \A k \in Jobs \ {j} : job'[k] = job[k]
  BY <1>1 DEF JobRow
<1>3. /\ \A k \in Jobs \ {j} : line'[k] = line[k]
      /\ line'[j].kind = "PENDING_WITHDRAW" => line[j].kind = "PENDING_WITHDRAW"
      /\ line'[j].kind = "WITHDRAW" => line[j].kind = "WITHDRAW"
  BY <1>1 DEF DropPending, NoLine
<1>4. job[j].done \in Nat
  BY <1>1 DEF JobRow
<1>5. Advances(j) /\ Settled(j)' /\ UnrepairableByPlan(j)'
  BY <1>1, <1>2, <1>3, <1>4
     DEF Advances, Settled, HandedOver, UnrepairableByPlan
<1> QED
  BY <1>2, <1>3, <1>5, TransactionInv

\* What completing a step of the current plan does to the ticket.
LEMMA CompletedStep ==
  ASSUME RepairTypeOK, NEW j \in Jobs, NEW target \in 1 .. 8,
         CompleteStep(j, target)
  PROVE  /\ \A k \in Jobs \ {j} : job'[k] = job[k]
         /\ job'[j].track = job[j].track /\ job'[j].plan = job[j].plan
         /\ job'[j].done = IF job[j].done < target THEN target ELSE job[j].done
         /\ job'[j].status = StepStatus(job[j], target)
         /\ job'[j].status = "UNREPAIRABLE" => job[j].status = "UNREPAIRABLE"
<1>1. job \in [Jobs -> JobRow] /\ job[j] \in JobRow
  BY DEF RepairTypeOK
<1>2. /\ \A k \in Jobs \ {j} : job'[k] = job[k]
      /\ job'[j].track = job[j].track /\ job'[j].plan = job[j].plan
      /\ job'[j].done = IF job[j].done < target THEN target ELSE job[j].done
      /\ job'[j].status = StepStatus(job[j], target)
  BY <1>1 DEF CompleteStep, JobRow
<1>3. StepStatus(job[j], target) = "UNREPAIRABLE"
        => job[j].status = "UNREPAIRABLE"
  BY DEF StepStatus
<1> QED
  BY <1>2, <1>3

\* Every transaction keeps what is known of plans and requisitions.
LEMMA CommitStageInv ==
  ASSUME RepairInv, RepairTypeOK', NEW w \in Workers, CommitStage(w)
  PROVE  RepairInv'
<1> DEFINE r == req[w]
<1>1. /\ RepairTypeOK
      /\ job \in [Jobs -> JobRow] /\ line \in [Jobs -> LineRow]
      /\ r \in Requests /\ StillTrue(r)
      /\ \A k \in Jobs : /\ job[k] \in JobRow /\ line[k] \in LineRow
                         /\ Settled(k) /\ UnrepairableByPlan(k)
  BY DEF RepairInv, RepairTypeOK
<1>2. \A k \in Jobs : job[k].plan \in Nat /\ job[k].done \in Nat
  BY <1>1 DEF JobRow
<1>3. CASE CommitCreateRequest(w)
  BY <1>3, StatusWriteInv DEF CommitCreateRequest
<1>4. CASE CommitAssign(w)
  BY <1>1, <1>4, RequestFields, StatusWriteInv DEF CommitAssign
<1>5. CASE CommitDiagnose(w)
  <2>1. PICK j \in Jobs : j = r.job /\ r.to \in Diagnoses
    BY <1>1, <1>5, RequestFields DEF CommitDiagnose
  <2>2. /\ job'[j].plan = job[j].plan + 1 /\ job'[j].track = r.to.track
        /\ job'[j].status = DiagnosedStatus(r.to)
        /\ job'[j].done = DiagnosedSteps(r.to.track)
        /\ line'[j] = r.to.line
        /\ \A k \in Jobs \ {j} : job'[k] = job[k] /\ line'[k] = line[k]
    BY <1>1, <1>5, <2>1 DEF CommitDiagnose
  <2>3. /\ r.to.line.kind # "WITHDRAW"
        /\ DiagnosedStatus(r.to) = "UNREPAIRABLE" => r.to.track = "UNREPAIRABLE"
        /\ DiagnosedSteps(r.to.track) \in 3 .. 4
    BY <2>1 DEF Diagnoses, Tracks, NoLine, Requisition, DiagnosedStatus,
                DiagnosedSteps
  <2>4. Advances(j) /\ Settled(j)' /\ UnrepairableByPlan(j)'
    BY <1>2, <2>1, <2>2, <2>3
       DEF Advances, Settled, HandedOver, UnrepairableByPlan
  <2> QED
    BY <1>5, <2>1, <2>2, <2>4, TransactionInv DEF CommitDiagnose
<1>6. CASE CommitStep(w)
  <2>1. PICK j \in Jobs :
        /\ j = r.job /\ r.target \in 1 .. 8 /\ CompleteStep(j, r.target)
        /\ r.op = "STEP" /\ r.plan = job[j].plan /\ line' = line
        /\ ~ IsHandover(job[j], r.target)
    BY <1>1, <1>6, RequestFields DEF CommitStep
  <2>2. r.target <= job[j].done + 1
    BY <1>1, <2>1 DEF StillTrue
  <2>3. /\ Advances(j)
        /\ HandedOver(j)' <=> HandedOver(j)
        /\ UnrepairableByPlan(j)'
        /\ \A k \in Jobs \ {j} : job'[k] = job[k]
    BY <1>1, <1>2, <2>1, <2>2, CompletedStep
       DEF Advances, HandedOver, IsHandover, UnrepairableByPlan
  <2> QED
    BY <1>1, <1>6, <2>1, <2>3, TransactionInv DEF Settled, CommitStep
<1>7. CASE ReadHandover(w)
  <2> DEFINE l == line[r.job]
             pending == IF l.kind = "PENDING_WITHDRAW" THEN l ELSE NoLine
  <2>1. PICK j \in Jobs :
        /\ j = r.job /\ job[j].track = "WITH_PARTS" /\ r.plan = job[j].plan
        /\ job' = job /\ line' = line
        /\ req' = [req EXCEPT ![w] = [op |-> "HANDOVER", job |-> j,
                                      plan |-> r.plan, pending |-> pending]]
    BY <1>1, <1>7, RequestFields DEF ReadHandover, IsHandover
  <2>2. req'[w] = [op |-> "HANDOVER", job |-> j, plan |-> r.plan,
                   pending |-> pending]
    BY <1>1, <2>1 DEF RepairTypeOK
  <2>3. pending = NoLine => line[j].kind # "PENDING_WITHDRAW"
    BY <2>1 DEF NoLine
  <2>4. StillTrue(req[w])'
    BY <1>2, <2>1, <2>2, <2>3 DEF StillTrue
  <2>5. \A v \in Workers \ {w} : req'[v] = req[v]
    BY <1>1, <2>1 DEF RepairTypeOK
  <2> QED
    BY <2>1, <2>4, <2>5, TicketsAdvance, UntouchedTicket
<1>8. CASE CommitHandover(w)
  <2>1. PICK j \in Jobs :
        /\ j = r.job /\ CompleteStep(j, 6) /\ r.pending \in LineRow
        /\ r.op = "HANDOVER" /\ r.plan = job[j].plan
    BY <1>1, <1>8, RequestFields DEF CommitHandover
  <2>2. /\ job[j].track = "WITH_PARTS"
        /\ r.pending = NoLine => line[j].kind # "PENDING_WITHDRAW"
    BY <1>1, <2>1 DEF StillTrue
  <2>3. /\ line'[j].kind # "PENDING_WITHDRAW"
        /\ \A k \in Jobs \ {j} : line'[k] = line[k]
    BY <1>1, <1>8, <2>1, <2>2 DEF CommitHandover, LineRow
  <2>4. /\ Advances(j) /\ HandedOver(j)' /\ UnrepairableByPlan(j)'
        /\ \A k \in Jobs \ {j} : job'[k] = job[k]
    BY <1>1, <1>2, <2>1, <2>2, <2>3, CompletedStep
       DEF Advances, HandedOver, UnrepairableByPlan
  <2> QED
    BY <1>8, <2>1, <2>3, <2>4, TransactionInv DEF Settled, CommitHandover
<1>9. CASE CommitReject(w)
  <2>1. PICK j \in Jobs : j = r.job
    BY <1>1, <1>9, RequestFields DEF CommitReject
  <2>2. /\ job'[j].track = job[j].track /\ job'[j].plan = job[j].plan
        /\ job'[j].done = job[j].done /\ job'[j].status = "IN_PROGRESS"
        /\ \A k \in Jobs \ {j} : job'[k] = job[k]
    BY <1>1, <1>9, <2>1 DEF CommitReject, JobRow
  <2>3. /\ \A k \in Jobs \ {j} : line'[k] = line[k]
        /\ line'[j].kind # "PENDING_WITHDRAW"
        /\ line'[j].kind = "WITHDRAW" => line[j].kind = "WITHDRAW"
    BY <1>1, <1>9, <2>1 DEF CommitReject, DropPending, NoLine
  <2>4. Advances(j) /\ Settled(j)' /\ UnrepairableByPlan(j)'
    BY <1>1, <1>2, <2>1, <2>2, <2>3
       DEF Advances, Settled, HandedOver, UnrepairableByPlan
  <2> QED
    BY <1>9, <2>1, <2>2, <2>3, <2>4, TransactionInv DEF CommitReject
<1>10. CASE CommitCompleteUnrepairable(w)
  <2>1. PICK j \in Jobs :
          j = r.job /\ r.op = "COMPLETE_UNREPAIRABLE" /\ line' = line
    BY <1>1, <1>10, RequestFields DEF CommitCompleteUnrepairable
  <2>2. /\ job'[j].track = job[j].track /\ job'[j].plan = job[j].plan
        /\ job'[j].done = IF job[j].plan = r.plan THEN 8 ELSE job[j].done
        /\ job'[j].status = "COMPLETED"
        /\ \A k \in Jobs \ {j} : job'[k] = job[k]
    BY <1>1, <1>10, <2>1 DEF CommitCompleteUnrepairable, JobRow
  <2>3. job[j].plan = r.plan => job[j].track = "UNREPAIRABLE"
    BY <1>1, <2>1 DEF StillTrue
  <2>4. job[j].done <= 8
    BY <1>1, <2>1 DEF JobRow
  <2>5. Advances(j) /\ Settled(j)' /\ UnrepairableByPlan(j)'
    BY <1>1, <1>2, <2>1, <2>2, <2>3, <2>4
       DEF Advances, Settled, HandedOver, UnrepairableByPlan
  <2> QED
    BY <1>10, <2>1, <2>2, <2>5, TransactionInv DEF CommitCompleteUnrepairable
<1>11. CASE CommitCancel(w)
  BY <1>1, <1>11, RequestFields, StatusWriteInv DEF CommitCancel
<1>12. CASE CommitReturn(w) \/ Abort(w)
  <2>1. Finish(w) /\ job' = job /\ line' = line
    BY <1>12 DEF CommitReturn, Abort
  <2> QED
    BY <1>1, <2>1, TicketsAdvance, UntouchedTicket, FinishedKnowsNothing
<1> QED
  BY <1>3, <1>4, <1>5, <1>6, <1>7, <1>8, <1>9, <1>10, <1>11, <1>12
     DEF CommitStage

\* The invariant holds from the start,
LEMMA RepairInvInit == RepairInit => RepairInv
  BY RepairTypeInit
     DEF RepairInit, RepairInv, NoJob, NoLine, NoReq, Settled, HandedOver,
         UnrepairableByPlan, StillTrue

\* and through every step.
LEMMA RepairInvCorrect == RepairSpec => []RepairInv
<1>1. RepairInit => RepairInv
  BY RepairInvInit
<1>2. RepairInv /\ [RepairNext]_repairVars => RepairInv'
  <2> SUFFICES ASSUME RepairInv, [RepairNext]_repairVars PROVE RepairInv'
    OBVIOUS
  <2>1. RepairTypeOK'
    BY RepairTypeStep DEF RepairInv
  <2>2. CASE UNCHANGED repairVars
    BY <2>1, <2>2
       DEF repairVars, RepairInv, Settled, HandedOver, UnrepairableByPlan,
           StillTrue
  <2> QED
    BY <2>1, <2>2, ReadStageInv, CommitStageInv DEF RepairNext
<1> QED
  BY <1>1, <1>2, PTL DEF RepairSpec

(* After the batch hand-over nothing of the requisition is pending, and    *)
(* only it withdraws parts, whatever re-diagnosis, rejection or repeated   *)
(* hand-over overlaps with it in repairs.service.ts.                       *)
THEOREM HandoversSettle == RepairSpec => []HandoverSettlesRequisition
<1>1. RepairInv => HandoverSettlesRequisition
  BY DEF RepairInv, Settled, HandedOver, HandoverSettlesRequisition
<1> QED
  BY <1>1, RepairInvCorrect, PTL

(* No interleaving of assignment, diagnosis, steps, hand-over, rejection,  *)
(* receipt and cancellation leaves an asset under repair without a ticket  *)
(* that can still be closed.                                               *)
THEOREM UnderRepairIsLookedAfter == RepairSpec => []UnderRepairHasActiveJob
<1>1. RepairInit => UnderRepairHasActiveJob
  BY DEF RepairInit, UnderRepairHasActiveJob, RegisteredAsset, LendableAsset, Row
<1>2. RepairInv /\ UnderRepairHasActiveJob /\ [RepairNext]_repairVars
        => UnderRepairHasActiveJob'
  <2> SUFFICES ASSUME RepairInv, UnderRepairHasActiveJob, [RepairNext]_repairVars,
                      asset'.status = "UNDER_REPAIR"
               PROVE  \E j \in Jobs : Active(j)'
    BY DEF UnderRepairHasActiveJob
  <2>1. /\ RepairTypeOK /\ job \in [Jobs -> JobRow] /\ req \in [Workers -> Requests]
        /\ \A w \in Workers : StillTrue(req[w])
    BY DEF RepairInv, RepairTypeOK
  \* The step makes a ticket active.
  <2>2. ASSUME NEW j \in Jobs,
               job'[j].status \in JobStatus \ {"COMPLETED", "CANCELLED"}
        PROVE  \E k \in Jobs : Active(k)'
    BY <2>2 DEF Active, JobStatus
  \* The step leaves the asset, and every active ticket active.
  <2>3. ASSUME asset' = asset, \A j \in Jobs : Active(j) => Active(j)'
        PROVE  \E k \in Jobs : Active(k)'
    BY <2>3 DEF UnderRepairHasActiveJob
  <2>4. ASSUME asset' = asset, job' = job
        PROVE  \E k \in Jobs : Active(k)'
    BY <2>3, <2>4 DEF Active
  <2>5. ASSUME NEW w \in Workers, ReadStage(w)
        PROVE  asset' = asset /\ job' = job
    BY <2>5
       DEF ReadStage, ReadCreateRequest, ReadAssign, ReadDiagnose, ReadStep,
           ReadReject, ReadCompleteUnrepairable, ReadCancel, ReadReturn, Read
  <2>6. ASSUME NEW w \in Workers, CommitStage(w)
        PROVE  \E k \in Jobs : Active(k)'
    <3> DEFINE j == req[w].job
    <3>1. req[w] \in Requests /\ StillTrue(req[w])
      BY <2>1
    <3>2. CASE CommitCreateRequest(w)
      <4>1. PICK k \in Jobs : job' = [job EXCEPT ![k].status = "PENDING_ASSIGN"]
        BY <3>2 DEF CommitCreateRequest
      <4>2. job'[k].status = "PENDING_ASSIGN"
        BY <2>1, <4>1 DEF JobRow
      <4> QED
        BY <2>2, <4>2 DEF JobStatus
    <3>3. CASE CommitAssign(w) \/ CommitReject(w)
      <4>1. j \in Jobs
        BY <3>1, <3>3, RequestFields DEF CommitAssign, CommitReject
      <4>2. job'[j].status = "IN_PROGRESS"
        BY <2>1, <3>3, <4>1 DEF CommitAssign, CommitReject, JobRow
      <4> QED
        BY <2>2, <4>1, <4>2 DEF JobStatus
    <3>4. CASE CommitDiagnose(w)
      <4>1. j \in Jobs /\ req[w].to \in Diagnoses
        BY <3>1, <3>4, RequestFields DEF CommitDiagnose
      <4>2. job'[j].status = DiagnosedStatus(req[w].to)
        BY <2>1, <3>4, <4>1 DEF CommitDiagnose
      <4>3. DiagnosedStatus(req[w].to) \in JobStatus \ {"COMPLETED", "CANCELLED"}
        BY <4>1, LineFacts DEF DiagnosedStatus, JobStatus, Tracks
      <4> QED
        BY <2>2, <4>1, <4>2, <4>3
    <3>5. CASE CommitStep(w)
      <4>1. /\ j \in Jobs /\ req[w].target \in 1 .. 8
            /\ CompleteStep(j, req[w].target)
        BY <3>1, <3>5, RequestFields DEF CommitStep
      <4>2. req[w].target # TotalSteps(job[j].track) /\ asset' = asset
        BY <3>5 DEF CommitStep, LendableAsset, Row
      <4>3. \/ StepStatus(job[j], req[w].target)
                 \in JobStatus \ {"COMPLETED", "CANCELLED"}
            \/ StepStatus(job[j], req[w].target) = job[j].status
        BY <4>2 DEF StepStatus, JobStatus
      <4>4. /\ job'[j].status = StepStatus(job[j], req[w].target)
            /\ \A k \in Jobs \ {j} : job'[k] = job[k]
        BY <2>1, <4>1, CompletedStep
      <4> QED
        BY <2>2, <2>3, <4>1, <4>2, <4>3, <4>4 DEF Active
    <3>6. CASE CommitHandover(w)
      <4>1. j \in Jobs /\ CompleteStep(j, 6)
        BY <3>1, <3>6, RequestFields DEF CommitHandover
      <4>2. job[j].track = "WITH_PARTS"
        BY <3>1, <3>6 DEF StillTrue, CommitHandover
      <4>3. job'[j].status = "IN_PROGRESS"
        BY <2>1, <4>1, <4>2, CompletedStep DEF StepStatus, TotalSteps
      <4> QED
        BY <2>2, <4>1, <4>3 DEF JobStatus
    <3>7. CASE CommitCompleteUnrepairable(w) \/ CommitCancel(w)
      BY <3>7 DEF CommitCompleteUnrepairable, CommitCancel, LendableAsset, Row
    <3>8. CASE ReadHandover(w) \/ CommitReturn(w) \/ Abort(w)
      BY <2>4, <3>8 DEF ReadHandover, CommitReturn, Abort
    <3> QED
      BY <2>6, <3>2, <3>3, <3>4, <3>5, <3>6, <3>7, <3>8 DEF CommitStage
  <2>7. CASE UNCHANGED repairVars
    BY <2>4, <2>7 DEF repairVars
  <2> QED
    BY <2>4, <2>5, <2>6, <2>7 DEF RepairNext
<1> QED
  BY <1>1, <1>2, RepairInvCorrect, PTL DEF RepairSpec

----------------------------------------------------------------------------
(* A set of natural numbers that is not empty has a least element.         *)
LEMMA LeastNatural ==
  ASSUME NEW T \in SUBSET Nat, T # {}
  PROVE  \E n \in T : \A m \in T : n <= m
<1>1. PICK n \in T : \A m \in T : ~(<<m, n>> \in OpToRel(<, Nat))
  BY NatLessThanWellFounded, WFMin
<1>2. ASSUME NEW m \in T, m < n
      PROVE  FALSE
  <2>1. m \in Nat /\ n \in Nat /\ <<m, n>> \in OpToRel(<, Nat)
    BY <1>2 DEF OpToRel
  <2>2. QED
    BY <1>1, <2>1
<1>3. n \in Nat /\ \A m \in T : m \in Nat /\ ~(m < n)
  BY <1>2
<1> HIDE <1>1, <1>2
<1> QED
  BY <1>3

(* A set of subsets of a finite set has a least one.                       *)
LEMMA LeastSubset ==
  ASSUME NEW S, IsFiniteSet(S), NEW T \in SUBSET SUBSET S, T # {}
  PROVE  \E s \in T : \A t \in T : t \subseteq s => t = s
<1>1. T \subseteq FiniteSubsetsOf(S)
  BY FS_FiniteSubsetsOfFinite
<1>2. PICK s \in T : \A t \in T : ~(<<t, s>> \in StrictSubsetOrdering(S))
  BY <1>1, FS_StrictSubsetOrderingWellFounded, WFMin
<1> QED
  BY <1>2 DEF StrictSubsetOrdering

----------------------------------------------------------------------------
Picked(s) == CHOOSE x \in s : TRUE

\* The equation that defines a sum, for the subsets in D.
IsSum(f, D, g) ==
  g = [s \in D |-> IF s = {} THEN 0 ELSE f[Picked(s)] + g[s \ {Picked(s)}]]

Sums(f, S) == CHOOSE g : IsSum(f, SUBSET S, g)

UpTo(S, n) == {s \in SUBSET S : Cardinality(s) <= n}

LEMMA SumFunctionIsSums == \A f : SumFunction(f) = Sums(f, DOMAIN f)[DOMAIN f]
  BY DEF SumFunction, SumFunctionOnSet, FoldFunctionOnSet, MapThenFoldSet,
         Sums, IsSum, Picked

LEMMA PickedFacts ==
  ASSUME NEW S, IsFiniteSet(S), NEW s \in SUBSET S, s # {}
  PROVE  /\ Picked(s) \in s /\ s \ {Picked(s)} \in SUBSET S
         /\ Cardinality(s \ {Picked(s)}) = Cardinality(s) - 1
         /\ Cardinality(s) \in Nat \ {0} /\ Cardinality(s \ {Picked(s)}) \in Nat
<1>1. Picked(s) \in s
  BY DEF Picked
<1>2. IsFiniteSet(s) /\ IsFiniteSet(s \ {Picked(s)})
  BY FS_Subset
<1>3. Cardinality(s) \in Nat /\ Cardinality(s \ {Picked(s)}) \in Nat
  BY <1>2, FS_CardinalityType
<1>4. Cardinality(s \ {Picked(s)}) = Cardinality(s) - 1
  BY <1>1, <1>2, FS_RemoveElement
<1> QED
  BY <1>1, <1>3, <1>4

(* Induction over the subsets of a finite set: what is wrong of one of     *)
(* them is wrong of a smaller one, and not of the empty one.               *)
LEMMA NoSubsetIsBad ==
  ASSUME NEW S, IsFiniteSet(S), NEW Bad \in SUBSET SUBSET S, {} \notin Bad,
         \A t \in Bad : t # {} => t \ {Picked(t)} \in Bad
  PROVE  Bad = {}
<1>1. SUFFICES ASSUME Bad # {}
               PROVE  FALSE
  OBVIOUS
<1>2. PICK t \in Bad : \A u \in Bad : u \subseteq t => u = t
  BY <1>1, LeastSubset
<1>3. t # {} /\ Picked(t) \in t /\ t \ {Picked(t)} \in Bad
  BY PickedFacts
<1> QED
  BY <1>2, <1>3

LEMMA SumExistsUpTo ==
  ASSUME NEW S, IsFiniteSet(S), NEW f, NEW n \in Nat
  PROVE  \E g : IsSum(f, UpTo(S, n), g)
<1> DEFINE Missing == {m \in Nat : ~ \E g : IsSum(f, UpTo(S, m), g)}
<1>1. SUFFICES ASSUME Missing # {}
               PROVE  FALSE
  OBVIOUS
<1>2. PICK m \in Missing : \A k \in Missing : m <= k
  BY <1>1, LeastNatural
<1>3. \A s \in SUBSET S : Cardinality(s) \in Nat /\ (Cardinality(s) = 0 <=> s = {})
  BY FS_Subset, FS_CardinalityType, FS_EmptySet
<1>4. CASE m = 0
  <2>1. UpTo(S, 0) = {{}}
    BY <1>3 DEF UpTo
  <2>2. IsSum(f, UpTo(S, 0), [s \in {{}} |-> 0])
    BY <2>1 DEF IsSum
  <2>3. QED
    BY <1>4, <2>2
<1>5. CASE m # 0
  <2>1. m - 1 \in Nat /\ m - 1 \notin Missing
    BY <1>2, <1>5
  <2>2. PICK g : IsSum(f, UpTo(S, m - 1), g)
    BY <2>1
  <2> DEFINE h == [s \in UpTo(S, m) |->
                     IF s = {} THEN 0 ELSE f[Picked(s)] + g[s \ {Picked(s)}]]
  <2>3. ASSUME NEW s \in UpTo(S, m - 1)
        PROVE  h[s] = g[s]
    <3>1. s \in UpTo(S, m)
      BY <1>3, <2>1 DEF UpTo
    <3>2. QED
      BY <2>2, <3>1 DEF IsSum
  <2>4. ASSUME NEW s \in UpTo(S, m), s # {}
        PROVE  s \ {Picked(s)} \in UpTo(S, m - 1)
    BY <2>1, <2>4, PickedFacts DEF UpTo
  <2>5. h = [s \in UpTo(S, m) |->
               IF s = {} THEN 0 ELSE f[Picked(s)] + h[s \ {Picked(s)}]]
    BY <2>3, <2>4
  <2>6. IsSum(f, UpTo(S, m), h)
    <3> HIDE DEF h
    <3> QED BY <2>5 DEF IsSum
  <2>7. QED
    BY <1>2, <2>6
<1> QED
  BY <1>4, <1>5

(* The sums of a function over the subsets of a finite set exist, and obey *)
(* their equation.                                                         *)
LEMMA SumsEquation ==
  ASSUME NEW S, IsFiniteSet(S), NEW f, NEW s \in SUBSET S
  PROVE  Sums(f, S)[s] = IF s = {} THEN 0
                         ELSE f[Picked(s)] + Sums(f, S)[s \ {Picked(s)}]
<1>1. Cardinality(S) \in Nat
  BY FS_CardinalityType
<1>2. UpTo(S, Cardinality(S)) = SUBSET S
  BY FS_Subset DEF UpTo
<1>3. \E g : IsSum(f, UpTo(S, Cardinality(S)), g)
  BY <1>1, SumExistsUpTo
<1>4. IsSum(f, SUBSET S, Sums(f, S))
  BY <1>2, <1>3 DEF Sums
<1> HIDE DEF Sums
<1> QED
  BY <1>4 DEF IsSum

LEMMA EmptySum ==
  ASSUME NEW S, IsFiniteSet(S), NEW f
  PROVE  Sums(f, S)[{}] = 0
<1>1. {} \in SUBSET S
  OBVIOUS
<1> QED
  BY <1>1, SumsEquation

LEMMA SumsType ==
  ASSUME NEW S, IsFiniteSet(S), NEW f \in [S -> Int], NEW s \in SUBSET S
  PROVE  Sums(f, S)[s] \in Int
<1> DEFINE Bad == {t \in SUBSET S : Sums(f, S)[t] \notin Int}
<1>1. {} \notin Bad
  BY EmptySum
<1>2. ASSUME NEW t \in Bad, t # {}
      PROVE  t \ {Picked(t)} \in Bad
  <2>1. Sums(f, S)[t] = f[Picked(t)] + Sums(f, S)[t \ {Picked(t)}]
    BY <1>2, SumsEquation
  <2>2. f[Picked(t)] \in Int /\ t \ {Picked(t)} \in SUBSET S
    BY <1>2, PickedFacts
  <2> QED
    BY <2>1, <2>2
<1>3. Bad \in SUBSET SUBSET S
  OBVIOUS
<1> HIDE DEF Bad
<1>4. Bad = {}
  BY <1>1, <1>2, <1>3, NoSubsetIsBad
<1> QED
  BY <1>4 DEF Bad

(* Two functions that differ at one point have sums that differ as much.   *)
LEMMA SumsDiffer ==
  ASSUME NEW S, IsFiniteSet(S), NEW f \in [S -> Int], NEW g \in [S -> Int],
         NEW j \in S, \A i \in S \ {j} : f[i] = g[i], NEW s \in SUBSET S
  PROVE  Sums(g, S)[s] = Sums(f, S)[s] + (IF j \in s THEN g[j] - f[j] ELSE 0)
<1> DEFINE Change(t) == IF j \in t THEN g[j] - f[j] ELSE 0
           Bad == {t \in SUBSET S : Sums(g, S)[t] # Sums(f, S)[t] + Change(t)}
<1>1. {} \notin Bad
  BY EmptySum
<1>2. ASSUME NEW t \in Bad, t # {}
      PROVE  t \ {Picked(t)} \in Bad
  <2> DEFINE x == Picked(t)
             u == t \ {x}
  <2>1. x \in t /\ x \in S /\ t \in SUBSET S /\ u \in SUBSET S
    BY <1>2, PickedFacts
  <2>2. /\ Sums(f, S)[t] = f[x] + Sums(f, S)[u]
        /\ Sums(g, S)[t] = g[x] + Sums(g, S)[u]
    <3>1. Sums(f, S)[t] = f[x] + Sums(f, S)[u]
      BY <1>2, SumsEquation
    <3>2. Sums(g, S)[t] = g[x] + Sums(g, S)[u]
      BY <1>2, SumsEquation
    <3> QED
      BY <3>1, <3>2
  <2>3. Sums(f, S)[u] \in Int /\ Sums(g, S)[u] \in Int
    BY <2>1, SumsType
  <2>4. Sums(g, S)[t] # Sums(f, S)[t] + Change(t)
    OBVIOUS
  <2> HIDE DEF x
  <2>5. Sums(g, S)[u] # Sums(f, S)[u] + Change(u)
    <3>1. CASE x = j
      BY <2>1, <2>2, <2>3, <2>4, <3>1
    <3>2. CASE x # j
      BY <2>1, <2>2, <2>3, <2>4, <3>2
    <3> QED
      BY <3>1, <3>2
  <2> QED
    BY <2>1, <2>5 DEF x
<1>3. Bad \in SUBSET SUBSET S
  OBVIOUS
<1> HIDE DEF Bad
<1>4. Bad = {}
  BY <1>1, <1>2, <1>3, NoSubsetIsBad
<1> QED
  BY <1>4 DEF Bad

LEMMA ZeroSums ==
  ASSUME NEW S, IsFiniteSet(S), NEW f \in [S -> Int], \A i \in S : f[i] = 0,
         NEW s \in SUBSET S
  PROVE  Sums(f, S)[s] = 0
<1> DEFINE Bad == {t \in SUBSET S : Sums(f, S)[t] # 0}
<1>1. {} \notin Bad
  BY EmptySum
<1>2. ASSUME NEW t \in Bad, t # {}
      PROVE  t \ {Picked(t)} \in Bad
  <2>1. Sums(f, S)[t] = f[Picked(t)] + Sums(f, S)[t \ {Picked(t)}]
    BY <1>2, SumsEquation
  <2>2. f[Picked(t)] = 0 /\ t \ {Picked(t)} \in SUBSET S
    BY <1>2, PickedFacts
  <2> QED
    BY <2>1, <2>2
<1>3. Bad \in SUBSET SUBSET S
  OBVIOUS
<1> HIDE DEF Bad
<1>4. Bad = {}
  BY <1>1, <1>2, <1>3, NoSubsetIsBad
<1> QED
  BY <1>4 DEF Bad

(* What the ledger needs of SumFunction: it is an integer, 0 of zeros, and *)
(* moves with the function.                                                *)
LEMMA SumFacts ==
  ASSUME NEW S, IsFiniteSet(S), NEW f \in [S -> Int]
  PROVE  /\ SumFunction(f) \in Int
         /\ (\A i \in S : f[i] = 0) => SumFunction(f) = 0
         /\ \A g \in [S -> Int], j \in S :
              (\A i \in S \ {j} : f[i] = g[i])
                => SumFunction(g) = SumFunction(f) + g[j] - f[j]
<1>1. \A g \in [S -> Int] : SumFunction(g) = Sums(g, S)[S] /\ Sums(g, S)[S] \in Int
  BY SumFunctionIsSums, SumsType
<1>2. ASSUME NEW g \in [S -> Int], NEW j \in S, \A i \in S \ {j} : f[i] = g[i]
      PROVE  SumFunction(g) = SumFunction(f) + g[j] - f[j]
  <2>1. Sums(g, S)[S] = Sums(f, S)[S] + (g[j] - f[j])
    BY <1>2, SumsDiffer
  <2> QED
    BY <1>1, <2>1
<1>3. ASSUME \A i \in S : f[i] = 0
      PROVE  SumFunction(f) = 0
  BY <1>1, <1>3, ZeroSums
<1> QED
  BY <1>1, <1>2, <1>3

----------------------------------------------------------------------------
\* The two sums of the ledger.
Taken == SumFunction([j \in Jobs |-> TakenFromStock(line[j])])

Returns == SumFunction(returned)

\* A line is a natural number of parts taken.
LEMMA TakenType ==
  \A l \in LineRow : TakenFromStock(l) \in Nat /\ Withdrawn(l) \in Nat
  BY DEF LineRow, TakenFromStock, Withdrawn

\* The sums move with the one ticket that is written.
LEMMA SumsMove ==
  ASSUME RepairTypeOK, RepairTypeOK', NEW j \in Jobs,
         \A k \in Jobs \ {j} : line'[k] = line[k] /\ returned'[k] = returned[k]
  PROVE  /\ Taken \in Int /\ Returns \in Int
         /\ Taken' = Taken + TakenFromStock(line'[j]) - TakenFromStock(line[j])
         /\ Returns' = Returns + returned'[j] - returned[j]
<1> DEFINE before == [k \in Jobs |-> TakenFromStock(line[k])]
           after  == [k \in Jobs |-> TakenFromStock(line'[k])]
<1>1. IsFiniteSet(Jobs)
  BY RepairAssumption
<1>2. before \in [Jobs -> Int] /\ after \in [Jobs -> Int]
  BY TakenType DEF RepairTypeOK
<1>3. returned \in [Jobs -> Int] /\ returned' \in [Jobs -> Int]
  BY DEF RepairTypeOK
<1>4. /\ \A k \in Jobs \ {j} : before[k] = after[k]
      /\ before[j] = TakenFromStock(line[j])
      /\ after[j] = TakenFromStock(line'[j])
  OBVIOUS
<1>5. Taken = SumFunction(before) /\ Taken' = SumFunction(after)
  BY DEF Taken
<1> HIDE DEF before, after
<1>6. /\ SumFunction(before) \in Int
      /\ SumFunction(after) = SumFunction(before) + after[j] - before[j]
  BY <1>1, <1>2, <1>4, SumFacts
<1>7. /\ SumFunction(returned) \in Int
      /\ SumFunction(returned')
           = SumFunction(returned) + returned'[j] - returned[j]
  BY <1>1, <1>3, SumFacts
<1> QED
  BY <1>4, <1>5, <1>6, <1>7 DEF Returns

\* The stock moves as the sums do.
LEMMA LedgerMoves ==
  ASSUME RepairTypeOK, RepairTypeOK', LedgerBalanced, NEW j \in Jobs,
         \A k \in Jobs \ {j} : line'[k] = line[k] /\ returned'[k] = returned[k],
         stock' = stock + TakenFromStock(line[j]) - TakenFromStock(line'[j])
                        + returned'[j] - returned[j]
  PROVE  LedgerBalanced'
<1>1. stock = InitStock - Taken + Returns
  BY DEF LedgerBalanced, Taken, Returns
<1>2. /\ line[j] \in LineRow /\ line'[j] \in LineRow
      /\ returned[j] \in Nat /\ returned'[j] \in Nat
      /\ InitStock \in Nat
  BY RepairAssumption DEF RepairTypeOK
<1>3. TakenFromStock(line[j]) \in Nat /\ TakenFromStock(line'[j]) \in Nat
  BY <1>2, TakenType
<1>4. stock' = InitStock - Taken' + Returns'
  BY <1>1, <1>2, <1>3, SumsMove
<1> QED
  BY <1>4 DEF LedgerBalanced, Taken, Returns

\* At first nothing has been taken or returned.
LEMMA LedgerInit == RepairInit => LedgerBalanced
<1> SUFFICES ASSUME RepairInit
             PROVE  LedgerBalanced
  OBVIOUS
<1> DEFINE taken == [j \in Jobs |-> TakenFromStock(line[j])]
<1>1. taken = [j \in Jobs |-> 0]
  BY DEF RepairInit, NoLine, TakenFromStock
<1>2. returned = [j \in Jobs |-> 0] /\ stock = InitStock /\ InitStock \in Nat
  BY RepairAssumption DEF RepairInit
<1>3. SumFunction([j \in Jobs |-> 0]) = 0
  BY RepairAssumption, SumFacts
<1> HIDE DEF taken
<1>4. SumFunction(taken) = 0 /\ SumFunction(returned) = 0
  BY <1>1, <1>2, <1>3
<1> QED
  BY <1>2, <1>4 DEF LedgerBalanced, taken

----------------------------------------------------------------------------
\* The requests of an office that serves one at a time.
OneRequest ==
  \A v, w \in Workers : req[v] # NoReq /\ req[w] # NoReq => v = w

\* The tickets of such an office: a rejection leaves the plan at its approval,
\* a track comes with a plan, and nobody returns what was not withdrawn.
InOrder(j) ==
  /\ job[j].rejected => job[j].done = 4 /\ NeedsParcelApproval(job[j].track)
  /\ job[j].track # "NONE" => job[j].plan > 0
  /\ returned[j] <= Withdrawn(line[j])

\* What a request has read is still so.
StillSo(r) ==
  /\ r.op = "DIAGNOSE" => ~ PastApproval(job[r.job])
  /\ r.op = "STEP" => /\ r.target = job[r.job].done + 1
                      /\ ~ job[r.job].rejected
  /\ r.op = "HANDOVER" =>
       /\ job[r.job].done = 5 /\ ~ job[r.job].rejected
       /\ r.pending = IF line[r.job].kind = "PENDING_WITHDRAW"
                      THEN line[r.job] ELSE NoLine
       /\ r.pending.stockType = "INTERNAL" => r.pending.qty <= stock
  /\ r.op = "REJECT" => /\ job[r.job].done = 4
                        /\ NeedsParcelApproval(job[r.job].track)
  /\ r.op = "RETURN" => r.qty <= Withdrawn(line[r.job]) - returned[r.job]

TurnInv ==
  /\ OneRequest
  /\ LedgerBalanced
  /\ \A j \in Jobs : InOrder(j)
  /\ \A w \in Workers : StillSo(req[w])

\* After a step of one worker, an office with room for one request has one.
LEMMA StillAlone ==
  ASSUME OneRequest, NEW w \in Workers,
         \A v \in Workers \ {w} : req'[v] = req[v],
         Cardinality({v \in Workers : req'[v] # NoReq}) <= 1
  PROVE  OneRequest'
<1> DEFINE busy == {v \in Workers : req[v] # NoReq}
           busy2 == {v \in Workers : req'[v] # NoReq}
<1>1. IsFiniteSet(busy)
  <2>1. busy = {} \/ \E v : busy = {v}
    BY DEF OneRequest
  <2> QED
    BY <2>1, FS_EmptySet, FS_Singleton
<1>2. busy2 \subseteq busy \union {w}
  OBVIOUS
<1>3. IsFiniteSet(busy2)
  BY <1>1, <1>2, FS_AddElement, FS_Subset
<1>4. SUFFICES ASSUME NEW u \in busy2, NEW v \in busy2, u # v
               PROVE  FALSE
  BY DEF OneRequest
<1> HIDE DEF busy, busy2
<1>5. Cardinality({u} \union {v}) = 2
  <2> DEFINE one == {u}
  <2>1. IsFiniteSet(one) /\ Cardinality(one) = 1
    BY FS_Singleton
  <2>2. v \notin one
    BY <1>4
  <2> HIDE DEF one
  <2>3. Cardinality(one \union {v}) = Cardinality(one) + 1
    BY <2>1, <2>2, FS_AddElement
  <2> QED
    BY <2>1, <2>3 DEF one
<1>6. Cardinality({u} \union {v}) <= Cardinality(busy2)
  BY <1>3, FS_Subset
<1>7. Cardinality(busy2) <= 1 /\ Cardinality(busy2) \in Nat
  BY <1>3, FS_CardinalityType DEF busy2
<1> QED
  BY <1>5, <1>6, <1>7

\* A request that only reads.
LEMMA TurnReads ==
  ASSUME TurnInv, OneRequest', NEW w \in Workers,
         \A v \in Workers \ {w} : req'[v] = req[v],
         UNCHANGED <<job, line, returned, stock>>, StillSo(req'[w])
  PROVE  TurnInv'
<1>1. LedgerBalanced'
  BY DEF TurnInv, LedgerBalanced
<1>2. \A j \in Jobs : InOrder(j)'
  BY DEF TurnInv, InOrder
<1>3. \A v \in Workers : StillSo(req'[v])
  BY DEF TurnInv
<1>4. \A v \in Workers : StillSo(req[v])'
  BY <1>3 DEF StillSo
<1> QED
  BY <1>1, <1>2, <1>4 DEF TurnInv

\* The one request in progress ends with its transaction.
LEMMA TurnWrites ==
  ASSUME RepairTypeOK, RepairTypeOK', TurnInv, OneRequest', NEW w \in Workers,
         req[w] # NoReq, Finish(w), NEW j \in Jobs,
         \A k \in Jobs \ {j} : /\ job'[k] = job[k] /\ line'[k] = line[k]
                               /\ returned'[k] = returned[k],
         InOrder(j)',
         stock' = stock + TakenFromStock(line[j]) - TakenFromStock(line'[j])
                        + returned'[j] - returned[j]
  PROVE  TurnInv'
<1>1. LedgerBalanced'
  BY LedgerMoves DEF TurnInv
<1>2. \A k \in Jobs : InOrder(k)'
  BY DEF TurnInv, InOrder
<1>3. \A v \in Workers : req'[v] = NoReq
  BY DEF TurnInv, OneRequest, Finish, RepairTypeOK
<1>4. \A v \in Workers : StillSo(req[v])'
  BY <1>3 DEF StillSo, NoReq
<1> QED
  BY <1>1, <1>2, <1>4 DEF TurnInv

\* What an office that serves one request at a time has read is still so.
LEMMA TurnReadStage ==
  ASSUME RepairInv, TurnInv, OneRequest', NEW w \in Workers, ReadStage(w)
  PROVE  TurnInv'
<1>1. /\ job \in [Jobs -> JobRow] /\ line \in [Jobs -> LineRow]
      /\ req \in [Workers -> Requests]
  BY DEF RepairInv, RepairTypeOK
<1>2. ASSUME NEW r, Read(w, r), StillSo(r)
      PROVE  TurnInv'
  <2>1. req'[w] = r /\ \A v \in Workers \ {w} : req'[v] = req[v]
    BY <1>1, <1>2 DEF Read
  <2> QED
    BY <1>2, <2>1, TurnReads DEF Read
<1>3. CASE ReadCreateRequest(w)
  <2> DEFINE r == [op |-> "CREATE", seen |-> asset]
  <2>1. Read(w, r) /\ StillSo(r)
    BY <1>3 DEF ReadCreateRequest, StillSo
  <2> QED
    BY <1>2, <2>1
<1>4. ASSUME NEW j \in Jobs, ReadAssign(w, j)
      PROVE  TurnInv'
  <2> DEFINE r == [op |-> "ASSIGN", job |-> j]
  <2>1. Read(w, r) /\ StillSo(r)
    BY <1>4 DEF ReadAssign, StillSo
  <2> QED
    BY <1>2, <2>1
<1>5. ASSUME NEW j \in Jobs, NEW to \in Diagnoses, ReadDiagnose(w, j, to)
      PROVE  TurnInv'
  <2> DEFINE r == [op |-> "DIAGNOSE", job |-> j, to |-> to]
  <2>1. Read(w, r) /\ StillSo(r)
    BY <1>5 DEF ReadDiagnose, StillSo
  <2> QED
    BY <1>2, <2>1
<1>6. ASSUME NEW j \in Jobs, ReadStep(w, j)
      PROVE  TurnInv'
  <2> DEFINE r == [op |-> "STEP", job |-> j, plan |-> job[j].plan,
                   target |-> job[j].done + 1]
  <2>1. Read(w, r) /\ StillSo(r)
    BY <1>6 DEF ReadStep, StillSo
  <2> QED
    BY <1>2, <2>1
<1>7. ASSUME NEW j \in Jobs, ReadReject(w, j)
      PROVE  TurnInv'
  <2> DEFINE r == [op |-> "REJECT", job |-> j, plan |-> job[j].plan]
  <2>1. Read(w, r) /\ StillSo(r)
    BY <1>7 DEF ReadReject, StillSo
  <2> QED
    BY <1>2, <2>1
<1>8. ASSUME NEW j \in Jobs, ReadCompleteUnrepairable(w, j)
      PROVE  TurnInv'
  <2> DEFINE r == [op |-> "COMPLETE_UNREPAIRABLE", job |-> j,
                   plan |-> job[j].plan, done |-> job[j].done]
  <2>1. Read(w, r) /\ StillSo(r)
    BY <1>8 DEF ReadCompleteUnrepairable, StillSo
  <2> QED
    BY <1>2, <2>1
<1>9. ASSUME NEW j \in Jobs, ReadCancel(w, j)
      PROVE  TurnInv'
  <2> DEFINE r == [op |-> "CANCEL", job |-> j]
  <2>1. Read(w, r) /\ StillSo(r)
    BY <1>9 DEF ReadCancel, StillSo
  <2> QED
    BY <1>2, <2>1
<1>10. ASSUME NEW j \in Jobs, NEW qty \in Quantities, ReadReturn(w, j, qty)
       PROVE  TurnInv'
  <2> DEFINE r == [op |-> "RETURN", job |-> j, qty |-> qty]
  <2>1. Read(w, r) /\ StillSo(r)
    BY <1>10 DEF ReadReturn, StillSo
  <2> QED
    BY <1>2, <2>1
<1> QED
  BY <1>3, <1>4, <1>5, <1>6, <1>7, <1>8, <1>9, <1>10 DEF ReadStage

\* A transaction that leaves the parts of its ticket as they are.
LEMMA TurnWritesJob ==
  ASSUME RepairTypeOK, RepairTypeOK', TurnInv, OneRequest', NEW w \in Workers,
         req[w] # NoReq, Finish(w), NEW j \in Jobs, NEW s,
         job' = [job EXCEPT ![j].status = s],
         line' = line \/ line' = [line EXCEPT ![j] = DropPending(@)],
         UNCHANGED <<returned, stock>>
  PROVE  TurnInv'
<1>1. /\ job \in [Jobs -> JobRow] /\ line \in [Jobs -> LineRow]
      /\ line[j] \in LineRow /\ returned[j] \in Nat /\ stock \in Int
      /\ InOrder(j)
  BY DEF RepairTypeOK, TurnInv
<1>2. /\ job'[j].rejected = job[j].rejected /\ job'[j].track = job[j].track
      /\ job'[j].plan = job[j].plan /\ job'[j].done = job[j].done
      /\ \A k \in Jobs \ {j} : job'[k] = job[k] /\ line'[k] = line[k]
  BY <1>1 DEF JobRow
<1>3. /\ Withdrawn(line'[j]) = Withdrawn(line[j])
      /\ TakenFromStock(line'[j]) = TakenFromStock(line[j])
  BY <1>1 DEF DropPending, Withdrawn, TakenFromStock, NoLine
<1>4. InOrder(j)'
  BY <1>1, <1>2, <1>3 DEF InOrder
<1>5. TakenFromStock(line[j]) \in Nat
  BY <1>1, TakenType
<1>6. stock' = stock + TakenFromStock(line[j]) - TakenFromStock(line'[j])
                     + returned'[j] - returned[j]
  BY <1>1, <1>3, <1>5
<1> QED
  BY <1>2, <1>4, <1>6, TurnWrites

\* A request that diagnoses comes before the hand-over.
LEMMA NothingHandedOut ==
  ASSUME RepairInv, TurnInv, NEW w \in Workers, NEW j \in Jobs,
         req[w].op = "DIAGNOSE", req[w].job = j
  PROVE  Withdrawn(line[j]) = 0 /\ returned[j] = 0
<1>1. /\ Settled(j) /\ InOrder(j) /\ StillSo(req[w])
      /\ job[j] \in JobRow /\ line[j] \in LineRow /\ returned[j] \in Nat
  BY DEF RepairInv, RepairTypeOK, TurnInv
<1>2. ~ PastApproval(job[j])
  BY <1>1 DEF StillSo
<1>3. HandedOver(j) => PastApproval(job[j])
  BY <1>1 DEF HandedOver, PastApproval, InOrder, DiagnosedSteps, JobRow
<1>4. line[j].kind # "WITHDRAW"
  BY <1>1, <1>2, <1>3 DEF Settled
<1> QED
  BY <1>1, <1>4 DEF Withdrawn, InOrder

\* What it then writes rests on what is still so.
LEMMA TurnCommitStage ==
  ASSUME RepairInv, RepairInv', TurnInv, OneRequest', NEW w \in Workers,
         CommitStage(w)
  PROVE  TurnInv'
<1> DEFINE r == req[w]
<1>1. /\ RepairTypeOK /\ RepairTypeOK'
      /\ job \in [Jobs -> JobRow] /\ line \in [Jobs -> LineRow]
      /\ returned \in [Jobs -> Nat] /\ stock \in Int
      /\ req \in [Workers -> Requests]
      /\ r \in Requests /\ StillTrue(r) /\ StillSo(r)
      /\ \A j \in Jobs : Settled(j) /\ UnrepairableByPlan(j) /\ InOrder(j)
  BY DEF RepairInv, RepairTypeOK, TurnInv
<1>2. \A j \in Jobs : /\ job[j].plan \in Nat /\ job[j].done \in 0 .. 8
                      /\ returned[j] \in Nat /\ Withdrawn(line[j]) \in Nat
                      /\ TakenFromStock(line[j]) \in Nat
  BY <1>1, TakenType DEF JobRow
<1>3. CASE CommitCreateRequest(w)
  <2>1. PICK j \in Jobs : job' = [job EXCEPT ![j].status = "PENDING_ASSIGN"]
    BY <1>3 DEF CommitCreateRequest
  <2>2. r # NoReq /\ Finish(w) /\ UNCHANGED <<line, returned, stock>>
    BY <1>3 DEF CommitCreateRequest, NoReq
  <2> QED
    BY <1>1, <2>1, <2>2, TurnWritesJob
<1>4. CASE CommitAssign(w)
  <2>1. /\ r # NoReq /\ r.job \in Jobs
        /\ Finish(w) /\ UNCHANGED <<line, returned, stock>>
        /\ job' = [job EXCEPT ![r.job].status = "IN_PROGRESS"]
    BY <1>1, <1>4, RequestFields DEF CommitAssign, NoReq
  <2> QED
    BY <1>1, <2>1, TurnWritesJob
<1>5. CASE CommitCancel(w)
  <2>1. /\ r # NoReq /\ r.job \in Jobs
        /\ Finish(w) /\ UNCHANGED <<returned, stock>>
        /\ job' = [job EXCEPT ![r.job].status = "CANCELLED"]
        /\ line' = [line EXCEPT ![r.job] = DropPending(@)]
    BY <1>1, <1>5, RequestFields DEF CommitCancel, NoReq
  <2> QED
    BY <1>1, <2>1, TurnWritesJob
<1>6. CASE CommitDiagnose(w)
  <2>1. PICK j \in Jobs : j = r.job /\ r.to \in Diagnoses
    BY <1>1, <1>6, RequestFields DEF CommitDiagnose
  <2>2. /\ job'[j].plan = job[j].plan + 1 /\ ~ job'[j].rejected
        /\ line'[j] = r.to.line /\ returned'[j] = 0
        /\ stock' = stock + Withdrawn(line[j])
        /\ r.op = "DIAGNOSE" /\ r # NoReq /\ Finish(w)
        /\ \A k \in Jobs \ {j} : /\ job'[k] = job[k] /\ line'[k] = line[k]
                                 /\ returned'[k] = returned[k]
    BY <1>1, <1>6, <2>1 DEF CommitDiagnose, NoReq
  <2>3. Withdrawn(line[j]) = 0 /\ returned[j] = 0
    BY <2>1, <2>2, NothingHandedOut DEF CommitDiagnose
  <2>4. TakenFromStock(line[j]) = 0
    BY <2>3 DEF TakenFromStock
  <2>5. Withdrawn(line'[j]) = 0 /\ TakenFromStock(line'[j]) = 0
    <3>1. r.to.line.kind # "WITHDRAW"
      BY <2>1 DEF Diagnoses, NoLine, Requisition
    <3> QED
      BY <2>2, <3>1 DEF Withdrawn, TakenFromStock
  <2>6. InOrder(j)'
    BY <1>2, <2>2, <2>5 DEF InOrder
  <2>7. stock' = stock + TakenFromStock(line[j]) - TakenFromStock(line'[j])
                       + returned'[j] - returned[j]
    BY <1>1, <2>2, <2>3, <2>4, <2>5
  <2> QED
    BY <1>1, <2>2, <2>6, <2>7, TurnWrites
<1>7. CASE CommitStep(w)
  <2>1. PICK j \in Jobs :
        /\ j = r.job /\ r.target \in 1 .. 8 /\ CompleteStep(j, r.target)
        /\ r.op = "STEP" /\ r # NoReq /\ Finish(w)
        /\ UNCHANGED <<line, returned, stock>>
    BY <1>1, <1>7, RequestFields DEF CommitStep, NoReq
  <2>2. ~ job[j].rejected
    BY <1>1, <2>1 DEF StillSo
  <2>3. /\ job'[j].track = job[j].track /\ job'[j].plan = job[j].plan
        /\ ~ job'[j].rejected
        /\ \A k \in Jobs \ {j} : job'[k] = job[k]
    BY <1>1, <2>1, <2>2 DEF CompleteStep, JobRow
  <2>4. InOrder(j)'
    BY <1>1, <2>1, <2>3 DEF InOrder
  <2>5. stock' = stock + TakenFromStock(line[j]) - TakenFromStock(line'[j])
                       + returned'[j] - returned[j]
    BY <1>1, <1>2, <2>1
  <2> QED
    BY <1>1, <2>1, <2>3, <2>4, <2>5, TurnWrites
<1>8. CASE ReadHandover(w)
  <2> DEFINE j == r.job
             pending == IF line[j].kind = "PENDING_WITHDRAW" THEN line[j]
                                                             ELSE NoLine
             next == [op |-> "HANDOVER", job |-> j, plan |-> r.plan,
                      pending |-> pending]
  <2>1. /\ r.op = "STEP" /\ j \in Jobs /\ r.target = 6
        /\ UNCHANGED <<job, line, returned, stock>>
        /\ req' = [req EXCEPT ![w] = next]
    BY <1>1, <1>8, RequestFields DEF ReadHandover, IsHandover
  <2>2. job[j].done = 5 /\ ~ job[j].rejected
    BY <1>1, <1>2, <2>1 DEF StillSo
  <2>3. pending.stockType = "INTERNAL" => pending.qty <= stock
    BY <1>1, <1>2, <1>8 DEF ReadHandover, NoLine, LineRow
  <2>4. StillSo(next)
    BY <2>2, <2>3 DEF StillSo
  <2>5. req'[w] = next /\ \A v \in Workers \ {w} : req'[v] = req[v]
    BY <1>1, <2>1
  <2> QED
    BY <2>1, <2>4, <2>5, TurnReads
<1>9. CASE CommitHandover(w)
  <2>1. PICK j \in Jobs :
        /\ j = r.job /\ CompleteStep(j, 6) /\ returned' = returned
        /\ r.op = "HANDOVER" /\ r # NoReq /\ Finish(w)
    BY <1>1, <1>9, RequestFields DEF CommitHandover, NoReq
  <2>2. /\ ~ job[j].rejected
        /\ r.pending = IF line[j].kind = "PENDING_WITHDRAW" THEN line[j] ELSE NoLine
    BY <1>1, <2>1 DEF StillSo
  <2>3. /\ job'[j].track = job[j].track /\ job'[j].plan = job[j].plan
        /\ ~ job'[j].rejected
        /\ \A k \in Jobs \ {j} : job'[k] = job[k]
    BY <1>1, <2>1, <2>2 DEF CompleteStep, JobRow
  <2>4. /\ \A k \in Jobs \ {j} : line'[k] = line[k]
        /\ Withdrawn(line'[j]) >= Withdrawn(line[j])
        /\ stock' = stock + TakenFromStock(line[j]) - TakenFromStock(line'[j])
    <3>1. CASE line[j].kind = "PENDING_WITHDRAW"
      <4>1. r.pending = line[j] /\ r.pending # NoLine
        BY <2>2, <3>1 DEF NoLine
      <4>2. /\ line'[j].kind = "WITHDRAW" /\ line'[j].qty = line[j].qty
            /\ line'[j].stockType = line[j].stockType
            /\ \A k \in Jobs \ {j} : line'[k] = line[k]
            /\ stock' = IF line[j].stockType = "INTERNAL"
                        THEN stock - line[j].qty ELSE stock
        BY <1>1, <1>9, <2>1, <4>1 DEF CommitHandover, LineRow
      <4>3. line[j].qty \in Nat
        BY <1>1 DEF LineRow
      <4> QED
        BY <1>1, <3>1, <4>2, <4>3 DEF Withdrawn, TakenFromStock
    <3>2. CASE line[j].kind # "PENDING_WITHDRAW"
      <4>1. UNCHANGED <<line, stock>>
        BY <1>9, <2>1, <2>2, <3>2 DEF CommitHandover
      <4> QED
        BY <1>1, <1>2, <4>1
    <3> QED
      BY <3>1, <3>2
  <2>5. Withdrawn(line'[j]) \in Nat /\ TakenFromStock(line'[j]) \in Nat
    BY <1>1, TakenType DEF RepairTypeOK
  <2>6. InOrder(j)'
    BY <1>1, <1>2, <2>1, <2>3, <2>4, <2>5 DEF InOrder
  <2>7. stock' = stock + TakenFromStock(line[j]) - TakenFromStock(line'[j])
                       + returned'[j] - returned[j]
    BY <1>1, <1>2, <2>1, <2>4, <2>5
  <2> QED
    BY <1>1, <2>1, <2>3, <2>4, <2>6, <2>7, TurnWrites
<1>10. CASE CommitReject(w)
  <2>1. PICK j \in Jobs : j = r.job
    BY <1>1, <1>10, RequestFields DEF CommitReject
  <2>2. /\ j = r.job /\ r.op = "REJECT" /\ r # NoReq /\ Finish(w)
        /\ line' = [line EXCEPT ![j] = DropPending(@)]
        /\ UNCHANGED <<returned, stock>>
    BY <1>10, <2>1 DEF CommitReject, NoReq
  <2>3. job[j].done = 4 /\ NeedsParcelApproval(job[j].track)
    BY <1>1, <2>2 DEF StillSo
  <2>4. /\ job'[j].track = job[j].track /\ job'[j].plan = job[j].plan
        /\ job'[j].done = job[j].done
        /\ \A k \in Jobs \ {j} : job'[k] = job[k] /\ line'[k] = line[k]
    BY <1>1, <1>10, <2>2 DEF CommitReject, JobRow
  <2>5. /\ Withdrawn(line'[j]) = Withdrawn(line[j])
        /\ TakenFromStock(line'[j]) = TakenFromStock(line[j])
    BY <1>1, <2>2 DEF DropPending, Withdrawn, TakenFromStock, NoLine
  <2>6. InOrder(j)'
    BY <1>1, <2>2, <2>3, <2>4, <2>5 DEF InOrder
  <2>7. stock' = stock + TakenFromStock(line[j]) - TakenFromStock(line'[j])
                       + returned'[j] - returned[j]
    BY <1>1, <1>2, <2>2, <2>5
  <2> QED
    BY <1>1, <2>2, <2>4, <2>6, <2>7, TurnWrites
<1>11. CASE CommitCompleteUnrepairable(w)
  <2>1. PICK j \in Jobs :
        /\ j = r.job /\ r.op = "COMPLETE_UNREPAIRABLE" /\ r # NoReq /\ Finish(w)
        /\ UNCHANGED <<line, returned, stock>>
    BY <1>1, <1>11, RequestFields DEF CommitCompleteUnrepairable, NoReq
  <2>2. /\ job'[j].track = job[j].track /\ job'[j].plan = job[j].plan
        /\ job'[j].rejected = job[j].rejected
        /\ job'[j].done = IF job[j].plan = r.plan THEN 8 ELSE job[j].done
        /\ \A k \in Jobs \ {j} : job'[k] = job[k]
    BY <1>1, <1>11, <2>1 DEF CommitCompleteUnrepairable, JobRow
  <2>3. job[j].plan = r.plan => job[j].track = "UNREPAIRABLE"
    BY <1>1, <2>1 DEF StillTrue
  <2>4. InOrder(j)'
    BY <1>1, <2>1, <2>2, <2>3 DEF InOrder, NeedsParcelApproval
  <2>5. stock' = stock + TakenFromStock(line[j]) - TakenFromStock(line'[j])
                       + returned'[j] - returned[j]
    BY <1>1, <1>2, <2>1
  <2> QED
    BY <1>1, <2>1, <2>2, <2>4, <2>5, TurnWrites
<1>12. CASE CommitReturn(w)
  <2>1. PICK j \in Jobs : j = r.job /\ r.qty \in Quantities
    BY <1>1, <1>12, RequestFields DEF CommitReturn
  <2>2. /\ j = r.job /\ r.op = "RETURN" /\ r # NoReq /\ Finish(w)
        /\ UNCHANGED <<job, line>> /\ stock' = stock + r.qty
        /\ returned' = [returned EXCEPT ![j] = @ + r.qty]
    BY <1>12, <2>1 DEF CommitReturn, NoReq
  <2>3. r.qty <= Withdrawn(line[j]) - returned[j]
    BY <1>1, <2>2 DEF StillSo
  <2>4. /\ returned'[j] = returned[j] + r.qty /\ r.qty \in Nat
        /\ \A k \in Jobs \ {j} : returned'[k] = returned[k]
    BY <1>1, <2>1, <2>2, RepairAssumption
  <2>5. InOrder(j)'
    BY <1>1, <1>2, <2>2, <2>3, <2>4 DEF InOrder
  <2>6. stock' = stock + TakenFromStock(line[j]) - TakenFromStock(line'[j])
                       + returned'[j] - returned[j]
    BY <1>1, <1>2, <2>2, <2>4
  <2> QED
    BY <1>1, <2>2, <2>4, <2>5, <2>6, TurnWrites
<1>13. CASE Abort(w)
  <2>1. /\ req'[w] = NoReq /\ \A v \in Workers \ {w} : req'[v] = req[v]
        /\ UNCHANGED <<job, line, returned, stock>>
    BY <1>1, <1>13 DEF Abort, Finish
  <2>2. StillSo(req'[w])
    BY <2>1 DEF StillSo, NoReq
  <2> QED
    BY <2>1, <2>2, TurnReads
<1> QED
  BY <1>3, <1>4, <1>5, <1>6, <1>7, <1>8, <1>9, <1>10, <1>11, <1>12, <1>13
     DEF CommitStage

\* An office does what the handlers do: the invariants above are also its own.
LEMMA OfficeHandlesRepairs == OfficeSpec => RepairSpec
<1>1. OfficeInit => RepairInit
  BY DEF OfficeInit
<1>2. [OfficeNext]_officeVars => [RepairNext]_repairVars
  BY DEF OfficeNext, officeVars, RepairNext
<1> QED
  BY <1>1, <1>2, PTL DEF OfficeSpec, RepairSpec

LEMMA TurnInvCorrect == OfficeSpec => [](OneAtATime => TurnInv)
<1>1. OfficeInit => TurnInv
  <2> SUFFICES ASSUME RepairInit
               PROVE  TurnInv
    BY DEF OfficeInit
  <2>1. OneRequest /\ \A w \in Workers : StillSo(req[w])
    BY DEF RepairInit, OneRequest, StillSo, NoReq
  <2>2. \A j \in Jobs : InOrder(j)
    BY DEF RepairInit, InOrder, NoJob, NoLine, Withdrawn
  <2> QED
    BY <2>1, <2>2, LedgerInit DEF TurnInv
<1>2. /\ RepairInv /\ RepairInv' /\ [OfficeNext]_officeVars
      /\ OneAtATime => TurnInv
      => (OneAtATime => TurnInv)'
  <2> SUFFICES ASSUME RepairInv, RepairInv', [OfficeNext]_officeVars,
                      OneAtATime => TurnInv, OneAtATime'
               PROVE  TurnInv'
    OBVIOUS
  <2>1. office' = office
    BY DEF OfficeNext, officeVars
  <2>2. OneAtATime /\ TurnInv
    BY <2>1 DEF OneAtATime
  <2>3. CASE OfficeNext
    <3>1. PICK w \in Workers : ReadStage(w) \/ CommitStage(w)
      BY <2>3 DEF OfficeNext
    <3>2. \A v \in Workers \ {w} : req'[v] = req[v]
      BY <3>1
         DEF ReadStage, ReadCreateRequest, ReadAssign, ReadDiagnose, ReadStep,
             ReadReject, ReadCompleteUnrepairable, ReadCancel, ReadReturn, Read,
             CommitStage, CommitCreateRequest, CommitAssign, CommitDiagnose,
             CommitStep, ReadHandover, CommitHandover, CommitReject,
             CommitCompleteUnrepairable, CommitCancel, CommitReturn, Abort,
             Finish, RepairInv, RepairTypeOK
    <3>3. Cardinality({v \in Workers : req'[v] # NoReq}) <= 1
      BY <2>1, <2>2, <2>3 DEF OfficeNext, Within, OneAtATime
    <3>4. OneRequest'
      BY <2>2, <3>2, <3>3, StillAlone DEF TurnInv
    <3> QED
      BY <2>2, <3>1, <3>4, TurnReadStage, TurnCommitStage
  <2>4. CASE UNCHANGED officeVars
    BY <2>2, <2>4
       DEF officeVars, repairVars, TurnInv, OneRequest, LedgerBalanced, InOrder,
           StillSo
  <2> QED
    BY <2>3, <2>4
<1> QED
  BY <1>1, <1>2, RepairInvCorrect, OfficeHandlesRepairs, PTL DEF OfficeSpec

(***************************************************************************)
(* One request after the other keeps the parts ledger of repairs.service.ts *)
(* exact, for any tickets and quantities: whatever is diagnosed again,     *)
(* rejected, cancelled or given back, the stock is what it was to begin    *)
(* with less what was handed over plus what was returned, and no ticket    *)
(* returns more than it took.                                              *)
(***************************************************************************)
THEOREM PartsAreAccountedInTurn == OfficeSpec => []PartsAccountedInTurn
<1>1. (OneAtATime => TurnInv) => PartsAccountedInTurn
  BY DEF TurnInv, InOrder, PartsAccountedInTurn, ReturnedWithinWithdrawn
<1> QED
  BY <1>1, TurnInvCorrect, PTL

(***************************************************************************)
(* One request after the other, a plan that rejectStep refused is still at *)
(* its approval, so that diagnoseAndPlan accepts the ticket.               *)
(***************************************************************************)
THEOREM RejectedCanBeRediagnosedInTurn ==
  OfficeSpec => []RejectedPlanCanBeRediagnosedInTurn
<1>1. RepairInv /\ (OneAtATime => TurnInv) => RejectedPlanCanBeRediagnosedInTurn
  BY DEF TurnInv, InOrder, RejectedPlanCanBeRediagnosedInTurn,
         RejectedPlanCanBeRediagnosed, PastApproval, DiagnosedSteps,
         NeedsParcelApproval
<1> QED
  BY <1>1, TurnInvCorrect, RepairInvCorrect, OfficeHandlesRepairs, PTL

----------------------------------------------------------------------------
\* What leaves the lines as withdrawn as they are is not in the ledger.
LEMMA LedgerStutters ==
  ASSUME UNCHANGED <<returned, stock>>,
         \A j \in Jobs : Withdrawn(line'[j]) = Withdrawn(line[j])
  PROVE  [Ledger!Next]_Ledger!vars
<1>1. handed' = handed
  BY DEF handed
<1> QED
  BY <1>1 DEF Ledger!vars

\* Each transaction of an office that serves one request at a time enters
\* the ledger at most once.
LEMMA LedgerStep ==
  ASSUME RepairInv, TurnInv, NEW w \in Workers, CommitStage(w)
  PROVE  [Ledger!Next]_Ledger!vars
<1> DEFINE r == req[w]
<1>1. /\ job \in [Jobs -> JobRow] /\ line \in [Jobs -> LineRow]
      /\ returned \in [Jobs -> Nat] /\ stock \in Int
      /\ r \in Requests /\ StillSo(r)
  BY DEF RepairInv, RepairTypeOK, TurnInv
<1>2. ASSUME UNCHANGED <<line, returned, stock>>
      PROVE  [Ledger!Next]_Ledger!vars
  BY <1>2, LedgerStutters
<1>3. ASSUME NEW j \in Jobs, line' = [line EXCEPT ![j] = DropPending(@)],
             UNCHANGED <<returned, stock>>
      PROVE  [Ledger!Next]_Ledger!vars
  <2>1. \A k \in Jobs : Withdrawn(line'[k]) = Withdrawn(line[k])
    BY <1>1, <1>3 DEF DropPending, Withdrawn, NoLine
  <2> QED
    BY <1>3, <2>1, LedgerStutters
<1>4. CASE CommitDiagnose(w)
  <2>1. PICK j \in Jobs : j = r.job /\ r.to \in Diagnoses
    BY <1>1, <1>4, RequestFields DEF CommitDiagnose
  <2>2. Withdrawn(line[j]) = 0 /\ returned[j] = 0
    BY <1>4, <2>1, NothingHandedOut DEF CommitDiagnose
  <2>3. /\ stock' = stock + Withdrawn(line[j])
        /\ line' = [line EXCEPT ![j] = r.to.line]
        /\ returned' = [returned EXCEPT ![j] = 0]
    BY <1>4, <2>1 DEF CommitDiagnose
  <2>4. stock' = stock /\ returned' = returned
    BY <1>1, <2>2, <2>3
  <2>5. Withdrawn(r.to.line) = 0
    BY <2>1 DEF Diagnoses, NoLine, Requisition, Withdrawn
  <2>6. \A k \in Jobs : Withdrawn(line'[k]) = Withdrawn(line[k])
    BY <1>1, <2>2, <2>3, <2>5
  <2> QED
    BY <2>4, <2>6, LedgerStutters
<1>5. CASE CommitHandover(w)
  <2>1. PICK j \in Jobs : j = r.job
    BY <1>1, <1>5, RequestFields DEF CommitHandover
  <2>2. /\ r.pending = IF line[j].kind = "PENDING_WITHDRAW"
                       THEN line[j] ELSE NoLine
        /\ r.pending.stockType = "INTERNAL" => r.pending.qty <= stock
    BY <1>1, <1>5, <2>1 DEF CommitHandover, StillSo
  <2>3. CASE r.pending = NoLine
    BY <1>2, <1>5, <2>3 DEF CommitHandover
  <2>4. CASE r.pending # NoLine
    <3> DEFINE n == line[j].qty
    <3>1. /\ r.pending = line[j] /\ line[j].kind = "PENDING_WITHDRAW"
          /\ n \in Nat
      BY <1>1, <2>2, <2>4 DEF LineRow
    <3>2. /\ line' = [line EXCEPT ![j].kind = "WITHDRAW"]
          /\ stock' = IF line[j].stockType = "INTERNAL" THEN stock - n ELSE stock
          /\ returned' = returned
      BY <1>5, <2>1, <2>4, <3>1 DEF CommitHandover
    <3>3. Withdrawn(line[j]) = 0 /\ Withdrawn(line'[j]) = n
      BY <1>1, <3>1, <3>2 DEF Withdrawn, LineRow
    <3>4. handed' = [handed EXCEPT ![j] = n] /\ handed[j] = 0
      <4>1. \A k \in Jobs \ {j} : line'[k] = line[k]
        BY <1>1, <3>2
      <4> QED
        BY <3>3, <4>1 DEF handed
    <3>5. CASE n = 0
      <4>1. handed' = handed
        BY <3>3, <3>5, <1>1, <3>2 DEF handed, Withdrawn
      <4>2. stock' = stock
        BY <1>1, <3>2, <3>5
      <4> QED
        BY <3>2, <4>1, <4>2 DEF Ledger!vars
    <3>6. CASE n # 0
      <4>1. n \in Nat \ {0}
        BY <3>1, <3>6
      <4>2. Ledger!HandOut(j, n)
        BY <3>2, <3>4 DEF Ledger!HandOut
      <4>3. Ledger!FromStock(j, n) \/ Ledger!BoughtOutside(j, n)
        BY <2>2, <3>1, <3>2, <4>2 DEF Ledger!FromStock, Ledger!BoughtOutside
      <4> QED
        BY <4>1, <4>3 DEF Ledger!Next
    <3> QED
      BY <3>5, <3>6
  <2> QED
    BY <2>3, <2>4
<1>6. CASE CommitReturn(w)
  <2>1. PICK j \in Jobs, n \in Quantities : j = r.job /\ n = r.qty
    BY <1>1, <1>6, RequestFields DEF CommitReturn
  <2>2. /\ n <= Withdrawn(line[j]) - returned[j]
        /\ stock' = stock + n /\ line' = line
        /\ returned' = [returned EXCEPT ![j] = @ + n]
    BY <1>1, <1>6, <2>1 DEF CommitReturn, StillSo
  <2>3. n \in Nat \ {0} /\ returned[j] \in Nat /\ Withdrawn(line[j]) \in Nat
    BY <1>1, RepairAssumption, TakenType
  <2>4. handed' = handed /\ handed[j] = Withdrawn(line[j])
    BY <2>2 DEF handed
  <2>5. returned[j] + n <= handed[j]
    BY <2>2, <2>3, <2>4
  <2>6. Ledger!GiveBack(j, n)
    BY <2>2, <2>4, <2>5 DEF Ledger!GiveBack
  <2> QED
    BY <2>3, <2>6 DEF Ledger!Next
<1>7. CASE CommitCancel(w)
  <2>1. r.job \in Jobs
    BY <1>1, <1>7, RequestFields DEF CommitCancel
  <2> QED
    BY <1>3, <1>7, <2>1 DEF CommitCancel
<1>8. CASE CommitReject(w)
  <2>1. r.job \in Jobs
    BY <1>1, <1>8, RequestFields DEF CommitReject
  <2> QED
    BY <1>3, <1>8, <2>1 DEF CommitReject
<1>9. CASE \/ CommitCreateRequest(w) \/ CommitAssign(w) \/ CommitStep(w)
           \/ ReadHandover(w) \/ CommitCompleteUnrepairable(w) \/ Abort(w)
  BY <1>2, <1>9
     DEF CommitCreateRequest, CommitAssign, CommitStep, ReadHandover,
         CommitCompleteUnrepairable, Abort
<1> QED
  BY <1>4, <1>5, <1>6, <1>7, <1>8, <1>9 DEF CommitStage

(***************************************************************************)
(* One request after the other, the handlers of repairs.service.ts         *)
(* implement the ledger of parts: the batch hand-over finds the parts it   *)
(* takes and is entered once for a ticket, returnSparePart gives back what *)
(* was handed out, and no other handler moves a part or forgets one.       *)
(***************************************************************************)
THEOREM OfficeRefinesLedger == OfficeSpec => KeepsLedgerInTurn
<1>1. OfficeInit => Ledger!Init
  <2> SUFFICES ASSUME RepairInit
               PROVE  Ledger!Init
    BY DEF OfficeInit
  <2>1. handed = [j \in Jobs |-> 0]
    BY DEF RepairInit, handed, NoLine, Withdrawn
  <2> QED
    BY <2>1 DEF RepairInit, Ledger!Init
<1>2. [OfficeNext]_officeVars /\ OneAtATime => OneAtATime'
  BY DEF OfficeNext, officeVars, OneAtATime
<1>3. ASSUME RepairInv, TurnInv, [OfficeNext]_officeVars
      PROVE  [Ledger!Next]_Ledger!vars
  <2>1. ASSUME NEW w \in Workers, ReadStage(w)
        PROVE  UNCHANGED <<line, returned, stock>>
    BY <2>1
       DEF ReadStage, ReadCreateRequest, ReadAssign, ReadDiagnose, ReadStep,
           ReadReject, ReadCompleteUnrepairable, ReadCancel, ReadReturn, Read
  <2>2. CASE UNCHANGED <<line, returned, stock>>
    BY <2>2, LedgerStutters
  <2>3. CASE \E w \in Workers : CommitStage(w)
    BY <1>3, <2>3, LedgerStep
  <2> QED
    BY <1>3, <2>1, <2>2, <2>3 DEF OfficeNext, officeVars, repairVars
<1>4. /\ RepairInv /\ (OneAtATime => TurnInv) /\ OneAtATime
      /\ [OfficeNext]_officeVars
      => [Ledger!Next]_Ledger!vars
  BY <1>3
<1> QED
  BY <1>1, <1>2, <1>4, TurnInvCorrect, RepairInvCorrect, OfficeHandlesRepairs, PTL
     DEF OfficeSpec, KeepsLedgerInTurn, Ledger!Spec

(***************************************************************************)
(* One request after the other, the stock is never negative: the batch     *)
(* hand-over takes no part that another one has taken.                     *)
(***************************************************************************)
THEOREM StockSuffices == OfficeSpec => []StockSufficesInTurn
<1>1. Ledger!Init => stock \in Nat
  BY RepairAssumption DEF Ledger!Init
<1>2. stock \in Nat /\ [Ledger!Next]_Ledger!vars => (stock \in Nat)'
  BY DEF Ledger!Next, Ledger!vars, Ledger!FromStock, Ledger!BoughtOutside,
         Ledger!GiveBack
<1>3. [OfficeNext]_officeVars => (OneAtATime' <=> OneAtATime)
  BY DEF OfficeNext, officeVars, OneAtATime
<1>4. stock \in Nat => StockSufficesInTurn
  BY DEF StockSufficesInTurn
<1>5. ~ OneAtATime => StockSufficesInTurn
  BY DEF StockSufficesInTurn
<1> QED
  BY <1>1, <1>2, <1>3, <1>4, <1>5, OfficeRefinesLedger, PTL
     DEF OfficeSpec, KeepsLedgerInTurn, Ledger!Spec

----------------------------------------------------------------------------
\* A completed ticket has no step left.
Finished(j) ==
  job[j].status = "COMPLETED" => job[j].done = TotalSteps(job[j].track)

\* What a request has read of a ticket is still so: it is not completed.
StillOpen(r) ==
  /\ r.op \in {"ASSIGN", "DIAGNOSE", "REJECT", "CANCEL"} => Active(r.job)
  /\ r.op = "STEP" => job[r.job].done < TotalSteps(job[r.job].track)
  /\ r.op = "COMPLETE_UNREPAIRABLE" => /\ job[r.job].status = "UNREPAIRABLE"
                                       /\ job[r.job].plan = r.plan

OpenInv ==
  /\ \A j \in Jobs : Finished(j)
  /\ \A w \in Workers : StillOpen(req[w])

CompletedStay == \A j \in Jobs : job[j].status = "COMPLETED" => job'[j] = job[j]

\* Reading leaves the tickets alone.
LEMMA OpenReads ==
  ASSUME RepairInv, OpenInv, NEW w \in Workers, ReadStage(w)
  PROVE  OpenInv' /\ CompletedStay
<1>1. req \in [Workers -> Requests] /\ job \in [Jobs -> JobRow]
  BY DEF RepairInv, RepairTypeOK
<1>2. ASSUME NEW r, Read(w, r), StillOpen(r)
      PROVE  OpenInv' /\ CompletedStay
  <2>1. job' = job /\ \A v \in Workers : req'[v] = req[v] \/ req'[v] = r
    BY <1>1, <1>2 DEF Read
  <2>2. \A v \in Workers : StillOpen(req'[v])
    BY <1>2, <2>1 DEF OpenInv
  <2> QED
    BY <2>1, <2>2 DEF OpenInv, Finished, StillOpen, Active, CompletedStay
<1>3. CASE ReadCreateRequest(w)
  BY <1>2, <1>3 DEF ReadCreateRequest, StillOpen
<1>4. ASSUME NEW j \in Jobs, ReadAssign(w, j)
      PROVE  OpenInv' /\ CompletedStay
  BY <1>2, <1>4 DEF ReadAssign, StillOpen
<1>5. ASSUME NEW j \in Jobs, NEW to \in Diagnoses, ReadDiagnose(w, j, to)
      PROVE  OpenInv' /\ CompletedStay
  BY <1>2, <1>5 DEF ReadDiagnose, StillOpen
<1>6. ASSUME NEW j \in Jobs, ReadStep(w, j)
      PROVE  OpenInv' /\ CompletedStay
  BY <1>2, <1>6 DEF ReadStep, StillOpen
<1>7. ASSUME NEW j \in Jobs, ReadReject(w, j)
      PROVE  OpenInv' /\ CompletedStay
  BY <1>2, <1>7 DEF ReadReject, StillOpen
<1>8. ASSUME NEW j \in Jobs, ReadCompleteUnrepairable(w, j)
      PROVE  OpenInv' /\ CompletedStay
  BY <1>2, <1>8 DEF ReadCompleteUnrepairable, StillOpen
<1>9. ASSUME NEW j \in Jobs, ReadCancel(w, j)
      PROVE  OpenInv' /\ CompletedStay
  BY <1>2, <1>9 DEF ReadCancel, StillOpen
<1>10. ASSUME NEW j \in Jobs, NEW qty \in Quantities, ReadReturn(w, j, qty)
       PROVE  OpenInv' /\ CompletedStay
  BY <1>2, <1>10 DEF ReadReturn, StillOpen
<1> QED
  BY <1>3, <1>4, <1>5, <1>6, <1>7, <1>8, <1>9, <1>10 DEF ReadStage

\* A transaction writes the one ticket it has read, and that is open.
LEMMA OpenCommits ==
  ASSUME RepairInv, TurnInv, OpenInv, NEW w \in Workers, CommitStage(w)
  PROVE  OpenInv' /\ CompletedStay
<1> DEFINE r == req[w]
<1>1. /\ job \in [Jobs -> JobRow] /\ req \in [Workers -> Requests]
      /\ r \in Requests /\ StillTrue(r) /\ StillSo(r) /\ StillOpen(r)
      /\ \A j \in Jobs : Finished(j) /\ UnrepairableByPlan(j)
  BY DEF RepairInv, RepairTypeOK, TurnInv, OpenInv
<1>2. ASSUME Finish(w), r # NoReq
      PROVE  \A v \in Workers : req'[v] = NoReq
  BY <1>1, <1>2 DEF TurnInv, OneRequest, Finish
<1>3. ASSUME Finish(w), r # NoReq, NEW j \in Jobs,
             \A k \in Jobs \ {j} : job'[k] = job[k],
             job[j].status # "COMPLETED", Finished(j)'
      PROVE  OpenInv' /\ CompletedStay
  <2>1. \A k \in Jobs : Finished(k)'
    BY <1>1, <1>3 DEF Finished
  <2>2. \A v \in Workers : StillOpen(req[v])'
    BY <1>2, <1>3 DEF StillOpen, NoReq
  <2> QED
    BY <1>3, <2>1, <2>2 DEF OpenInv, CompletedStay
\* The ticket stays open.
<1>4. ASSUME Finish(w), r # NoReq, NEW j \in Jobs,
             \A k \in Jobs \ {j} : job'[k] = job[k],
             job[j].status # "COMPLETED", job'[j].status # "COMPLETED"
      PROVE  OpenInv' /\ CompletedStay
  BY <1>3, <1>4 DEF Finished
<1>5. CASE CommitCreateRequest(w)
  <2>1. PICK j \in Jobs :
        /\ job[j].status = "NONE"
        /\ job' = [job EXCEPT ![j].status = "PENDING_ASSIGN"]
    BY <1>5 DEF CommitCreateRequest
  <2>2. /\ job'[j].status = "PENDING_ASSIGN"
        /\ \A k \in Jobs \ {j} : job'[k] = job[k]
    BY <1>1, <2>1 DEF JobRow
  <2> QED
    BY <1>4, <1>5, <2>1, <2>2 DEF CommitCreateRequest, NoReq
<1>6. CASE CommitAssign(w)
  <2>1. PICK j \in Jobs : j = r.job
    BY <1>1, <1>6, RequestFields DEF CommitAssign
  <2>2. /\ job'[j].status = "IN_PROGRESS" /\ job[j].status # "COMPLETED"
        /\ \A k \in Jobs \ {j} : job'[k] = job[k]
    BY <1>1, <1>6, <2>1 DEF CommitAssign, StillOpen, Active, JobRow
  <2> QED
    BY <1>4, <1>6, <2>2 DEF CommitAssign, NoReq
<1>7. CASE CommitDiagnose(w)
  <2>1. PICK j \in Jobs : j = r.job /\ r.to \in Diagnoses
    BY <1>1, <1>7, RequestFields DEF CommitDiagnose
  <2> DEFINE row == [status   |-> DiagnosedStatus(r.to),
                     track    |-> r.to.track,
                     plan     |-> job[j].plan + 1,
                     done     |-> DiagnosedSteps(r.to.track),
                     rejected |-> FALSE]
  <2>2. row.status # "COMPLETED"
    BY <2>1 DEF DiagnosedStatus, Diagnoses, Tracks
  <2>3. /\ job' = [job EXCEPT ![j] = row] /\ job[j].status # "COMPLETED"
        /\ Finish(w) /\ r # NoReq
    BY <1>1, <1>7, <2>1 DEF CommitDiagnose, StillOpen, Active, NoReq
  <2> HIDE DEF row
  <2>4. job'[j] = row /\ \A k \in Jobs \ {j} : job'[k] = job[k]
    BY <1>1, <2>3
  <2> QED
    BY <1>4, <2>2, <2>3, <2>4
<1>8. CASE CommitReject(w)
  <2>1. PICK j \in Jobs : j = r.job
    BY <1>1, <1>8, RequestFields DEF CommitReject
  <2>2. /\ job'[j].status = "IN_PROGRESS" /\ job[j].status # "COMPLETED"
        /\ \A k \in Jobs \ {j} : job'[k] = job[k]
    BY <1>1, <1>8, <2>1 DEF CommitReject, StillOpen, Active, JobRow
  <2>3. Finish(w) /\ r # NoReq
    BY <1>8 DEF CommitReject, NoReq
  <2> QED
    BY <1>4, <2>2, <2>3
<1>9. CASE CommitCancel(w)
  <2>1. PICK j \in Jobs : j = r.job
    BY <1>1, <1>9, RequestFields DEF CommitCancel
  <2>2. /\ job'[j].status = "CANCELLED" /\ job[j].status # "COMPLETED"
        /\ \A k \in Jobs \ {j} : job'[k] = job[k]
    BY <1>1, <1>9, <2>1 DEF CommitCancel, StillOpen, Active, JobRow
  <2> QED
    BY <1>4, <1>9, <2>2 DEF CommitCancel, NoReq
\* A step of an open ticket: the last one completes it.
<1>10. ASSUME NEW j \in Jobs, NEW target \in 1 .. 8, CompleteStep(j, target),
              Finish(w), r # NoReq, target = job[j].done + 1,
              target <= TotalSteps(job[j].track)
       PROVE  OpenInv' /\ CompletedStay
  <2>1. /\ job'[j].status = StepStatus(job[j], target)
        /\ job'[j].track = job[j].track /\ job'[j].done = target
        /\ \A k \in Jobs \ {j} : job'[k] = job[k]
    BY <1>1, <1>10 DEF CompleteStep, JobRow
  <2>2. job[j].status # "COMPLETED"
    BY <1>1, <1>10 DEF Finished, JobRow, TotalSteps
  <2>3. Finished(j)'
    BY <2>1, <2>2 DEF Finished, StepStatus
  <2> QED
    BY <1>3, <1>10, <2>1, <2>2, <2>3
<1>11. CASE CommitStep(w)
  <2>1. PICK j \in Jobs : j = r.job /\ r.target \in 1 .. 8
    BY <1>1, <1>11, RequestFields DEF CommitStep
  <2>2. /\ r.target = job[j].done + 1 /\ job[j].done < TotalSteps(job[j].track)
        /\ CompleteStep(j, r.target) /\ Finish(w) /\ r # NoReq
    BY <1>1, <1>11, <2>1 DEF CommitStep, StillSo, StillOpen, NoReq
  <2>3. r.target <= TotalSteps(job[j].track)
    BY <1>1, <2>2 DEF TotalSteps, JobRow
  <2> QED
    BY <1>10, <2>1, <2>2, <2>3
<1>12. CASE CommitHandover(w)
  <2>1. PICK j \in Jobs : j = r.job
    BY <1>1, <1>12, RequestFields DEF CommitHandover
  <2>2. /\ job[j].done = 5 /\ 6 <= TotalSteps(job[j].track)
        /\ CompleteStep(j, 6) /\ Finish(w) /\ r # NoReq
    BY <1>1, <1>12, <2>1 DEF CommitHandover, StillSo, TotalSteps, NoReq
  <2> QED
    BY <1>10, <2>2
<1>13. CASE CommitCompleteUnrepairable(w)
  <2>1. PICK j \in Jobs : j = r.job
    BY <1>1, <1>13, RequestFields DEF CommitCompleteUnrepairable
  <2>2. /\ job[j].status = "UNREPAIRABLE" /\ job[j].track = "UNREPAIRABLE"
        /\ job[j].plan = r.plan /\ Finish(w) /\ r # NoReq
    BY <1>1, <1>13, <2>1
       DEF CommitCompleteUnrepairable, StillOpen, UnrepairableByPlan, NoReq
  <2>3. /\ job'[j].done = 8 /\ job'[j].track = "UNREPAIRABLE"
        /\ \A k \in Jobs \ {j} : job'[k] = job[k]
    BY <1>1, <1>13, <2>1, <2>2 DEF CommitCompleteUnrepairable, JobRow
  <2>4. Finished(j)'
    BY <2>3 DEF Finished, TotalSteps
  <2> QED
    BY <1>3, <2>2, <2>3, <2>4
<1>14. CASE CommitReturn(w) \/ Abort(w)
  <2>1. job' = job /\ Finish(w) /\ r # NoReq
    BY <1>14 DEF CommitReturn, Abort, NoReq
  <2>2. \A v \in Workers : StillOpen(req[v])'
    BY <1>2, <2>1 DEF StillOpen, NoReq
  <2> QED
    BY <1>1, <2>1, <2>2 DEF OpenInv, Finished, CompletedStay
\* The second read of a hand-over records an operation that may go on.
<1>15. CASE ReadHandover(w)
  <2>1. /\ job' = job
        /\ \A v \in Workers \ {w} : req'[v] = req[v]
        /\ req'[w].op = "HANDOVER"
    BY <1>1, <1>15 DEF ReadHandover
  <2>2. \A v \in Workers : StillOpen(req'[v])
    BY <2>1 DEF OpenInv, StillOpen
  <2> QED
    BY <2>1, <2>2 DEF OpenInv, Finished, StillOpen, Active, CompletedStay
<1> QED
  BY <1>5, <1>6, <1>7, <1>8, <1>9, <1>11, <1>12, <1>13, <1>14, <1>15
     DEF CommitStage

(***************************************************************************)
(* One request after the other, the status and the plan of a completed     *)
(* ticket never change again: a handler of repairs.service.ts that has     *)
(* read a ticket open still finds it so, and only such a one writes it.    *)
(***************************************************************************)
THEOREM CompletedIsFinal == OfficeSpec => CompletedIsFinalInTurn
<1>1. OfficeInit => OpenInv
  BY DEF OfficeInit, RepairInit, OpenInv, Finished, StillOpen, NoJob, NoReq
<1>2. ASSUME RepairInv, TurnInv, OpenInv, [OfficeNext]_officeVars
      PROVE  OpenInv' /\ CompletedStay
  <2>1. CASE \E w \in Workers : ReadStage(w) \/ CommitStage(w)
    BY <1>2, <2>1, OpenReads, OpenCommits
  <2>2. CASE UNCHANGED officeVars
    BY <1>2, <2>2
       DEF officeVars, repairVars, OpenInv, Finished, StillOpen, Active,
           CompletedStay
  <2> QED
    BY <1>2, <2>1, <2>2 DEF OfficeNext
<1>3. [OfficeNext]_officeVars => (OneAtATime' <=> OneAtATime)
  BY DEF OfficeNext, officeVars, OneAtATime
<1>4. /\ RepairInv /\ (OneAtATime => TurnInv) /\ (OneAtATime => OpenInv)
      /\ [OfficeNext]_officeVars
      => (OneAtATime => OpenInv)' /\ [OneAtATime => CompletedStay]_officeVars
  BY <1>2, <1>3
<1> QED
  BY <1>1, <1>4, TurnInvCorrect, RepairInvCorrect, OfficeHandlesRepairs, PTL
     DEF OfficeSpec, CompletedIsFinalInTurn, CompletedStay
=============================================================================
