--------------------------- MODULE RepairWorkflow ---------------------------
(***************************************************************************)
(* The repair tickets of one asset and the spare part they draw from       *)
(* stock: repairs.service.ts.                                              *)
(*                                                                         *)
(* Unlike the loan service, almost every handler here reads the ticket     *)
(* OUTSIDE its transaction, decides, and then writes by id only.  A        *)
(* handler is two steps: Read..., which records in req[w] what the         *)
(* transaction will rely on, and Commit..., the transaction.  Between the  *)
(* two any other request may commit.  The transactions run under the READ  *)
(* COMMITTED default of PostgreSQL and write the ticket row, so that two   *)
(* of them are serialised by its row lock and each is one step; the batch  *)
(* hand-over, which reads inside its transaction before it takes a lock,   *)
(* is two.                                                                 *)
(*                                                                         *)
(* A requisition is one line of one part: the code treats the lines of a   *)
(* requisition one after the other in the same way.                        *)
(***************************************************************************)
EXTENDS HospitalAsset, Integers, FiniteSets, Functions

CONSTANTS Jobs,        \* ids of the tickets that may be opened
          Workers,     \* HTTP requests that may be in progress at once
          Quantities,  \* quantities a requisition or a return may name
          InitStock,   \* qtyInStock of the part to begin with
          MaxPlans     \* bound: diagnoses per ticket

ASSUME RepairAssumption ==
  /\ Quantities \subseteq Nat \ {0}
  /\ InitStock \in Nat
  /\ MaxPlans \in Nat
  /\ IsFiniteSet(Jobs)

VARIABLES
  job,       \* repair_job and its repair_job_step rows
  line,      \* the sparepart_txn of the requisition
  returned,  \* the sum of its RETURN transactions
  stock,     \* sparepart.qtyInStock
  req        \* what each request in progress has read

repairVars == <<asset, job, line, returned, stock, req>>

\* The seed defines WAITING_HANDOVER; no handler sets it.
JobStatus ==
  {"WAITING_HANDOVER", "PENDING_ASSIGN", "IN_PROGRESS", "WAITING_PARTS",
   "PARCEL_PROCESSING", "OUTSOURCED", "UNREPAIRABLE", "WAITING_DELIVERY",
   "COMPLETED", "CANCELLED"}

Tracks == {"SELF_REPAIR", "WITH_PARTS", "OUTSOURCE", "UNREPAIRABLE"}

(* plan counts the diagnoses of the ticket: each deletes the steps and     *)
(* clones new ones, so that a step row is named by plan and number.  Steps *)
(* are completed in order: done of them are.  rejected: step 5 carries the *)
(* rejection note.                                                         *)
JobRow == [status   : {"NONE"} \union JobStatus,
           track    : {"NONE"} \union Tracks,
           plan     : Nat,
           done     : 0 .. 8,
           rejected : BOOLEAN]

NoJob == [status |-> "NONE", track |-> "NONE", plan |-> 0, done |-> 0,
          rejected |-> FALSE]

LineRow == [kind      : {"NONE", "PENDING_WITHDRAW", "WITHDRAW"},
            stockType : {"NONE", "INTERNAL", "EXTERNAL"},
            qty       : Nat]

NoLine == [kind |-> "NONE", stockType |-> "NONE", qty |-> 0]
Requisition(kind, stockType, qty) ==
  [kind |-> kind, stockType |-> stockType, qty |-> qty]

\* What a diagnosis asks for: a track and, for WITH_PARTS, a requisition.
Diagnoses ==
  {[track |-> t, line |-> NoLine] : t \in Tracks \ {"WITH_PARTS"}}
    \union
  {[track |-> "WITH_PARTS", line |-> Requisition("PENDING_WITHDRAW", s, q)] :
     s \in {"INTERNAL", "EXTERNAL"}, q \in Quantities}

NoReq == [op |-> "NONE"]

Requests ==
  {NoReq}
    \union [op : {"CREATE"}, seen : AssetRow]
    \union [op : {"ASSIGN", "CANCEL"}, job : Jobs]
    \union [op : {"DIAGNOSE"}, job : Jobs, to : Diagnoses]
    \union [op : {"STEP"}, job : Jobs, plan : Nat, target : 1 .. 8]
    \union [op : {"HANDOVER"}, job : Jobs, plan : Nat, pending : LineRow]
    \union [op : {"REJECT"}, job : Jobs, plan : Nat]
    \union [op : {"COMPLETE_UNREPAIRABLE"}, job : Jobs, plan : Nat,
            done : 0 .. 8]
    \union [op : {"RETURN"}, job : Jobs, qty : Quantities]

Active(j) == job[j].status \notin {"NONE", "COMPLETED", "CANCELLED"}

TotalSteps(track) == IF track = "SELF_REPAIR" THEN 6 ELSE 8

\* The steps a diagnosis completes by itself; the next one is the first of
\* the work that an approval, a delivery or a repair starts.
DiagnosedSteps(track) == IF track = "SELF_REPAIR" THEN 3 ELSE 4

PastApproval(row) == row.plan > 0 /\ row.done > DiagnosedSteps(row.track)

NeedsParcelApproval(track) == track \in {"WITH_PARTS", "OUTSOURCE"}

Withdrawn(l) == IF l.kind = "WITHDRAW" THEN l.qty ELSE 0

DropPending(l) == IF l.kind = "PENDING_WITHDRAW" THEN NoLine ELSE l

RepairInit ==
  /\ asset \in RegisteredAsset
  /\ job = [j \in Jobs |-> NoJob]
  /\ line = [j \in Jobs |-> NoLine]
  /\ returned = [j \in Jobs |-> 0]
  /\ stock = InitStock
  /\ req = [w \in Workers |-> NoReq]

----------------------------------------------------------------------------
(***************************************************************************)
(* A request in progress.                                                  *)
(***************************************************************************)
Read(w, request) ==
  /\ req[w] = NoReq
  /\ req' = [req EXCEPT ![w] = request]
  /\ UNCHANGED <<asset, job, line, returned, stock>>

Finish(w) == req' = [req EXCEPT ![w] = NoReq]

\* A guarded write that matches no row, a deadlock victim, a duplicate job
\* number or a lost connection: the transaction leaves nothing behind.
Abort(w) ==
  /\ req[w] # NoReq
  /\ Finish(w)
  /\ UNCHANGED <<asset, job, line, returned, stock>>

\* Mutant: a lost asset may be sent to repair.
ReadCreateRequestLost(w) ==
  /\ asset.status # "DISPOSAL"
  /\ ~ IsBorrowedOrReserved(asset)
  /\ \A j \in Jobs : ~ Active(j)
  /\ Read(w, [op |-> "CREATE", seen |-> asset])

(***************************************************************************)
(* createRequest: the check for an active ticket and the read of the asset *)
(* precede the transaction, whose write names the asset pair that was read.*)
(***************************************************************************)
ReadCreateRequest(w) ==
  /\ asset.status \notin {"DISPOSAL", "LOST"}
  /\ ~ IsBorrowedOrReserved(asset)
  /\ \A j \in Jobs : ~ Active(j)
  /\ Read(w, [op |-> "CREATE", seen |-> asset])

CommitCreateRequest(w) ==
  /\ req[w].op = "CREATE"
  /\ asset = req[w].seen
  /\ asset' = Row("UNDER_REPAIR", "UNAVAILABLE")
  /\ \E j \in Jobs :
       /\ job[j].status = "NONE"
       /\ job' = [job EXCEPT ![j].status = "PENDING_ASSIGN"]
  /\ Finish(w)
  /\ UNCHANGED <<line, returned, stock>>

\* assignJob: replaces the mechanics and puts the ticket back in progress.
ReadAssign(w, j) ==
  /\ Active(j)
  /\ Read(w, [op |-> "ASSIGN", job |-> j])

CommitAssign(w) ==
  /\ req[w].op = "ASSIGN"
  /\ job' = [job EXCEPT ![req[w].job].status = "IN_PROGRESS"]
  /\ Finish(w)
  /\ UNCHANGED <<asset, line, returned, stock>>

(***************************************************************************)
(* diagnoseAndPlan: the stock is looked at before the transaction; the     *)
(* transaction gives back what earlier plans withdrew, forgets their       *)
(* transactions and steps, and writes the new plan.                        *)
(***************************************************************************)
ReadDiagnose(w, j, to) ==
  /\ Active(j)
  /\ ~ PastApproval(job[j])
  /\ to.line.stockType = "INTERNAL" => stock >= to.line.qty
  /\ Read(w, [op |-> "DIAGNOSE", job |-> j, to |-> to])

DiagnosedStatus(to) ==
  CASE to.track = "SELF_REPAIR"  -> "IN_PROGRESS"
    [] to.track = "WITH_PARTS"   -> IF to.line.stockType = "EXTERNAL"
                                    THEN "WAITING_PARTS"
                                    ELSE "PARCEL_PROCESSING"
    [] to.track = "OUTSOURCE"    -> "PARCEL_PROCESSING"
    [] to.track = "UNREPAIRABLE" -> "UNREPAIRABLE"

CommitDiagnose(w) ==
  LET j == req[w].job  to == req[w].to IN
  /\ req[w].op = "DIAGNOSE"
  /\ job[j].plan < MaxPlans
  /\ job' = [job EXCEPT ![j] = [status   |-> DiagnosedStatus(to),
                                track    |-> to.track,
                                plan     |-> job[j].plan + 1,
                                done     |-> DiagnosedSteps(to.track),
                                rejected |-> FALSE]]
  /\ stock' = stock + Withdrawn(line[j])
  /\ line' = [line EXCEPT ![j] = to.line]
  /\ returned' = [returned EXCEPT ![j] = 0]
  /\ Finish(w)
  /\ UNCHANGED asset

(***************************************************************************)
(* updateStepProgress, also reached through advanceNextStep: the steps are *)
(* read before the transaction, the status of the ticket is not looked at. *)
(***************************************************************************)
ReadStep(w, j) ==
  /\ job[j].plan > 0
  /\ ~ job[j].rejected
  /\ job[j].done < TotalSteps(job[j].track)
  /\ Read(w, [op |-> "STEP", job |-> j, plan |-> job[j].plan,
              target |-> job[j].done + 1])

\* Mutant: the last step of an unrepairable asset gives the ticket the status
\* that is meant for the asset, which no row of the ticket statuses has.
StepStatusOfAsset(row, target) ==
  CASE target # TotalSteps(row.track) -> row.status
    [] row.track = "UNREPAIRABLE" -> "WAIT_DISPOSAL"
    [] OTHER -> "COMPLETED"

StepStatus(row, target) ==
  CASE target = TotalSteps(row.track) -> "COMPLETED"
    [] target = TotalSteps(row.track) - 1 /\ row.track # "UNREPAIRABLE" ->
         "WAITING_DELIVERY"
    [] row.track = "OUTSOURCE" /\ target = 5 -> "OUTSOURCED"
    [] row.track = "OUTSOURCE" /\ target = 6 -> "IN_PROGRESS"
    [] row.track = "WITH_PARTS" /\ target = 6 -> "IN_PROGRESS"
    [] row.track = "SELF_REPAIR" /\ target = 4 -> "IN_PROGRESS"
    [] OTHER -> row.status

\* The write of the step row restores the note that was read with it: none.
CompleteStep(j, target) ==
  job' = [job EXCEPT
            ![j].status   = StepStatus(job[j], target),
            ![j].done     = IF @ < target THEN target ELSE @,
            ![j].rejected = @ /\ target # 5]

IsHandover(row, target) == row.track = "WITH_PARTS" /\ target = 6

\* The step row is written by id: it is gone when the plan is another one.
CommitStep(w) ==
  LET j == req[w].job  row == job[j] IN
  /\ req[w].op = "STEP"
  /\ row.plan = req[w].plan
  /\ ~ IsHandover(row, req[w].target)
  /\ CompleteStep(j, req[w].target)
  /\ asset' = IF req[w].target # TotalSteps(row.track) THEN asset
              ELSE IF row.track = "UNREPAIRABLE"
                   THEN Row("WAIT_DISPOSAL", "UNAVAILABLE")
                   ELSE LendableAsset
  /\ Finish(w)
  /\ UNCHANGED <<line, returned, stock>>

\* Step 6 of WITH_PARTS, the batch hand-over: its transaction first reads
\* the pending lines and the stock, without locking them ...
ReadHandover(w) ==
  LET j == req[w].job IN
  /\ req[w].op = "STEP"
  /\ job[j].plan = req[w].plan
  /\ IsHandover(job[j], req[w].target)
  /\ line[j].kind = "PENDING_WITHDRAW" /\ line[j].stockType = "INTERNAL"
       => stock >= line[j].qty
  /\ req' = [req EXCEPT ![w] =
               [op |-> "HANDOVER", job |-> j, plan |-> req[w].plan,
                pending |-> IF line[j].kind = "PENDING_WITHDRAW"
                            THEN line[j] ELSE NoLine]]
  /\ UNCHANGED <<asset, job, line, returned, stock>>

\* Mutant: parts bought outside are taken off the stock as well.
CommitHandoverIgnoresSource(w) ==
  LET j == req[w].job IN
  /\ req[w].op = "HANDOVER"
  /\ job[j].plan = req[w].plan
  /\ CompleteStep(j, 6)
  /\ line' = [line EXCEPT ![j].kind = IF @ = "NONE" THEN @ ELSE "WITHDRAW"]
  /\ stock' = stock - req[w].pending.qty
  /\ Finish(w)
  /\ UNCHANGED <<asset, returned>>

\* Mutant: the lines stay pending.
CommitHandoverKeepsLines(w) ==
  /\ req[w].op = "HANDOVER"
  /\ job[req[w].job].plan = req[w].plan
  /\ CompleteStep(req[w].job, 6)
  /\ Finish(w)
  /\ UNCHANGED <<asset, line, returned, stock>>

\* ... and then takes what it read off the stock, writes the lines by id
\* and completes the step.
CommitHandover(w) ==
  LET j == req[w].job  pending == req[w].pending IN
  /\ req[w].op = "HANDOVER"
  /\ job[j].plan = req[w].plan
  /\ CompleteStep(j, 6)
  /\ IF pending = NoLine THEN UNCHANGED <<line, stock>>
     ELSE /\ line[j].kind # "NONE"
          /\ line' = [line EXCEPT ![j].kind = "WITHDRAW"]
          /\ stock' = IF pending.stockType = "INTERNAL"
                      THEN stock - pending.qty ELSE stock
  /\ Finish(w)
  /\ UNCHANGED <<asset, returned>>

\* Mutant: any pending step can be refused, not only the approval.
ReadRejectAnyStep(w, j) ==
  /\ Active(j)
  /\ NeedsParcelApproval(job[j].track)
  /\ ~ job[j].rejected
  /\ Read(w, [op |-> "REJECT", job |-> j, plan |-> job[j].plan])

\* rejectStep: the parcel staff refuse step 5.
ReadReject(w, j) ==
  /\ Active(j)
  /\ NeedsParcelApproval(job[j].track)
  /\ job[j].done = 4
  /\ ~ job[j].rejected
  /\ Read(w, [op |-> "REJECT", job |-> j, plan |-> job[j].plan])

CommitReject(w) ==
  LET j == req[w].job IN
  /\ req[w].op = "REJECT"
  /\ job[j].plan = req[w].plan
  /\ job' = [job EXCEPT ![j].rejected = TRUE, ![j].status = "IN_PROGRESS"]
  /\ line' = [line EXCEPT ![j] = DropPending(@)]
  /\ Finish(w)
  /\ UNCHANGED <<asset, returned, stock>>

\* completeUnrepairable: the parcel staff take the equipment into custody.
ReadCompleteUnrepairable(w, j) ==
  /\ job[j].status = "UNREPAIRABLE"
  /\ Read(w, [op |-> "COMPLETE_UNREPAIRABLE", job |-> j,
              plan |-> job[j].plan, done |-> job[j].done])

CommitCompleteUnrepairable(w) ==
  LET j == req[w].job IN
  /\ req[w].op = "COMPLETE_UNREPAIRABLE"
  /\ req[w].done < 8 => job[j].plan = req[w].plan
  /\ job' = [job EXCEPT ![j].status = "COMPLETED",
                        ![j].done = IF job[j].plan = req[w].plan THEN 8 ELSE @]
  /\ asset' = Row("WAIT_DISPOSAL", "UNAVAILABLE")
  /\ Finish(w)
  /\ UNCHANGED <<line, returned, stock>>

\* cancelRepairJob: drops the pending requisition and frees the asset.
ReadCancel(w, j) ==
  /\ Active(j)
  /\ ~ PastApproval(job[j])
  /\ Read(w, [op |-> "CANCEL", job |-> j])

\* Mutant: the asset of a cancelled ticket stays under repair.
CommitCancelKeepsAsset(w) ==
  /\ req[w].op = "CANCEL"
  /\ job' = [job EXCEPT ![req[w].job].status = "CANCELLED"]
  /\ line' = [line EXCEPT ![req[w].job] = DropPending(@)]
  /\ Finish(w)
  /\ UNCHANGED <<asset, returned, stock>>

\* Mutant: the asset is offered again, its status left as it is.
CommitCancelKeepsStatus(w) ==
  /\ req[w].op = "CANCEL"
  /\ job' = [job EXCEPT ![req[w].job].status = "CANCELLED"]
  /\ line' = [line EXCEPT ![req[w].job] = DropPending(@)]
  /\ asset' = [asset EXCEPT !.avail = "AVAILABLE"]
  /\ Finish(w)
  /\ UNCHANGED <<returned, stock>>

CommitCancel(w) ==
  LET j == req[w].job IN
  /\ req[w].op = "CANCEL"
  /\ job' = [job EXCEPT ![j].status = "CANCELLED"]
  /\ line' = [line EXCEPT ![j] = DropPending(@)]
  /\ asset' = LendableAsset
  /\ Finish(w)
  /\ UNCHANGED <<returned, stock>>

\* Mutant: what was given back before is forgotten.
ReadReturnForgetsReturns(w, j, qty) ==
  /\ job[j].status \notin {"NONE", "COMPLETED"}
  /\ qty <= Withdrawn(line[j])
  /\ Read(w, [op |-> "RETURN", job |-> j, qty |-> qty])

\* returnSparePart: the returnable quantity is summed before the
\* transaction, which only adds.
ReadReturn(w, j, qty) ==
  /\ job[j].status \notin {"NONE", "COMPLETED"}
  /\ qty <= Withdrawn(line[j]) - returned[j]
  /\ Read(w, [op |-> "RETURN", job |-> j, qty |-> qty])

CommitReturn(w) ==
  LET j == req[w].job IN
  /\ req[w].op = "RETURN"
  /\ stock' = stock + req[w].qty
  /\ returned' = [returned EXCEPT ![j] = @ + req[w].qty]
  /\ Finish(w)
  /\ UNCHANGED <<asset, job, line>>

ReadStage(w) ==
  \/ ReadCreateRequest(w)
  \/ \E j \in Jobs :
       \/ ReadAssign(w, j)
       \/ \E to \in Diagnoses : ReadDiagnose(w, j, to)
       \/ ReadStep(w, j)
       \/ ReadReject(w, j)
       \/ ReadCompleteUnrepairable(w, j)
       \/ ReadCancel(w, j)
       \/ \E qty \in Quantities : ReadReturn(w, j, qty)

CommitStage(w) ==
  \/ CommitCreateRequest(w)
  \/ CommitAssign(w)
  \/ CommitDiagnose(w)
  \/ CommitStep(w)
  \/ ReadHandover(w)
  \/ CommitHandover(w)
  \/ CommitReject(w)
  \/ CommitCompleteUnrepairable(w)
  \/ CommitCancel(w)
  \/ CommitReturn(w)
  \/ Abort(w)

RepairNext == \E w \in Workers : ReadStage(w) \/ CommitStage(w)

RepairSpec == RepairInit /\ [][RepairNext]_repairVars

----------------------------------------------------------------------------
(* Type correctness of the tickets, the stock and the requests.            *)
RepairTypeOK ==
  /\ asset \in AssetRow
  /\ job \in [Jobs -> JobRow]
  /\ line \in [Jobs -> LineRow]
  /\ returned \in [Jobs -> Nat]
  /\ stock \in Int
  /\ req \in [Workers -> Requests]

(* An asset is never left under repair without a ticket somebody can still *)
(* close: every way out of the active statuses also moves the asset.       *)
UnderRepairHasActiveJob ==
  asset.status = "UNDER_REPAIR" => \E j \in Jobs : Active(j)

(* After the batch hand-over nothing of the requisition is still pending,  *)
(* and parts are withdrawn only by it: whatever races with the hand-over,  *)
(* a re-diagnosis or a rejection included.                                 *)
HandoverSettlesRequisition ==
  \A j \in Jobs :
    LET handedOver == job[j].track = "WITH_PARTS" /\ job[j].done >= 6 IN
    /\ handedOver => line[j].kind # "PENDING_WITHDRAW"
    /\ line[j].kind = "WITHDRAW" => handedOver

TakenFromStock(l) == IF l.stockType = "INTERNAL" THEN Withdrawn(l) ELSE 0

(* The stock accounts for every transaction on file: what was there less   *)
(* what INTERNAL requisitions withdrew plus what was returned.  Requests   *)
(* that overlap break it (see the README); one after the other, cancelled, *)
(* rejected and re-diagnosed tickets included, they keep it.               *)
LedgerBalanced ==
  stock = InitStock - SumFunction([j \in Jobs |-> TakenFromStock(line[j])])
                    + SumFunction(returned)

(* No ticket gives back more parts than it took.                           *)
ReturnedWithinWithdrawn ==
  \A j \in Jobs : returned[j] <= Withdrawn(line[j])

(* A rejected plan waits for a new diagnosis, so a new diagnosis must still *)
(* be possible: no later step of the plan has been completed.              *)
RejectedPlanCanBeRediagnosed ==
  \A j \in Jobs : Active(j) /\ job[j].rejected => ~ PastApproval(job[j])

(* An asset has one active ticket at most.                                 *)
OneActiveJob == \A i, j \in Jobs : Active(i) /\ Active(j) => i = j
=============================================================================
