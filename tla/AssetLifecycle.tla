--------------------------- MODULE AssetLifecycle ---------------------------
(***************************************************************************)
(* The three services that write one asset row, together: the loans        *)
(* (AssetBorrow), the repair tickets (RepairWorkflow) and the status edits *)
(* of asset.service.ts, which are this module's own actions.  They meet    *)
(* only in the asset row and, when an asset is marked LOST, in the cascade *)
(* over the loans and the tickets.                                         *)
(*                                                                         *)
(* A status edit reads the asset before its transaction and writes it      *)
(* where the pair it read still stands, so it is one atomic step.  LOST is *)
(* two, because its transaction collects the active tickets before it      *)
(* reaches that guard.                                                     *)
(***************************************************************************)
EXTENDS AssetBorrow, RepairWorkflow

VARIABLE lostScan    \* the request that marks the asset LOST, in progress

lifecycleVars == <<asset, loan, job, line, returned, stock, req, lostScan>>
ticketVars == <<job, line, returned, stock, req>>

NoScan == [active |-> FALSE]
LostScans ==
  {NoScan} \union [active : {TRUE}, seen : AssetRow, jobs : SUBSET Jobs]

LifecycleInit ==
  /\ RepairInit
  /\ loan = [l \in Loans |-> "NONE"]
  /\ lostScan = NoScan

----------------------------------------------------------------------------
\* ALLOWED_FROM: the statuses a target status may be entered from.
AllowedFrom(target) ==
  CASE target \in {"NORMAL", "LOST", "WAIT_DISPOSAL"} ->
         {"NORMAL", "DAMAGED", "UNDER_REPAIR"}
    [] target = "DISPOSAL" ->
         {"NORMAL", "DAMAGED", "UNDER_REPAIR", "WAIT_DISPOSAL"}
    [] target = "DAMAGED" -> {"NORMAL"}
    [] target = "UNDER_REPAIR" -> {"DAMAGED", "NORMAL"}

ConsistentAvailability(target) ==
  IF target = "NORMAL" THEN "AVAILABLE" ELSE "UNAVAILABLE"

HeldAssetMayBecome(target) == target \in {"NORMAL", "LOST"}

(***************************************************************************)
(* updateStatus, and update with an asset_status_id.  An edit to the       *)
(* status the asset has leaves the row as it is and is not a step.         *)
(***************************************************************************)
UpdateStatus(target) ==
  /\ asset.status # target
  /\ asset.status \in AllowedFrom(target)
  /\ IsBorrowedOrReserved(asset) => HeldAssetMayBecome(target)
  /\ asset' = Row(target, ConsistentAvailability(target))
  /\ UNCHANGED <<loan, ticketVars, lostScan>>

(***************************************************************************)
(* createDisposal: the disposal record it also writes is history nobody    *)
(* reads back.  The tickets of the asset are not looked at.                *)
(***************************************************************************)
CreateDisposal ==
  /\ ~ IsBorrowedOrReserved(asset)
  /\ asset.status \in AllowedFrom("DISPOSAL")
  /\ asset' = Row("DISPOSAL", "UNAVAILABLE")
  /\ UNCHANGED <<loan, ticketVars, lostScan>>

\* updateStatus to LOST: the asset and, under repair, its active tickets
\* are read ...
ScanForLost ==
  /\ lostScan = NoScan
  /\ asset.status \in AllowedFrom("LOST")
  /\ lostScan' = [active |-> TRUE,
                  seen   |-> asset,
                  jobs   |-> IF asset.status = "UNDER_REPAIR"
                             THEN {j \in Jobs : Active(j)} ELSE {}]
  /\ UNCHANGED <<asset, loan, ticketVars>>

CascadeCancelLoans ==
  loan' = IF IsBorrowedOrReserved(lostScan.seen)
          THEN [l \in Loans |-> IF loan[l] \in Open THEN "CANCELLED"
                                                     ELSE loan[l]]
          ELSE loan

\* The tickets found by the scan are written by id, whatever they are now.
CascadeCancelTickets ==
  /\ job' = [j \in Jobs |-> IF j \in lostScan.jobs
                            THEN [job[j] EXCEPT !.status = "CANCELLED"]
                            ELSE job[j]]
  /\ line' = [j \in Jobs |-> IF j \in lostScan.jobs THEN DropPending(line[j])
                                                    ELSE line[j]]

\* ... and all of it is written if the asset is still what it was.
CommitLost ==
  /\ lostScan.active
  /\ asset = lostScan.seen
  /\ CascadeCancelLoans
  /\ CascadeCancelTickets
  /\ asset' = Row("LOST", ConsistentAvailability("LOST"))
  /\ lostScan' = NoScan
  /\ UNCHANGED <<returned, stock, req>>

\* The asset has changed, or the transaction failed: nothing is left of it.
AbortLost ==
  /\ lostScan.active
  /\ lostScan' = NoScan
  /\ UNCHANGED <<asset, loan, ticketVars>>

StatusStep ==
  \/ \E target \in AssetStatus \ {"LOST"} : UpdateStatus(target)
  \/ CreateDisposal
  \/ ScanForLost
  \/ CommitLost
  \/ AbortLost

LoanServiceStep == BorrowNext /\ UNCHANGED <<ticketVars, lostScan>>

RepairServiceStep == RepairNext /\ UNCHANGED <<loan, lostScan>>

LifecycleNext == LoanServiceStep \/ RepairServiceStep \/ StatusStep

LifecycleSpec == LifecycleInit /\ [][LifecycleNext]_lifecycleVars

----------------------------------------------------------------------------
(* Type correctness of the composition.                                    *)
LifecycleTypeOK ==
  /\ BorrowTypeOK
  /\ RepairTypeOK
  /\ lostScan \in LostScans

(* Rule 1 of CONTEXT.md, which no single service can keep: only an asset   *)
(* in NORMAL status is lendable, reserved or borrowed.  Loans move the     *)
(* availability, tickets and status edits move the status, and every       *)
(* unguarded write has to set the pair.                                    *)
StatusControlsAvailability ==
  asset.avail # "UNAVAILABLE" => asset.status = "NORMAL"

(* A held asset always has the loan that holds it: nobody else can leave   *)
(* it RESERVED or BORROWED, a state only that loan's handlers can leave.   *)
NoOrphanHold ==
  /\ asset.avail = "RESERVED" => \E l \in Loans : loan[l] \in Requested
  /\ asset.avail = "BORROWED" => \E l \in Loans : loan[l] = "BORROWED"

(* A ticket whose steps can still be completed, or that can be closed or   *)
(* cancelled: it will write the asset.                                     *)
CanProgress(row) ==
  \/ row.status \notin {"NONE", "COMPLETED", "CANCELLED"}
  \/ row.plan > 0 /\ ~ row.rejected /\ row.done < TotalSteps(row.track)

(* Nobody holds unfinished business with a retired asset.                  *)
QuietlyRetired ==
  /\ asset.status \in {"DISPOSAL", "LOST"}
  /\ \A l \in Loans : loan[l] \notin Returning
  /\ \A j \in Jobs : ~ CanProgress(job[j])
  /\ \A w \in Workers : req[w].op \in {"NONE", "RETURN"}

(* Disposed of or lost is final once nothing is in flight: no sequence of  *)
(* requests to any of the three services brings the asset back.            *)
RetirementIsFinal == [][QuietlyRetired => QuietlyRetired']_lifecycleVars

(* No ghost availability (ADR 0002): an asset offered for lending is not   *)
(* in the hands of a borrower.                                             *)
NoGhostAvailability ==
  asset.avail = "AVAILABLE" => OpenLoans = {}
=============================================================================
