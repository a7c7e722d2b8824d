--------------------------- MODULE HospitalAsset ---------------------------
(***************************************************************************)
(* One row of the table "assets": the two columns every workflow of the    *)
(* system competes for.  "status" says what the equipment is like, "avail" *)
(* whether it may be lent.  Every handler of the backend touches exactly   *)
(* one asset row, so one row is enough to study how they interact.         *)
(***************************************************************************)

VARIABLE asset

AssetStatus ==
  {"NORMAL", "DAMAGED", "UNDER_REPAIR", "WAIT_DISPOSAL", "DISPOSAL", "LOST"}

AvailabilityStatus == {"AVAILABLE", "RESERVED", "BORROWED", "UNAVAILABLE"}

AssetRow == [status : AssetStatus, avail : AvailabilityStatus]

Row(s, a) == [status |-> s, avail |-> a]

LendableAsset == Row("NORMAL", "AVAILABLE")

(***************************************************************************)
(* An asset is registered in good order and lendable, or as a damaged one. *)
(* asset.service.ts stores the pair the registrar typed in without looking *)
(* at it; the model starts from the two pairs rule 1 of CONTEXT.md allows  *)
(* and the registration form offers.                                       *)
(***************************************************************************)
RegisteredAsset == {LendableAsset, Row("DAMAGED", "UNAVAILABLE")}

IsBorrowedOrReserved(row) == row.avail \in {"BORROWED", "RESERVED"}

(***************************************************************************)
(* A Prisma "updateMany ... where availability = a" on the asset row:      *)
(* enabled when the guard matches (count = 1); otherwise the handler       *)
(* throws and its transaction rolls back.                                  *)
(***************************************************************************)
MoveAvailability(from, to) ==
  /\ asset.avail = from
  /\ asset' = [asset EXCEPT !.avail = to]
=============================================================================
