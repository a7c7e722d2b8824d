---------------------------- MODULE AssetCustody ----------------------------
(***************************************************************************)
(* What the loan workflow promises about one piece of equipment, without   *)
(* tables, columns or handlers: it is idle, promised to one borrower, out  *)
(* with that borrower, on its way back, or out of service; a borrower is   *)
(* served once.                                                            *)
(***************************************************************************)
CONSTANT Borrowers

VARIABLES holders,   \* who has a claim on the equipment
          phase,     \* where the equipment is
          served     \* borrowers whose claim has ended

vars == <<holders, phase, served>>

Phases == {"IDLE", "PROMISED", "OUT", "COMING_BACK", "OUT_OF_SERVICE"}

Init ==
  /\ holders = {}
  /\ phase = "IDLE"
  /\ served = {}

Promise(b) ==
  /\ phase = "IDLE" /\ holders = {} /\ b \notin served
  /\ holders' = {b}
  /\ phase' \in {"PROMISED", "OUT"}
  /\ UNCHANGED served

Deliver ==
  /\ phase = "PROMISED"
  /\ phase' = "OUT"
  /\ UNCHANGED <<holders, served>>

StartReturn ==
  /\ phase = "OUT"
  /\ phase' = "COMING_BACK"
  /\ UNCHANGED <<holders, served>>

\* The claim of the only holder ends and the equipment is free again, or
\* it came back broken.
EndClaim(b) ==
  /\ holders = {b}
  /\ holders' = {}
  /\ served' = served \union {b}
  /\ \/ phase = "PROMISED" /\ phase' = "IDLE"
     \/ phase \in {"OUT", "COMING_BACK"} /\ phase' \in {"IDLE", "OUT_OF_SERVICE"}

Next ==
  \/ \E b \in Borrowers : Promise(b) \/ EndClaim(b)
  \/ Deliver
  \/ StartReturn

Spec == Init /\ [][Next]_vars
=============================================================================
