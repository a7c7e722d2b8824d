----------------------------- MODULE ImageStore -----------------------------
(***************************************************************************)
(* What the image subsystem promises, without intents, deadlines, leases   *)
(* or sweeps: every allocated image is pending until a record shows it or  *)
(* it is given up; what a record shows is in the store; what is given up   *)
(* may be removed, and once it is settled nothing is left of it.           *)
(***************************************************************************)
CONSTANTS Images, Records

VARIABLES phase,   \* how far each image has come
          shown,   \* the records that show an image: a set of pairs
          stored   \* the images the store holds something of

vars == <<phase, shown, stored>>

Phases == {"UNUSED", "PENDING", "SHOWN", "GARBAGE", "SETTLED"}

Init ==
  /\ phase = [i \in Images |-> "UNUSED"]
  /\ shown = {}
  /\ stored = {}

Allocate(i) ==
  /\ phase[i] = "UNUSED"
  /\ phase' = [phase EXCEPT ![i] = "PENDING"]
  /\ UNCHANGED <<shown, stored>>

\* Bytes may arrive late, for an image that has been given up, but never
\* for one that is settled.
Arrive(i) ==
  /\ phase[i] \in {"PENDING", "GARBAGE"}
  /\ stored' = stored \union {i}
  /\ UNCHANGED <<phase, shown>>

\* A record shows a stored pending image; the image it showed is given up.
Show(i, r) ==
  /\ phase[i] = "PENDING" /\ i \in stored
  /\ phase' = [j \in Images |-> IF j = i THEN "SHOWN"
                                ELSE IF <<r, j>> \in shown THEN "GARBAGE"
                                ELSE phase[j]]
  /\ shown' = {p \in shown : p[1] # r} \union {<<r, i>>}
  /\ UNCHANGED stored

GiveUp(S) ==
  /\ \A i \in S : phase[i] = "PENDING"
  /\ phase' = [i \in Images |-> IF i \in S THEN "GARBAGE" ELSE phase[i]]
  /\ UNCHANGED <<shown, stored>>

Remove(i) ==
  /\ phase[i] \in {"GARBAGE", "SETTLED"}
  /\ stored' = stored \ {i}
  /\ UNCHANGED <<phase, shown>>

Settle(i) ==
  /\ phase[i] = "GARBAGE" /\ i \notin stored
  /\ phase' = [phase EXCEPT ![i] = "SETTLED"]
  /\ UNCHANGED <<shown, stored>>

Next ==
  \/ \E i \in Images : Allocate(i) \/ Arrive(i) \/ Remove(i) \/ Settle(i)
  \/ \E i \in Images, r \in Records : Show(i, r)
  \/ \E S \in SUBSET Images : GiveUp(S)

Spec == Init /\ [][Next]_vars
=============================================================================
