-------------------------- MODULE MCRepairWorkflow --------------------------
(***************************************************************************)
(* The repair workflow on small instances.  One run checks it in three     *)
(* offices: one request at a time with two tickets and two plans each, and *)
(* two requests at a time with either one ticket of two plans or two       *)
(* tickets of one plan.                                                    *)
(* Requests and tickets are interchangeable; only invariants are checked.  *)
(***************************************************************************)
EXTENDS RepairOffice, TLC

Symmetry == Permutations(Jobs) \union Permutations(Workers)

MCOffices == {[requests |-> 1, tickets |-> 2, plans |-> 2],
              [requests |-> 2, tickets |-> 1, plans |-> 2],
              [requests |-> 2, tickets |-> 2, plans |-> 1]}
=============================================================================
