------------------------- MODULE MCBorrowExtension -------------------------
(***************************************************************************)
(* The extensions of a loan on a small instance: a desk that serves one    *)
(* request at a time, and one that serves two.  Extensions and requests    *)
(* are interchangeable; only invariants are checked.                       *)
(***************************************************************************)
EXTENDS ExtensionDesk, TLC

Interchangeable == Permutations(Extensions) \union Permutations(Workers)
=============================================================================
