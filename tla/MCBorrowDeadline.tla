-------------------------- MODULE MCBorrowDeadline --------------------------
(* Instances of BorrowDeadline: two loans, each with its own borrower.     *)
EXTENDS BorrowDeadline

CONSTANTS ann, bob

MCBorrower == <<ann, bob>>
=============================================================================
