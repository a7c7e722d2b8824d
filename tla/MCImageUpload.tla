--------------------------- MODULE MCImageUpload ---------------------------
(***************************************************************************)
(* Instances of ImageUpload for TLC.  The object lock of the local adapter *)
(* is held within one process, so local storage goes with one process: two *)
(* uploads that replace each other, or one upload completed twice.  With   *)
(* cloud storage two processes sweep one upload.                           *)
(***************************************************************************)
EXTENDS ImageUpload

CONSTANTS u1, u2, w1, w2

MCUploads == {u1, u2}
MCWorkers == {w1, w2}

MCDeployments ==
  {[provider |-> "LOCAL", workers |-> {w1}, budget |-> 2, attempts |-> 1],
   [provider |-> "LOCAL", workers |-> {w1}, budget |-> 1, attempts |-> 2],
   [provider |-> "CLOUD", workers |-> {w1, w2}, budget |-> 1, attempts |-> 2]}
=============================================================================
