------------------------- MODULE MCSessionLifetime -------------------------
(***************************************************************************)
(* An instance of SessionLifetime for TLC, with interchangeable requests   *)
(* and handlers.                                                           *)
(***************************************************************************)
EXTENDS SessionLifetime, TLC

Interchangeable == Permutations(Requests) \union Permutations(Handlers)
=============================================================================
