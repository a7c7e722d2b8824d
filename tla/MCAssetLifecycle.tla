-------------------------- MODULE MCAssetLifecycle --------------------------
(***************************************************************************)
(* The composed services on small instances.                               *)
(***************************************************************************)
EXTENDS AssetLifecycle, TLC

Symmetry == Permutations(Loans) \union Permutations(Jobs)
              \union Permutations(Workers)
=============================================================================
