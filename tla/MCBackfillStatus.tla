-------------------------- MODULE MCBackfillStatus --------------------------
(* TLC instances of BackfillStatus. *)
EXTENDS BackfillStatus, TLC

CategorySymmetry == Permutations(Categories)
=============================================================================
