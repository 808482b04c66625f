--------------------------- MODULE MCBackfillFork ---------------------------
(* TLC instances of BackfillFork: fork.cfg and claim_fallback_lock.cfg. *)
EXTENDS BackfillForkClaims
=============================================================================
