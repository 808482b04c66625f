-------------------------- MODULE MCCollisionGuard --------------------------
(* TLC instances of CollisionGuard. *)
EXTENDS CollisionGuardClaims, TLC

CallSymmetry == Permutations(Calls)
=============================================================================
