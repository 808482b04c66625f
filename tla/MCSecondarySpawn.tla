-------------------------- MODULE MCSecondarySpawn --------------------------
(* TLC instances of SecondarySpawn. *)
EXTENDS SecondarySpawn
=============================================================================
