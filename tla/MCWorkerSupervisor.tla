------------------------- MODULE MCWorkerSupervisor -------------------------
(* TLC instances of WorkerSupervisor. *)
EXTENDS SupervisorClaims, TLC

CONSTANTS page, m1

SlotSymmetry == Permutations(Slots)

PageGuard == m1 :> page
PageOnly == m1 :> {page}
OneJob == page :> 1
=============================================================================
