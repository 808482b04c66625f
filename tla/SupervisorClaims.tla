-------------------------- MODULE SupervisorClaims --------------------------
(***************************************************************************)
(* What comments and documents of the repository say of the supervisor and *)
(* of its lock, stated on the model of the code.  The code does not meet   *)
(* them; each is checked by a run that exhibits a behaviour against it.    *)
(***************************************************************************)
EXTENDS WorkerSupervisor

(* worker-active-lock.service.ts: "Prevents two BullMQ Worker processes    *)
(* (MCP-server fork-supervised vs. manual) from concurrently consuming the *)
(* same page-analyze Queue".  So with Redis answering every command, no     *)
(* guarded manual worker runs beside a supervised one whose lock the        *)
(* supervisor has acquired and has not released at shutdown.                *)
NoDualRun ==
    \A t \in Types, m \in Manuals, p \in Slots :
        manual[m] = "locked" /\ t \in Consumes[m] /\ lockAcquired[t]
        => ~(proc[p] = "alive" /\ kind[p] = t)
=============================================================================
