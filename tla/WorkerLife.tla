------------------------------ MODULE WorkerLife ------------------------------
(***************************************************************************)
(* The life of one worker type, as those see it who may call the supervisor*)
(* at any moment: its state, whether the children map has it, the processes*)
(* and the respawn that follows each.  What decides between the outcomes of*)
(* an exit and of a respawn (pendingRestart, the restart budget, the lock) *)
(* and all delays are left to chance.  There may be several processes: a   *)
(* call between an unexpected exit and its timer starts a second one.      *)
(***************************************************************************)

CONSTANT Slots         \* identities of processes, reused

VARIABLES
    closing,           \* isShuttingDown
    state, child,      \* perTypeState.state; children has the type
    proc               \* processes, and the respawn that follows one

workerVars == <<closing, state, child, proc>>

WorkerStates == {"idle", "running", "restarting", "stopped", "crashed"}

(* "timer" and "respawn": dead, before and after its respawn is under way. *)
ProcStates == {"free", "alive", "timer", "respawn"}

TypeOK ==
    /\ closing \in BOOLEAN /\ child \in BOOLEAN
    /\ state \in WorkerStates
    /\ proc \in [Slots -> ProcStates]

Init ==
    /\ closing = FALSE /\ state = "idle" /\ child = FALSE
    /\ proc = [p \in Slots |-> "free"]

(* spawnWorker: the new process may take a slot that is given back. *)
Fork(back) ==
    /\ \E q \in Slots :
         /\ proc[q] = "free" \/ q \in back
         /\ proc' = [p \in Slots |-> IF p = q THEN "alive"
                                    ELSE IF p \in back THEN "free" ELSE proc[p]]
    /\ state' = "running"
    /\ child' = TRUE
    /\ UNCHANGED closing

MayStart == ~(state = "running" /\ child) /\ state \notin {"stopped", "restarting"}

(* ensureWorkerRunningForType. *)
Ensure == IF MayStart THEN Fork({}) ELSE UNCHANGED workerVars

(* initiateRestart, when a job is done. *)
InitiateRestart ==
    /\ child
    /\ state' = "restarting"
    /\ UNCHANGED <<closing, child, proc>>

(* handleWorkerExit: a planned or an unexpected exit, the last one of the   *)
(* restart budget, or one during shutdown.                                  *)
WorkerExits(p) ==
    /\ proc[p] = "alive"
    /\ child' = FALSE
    /\ IF closing
       THEN state' = "stopped" /\ proc' = [proc EXCEPT ![p] = "free"]
       ELSE \/ state' = "restarting" /\ proc' = [proc EXCEPT ![p] = "respawn"]
            \/ UNCHANGED state /\ proc' = [proc EXCEPT ![p] = "timer"]
            \/ state' = "crashed" /\ proc' = [proc EXCEPT ![p] = "free"]
    /\ UNCHANGED closing

(* scheduleSigabrtAwareRespawn. *)
RespawnTimer(p) ==
    /\ proc[p] = "timer"
    /\ IF closing
       THEN proc' = [proc EXCEPT ![p] = "free"] /\ UNCHANGED state
       ELSE proc' = [proc EXCEPT ![p] = "respawn"] /\ state' = "restarting"
    /\ UNCHANGED <<closing, child>>

(* The outcome of executeSelfChainedRespawn: the state is written although  *)
(* a shutdown may have begun.                                               *)
RespawnDecided(p) ==
    /\ proc[p] = "respawn"
    /\ \/ state' = "restarting" /\ UNCHANGED proc
       \/ state' = "crashed" /\ proc' = [proc EXCEPT ![p] = "free"]  \* foreign lock
    /\ UNCHANGED <<closing, child>>

(* The timer of scheduleRespawn. *)
Respawn(p) ==
    /\ proc[p] = "respawn"
    /\ IF closing
       THEN /\ state' = "stopped"
            /\ proc' = [proc EXCEPT ![p] = "free"]
            /\ UNCHANGED <<closing, child>>
       ELSE Fork({p})

(* shutdown and shutdownChild up to their first await. *)
Shutdown ==
    /\ closing' = TRUE
    /\ state' = IF child THEN state ELSE "stopped"
    /\ UNCHANGED <<child, proc>>

(* The server process ends, and another starts with nothing. *)
ServerGone ==
    /\ closing' = FALSE /\ state' = "idle" /\ child' = FALSE
    /\ proc' = [p \in Slots |-> "free"]

(* What happens although nobody calls. *)
Step ==
    \/ InitiateRestart
    \/ \E p \in Slots :
         WorkerExits(p) \/ RespawnTimer(p) \/ RespawnDecided(p) \/ Respawn(p)

Next == Ensure \/ Step \/ Shutdown \/ ServerGone

Spec == Init /\ [][Next]_workerVars
=============================================================================
