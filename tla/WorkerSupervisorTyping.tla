----------------------- MODULE WorkerSupervisorTyping -----------------------
(***************************************************************************)
(* Type correctness of WorkerSupervisor, for every value of the constants. *)
(* A lease runs down by subtraction, so the proof needs that a key exists  *)
(* exactly while its lease runs.                                           *)
(***************************************************************************)
EXTENDS WorkerSupervisor, FiniteSetTheorems, TLAPS

LeaseMatchesOwner == \A t \in Types : owner[t] = NoOwner <=> lease[t] = 0

Locked == LockTypeOK /\ LeaseMatchesOwner

Typed ==
    /\ BootTypeOK /\ SupTypeOK /\ OrchTypeOK /\ ProcTypeOK
    /\ ChainTypeOK /\ Locked /\ ManualTypeOK
    /\ faults \in 0..MaxFaults

-----------------------------------------------------------------------------
(* The commands of ActiveLock keep the lock well typed. *)

LEMMA LockAcquire ==
  ASSUME Locked, NEW t \in Types, NEW n \in Tokens, Redis!Acquire(t, n)
  PROVE  Locked'
  <1>1. LeaseTicks \in Nat /\ LeaseTicks # 0 /\ n # NoOwner
    BY SupervisorAssumption DEF Tokens
  <1> QED
    BY <1>1 DEF Locked, LockTypeOK, LeaseMatchesOwner, Redis!Acquire

LEMMA LockRelease ==
  ASSUME Locked, NEW t \in Types, NEW n \in Tokens, Redis!Release(t, n)
  PROVE  Locked'
  <1>1. LeaseTicks \in Nat
    BY SupervisorAssumption
  <1> QED
    BY <1>1 DEF Locked, LockTypeOK, LeaseMatchesOwner, Redis!Release

LEMMA LockLapse ==
  ASSUME Locked, NEW t \in Types, Redis!Lapse(t)
  PROVE  Locked'
  <1>1. LeaseTicks \in Nat
    BY SupervisorAssumption
  <1> QED
    BY <1>1 DEF Locked, LockTypeOK, LeaseMatchesOwner, Redis!Lapse

LEMMA LockElapse ==
  ASSUME Locked, NEW served, Redis!Elapse(served)
  PROVE  Locked'
  <1>1. LeaseTicks \in Nat /\ LeaseTicks # 0
    BY SupervisorAssumption
  <1>2. owner' \in [Types -> Tokens \cup {NoOwner}]
    BY DEF Locked, LockTypeOK, Redis!Elapse
  <1>3. ASSUME NEW t \in Types
        PROVE  /\ lease'[t] \in 0..LeaseTicks
               /\ owner'[t] = NoOwner <=> lease'[t] = 0
    BY <1>1 DEF Locked, LockTypeOK, LeaseMatchesOwner, Redis!Elapse
  <1>4. lease' \in [Types -> 0..LeaseTicks]
    BY <1>3 DEF Redis!Elapse
  <1> QED
    BY <1>2, <1>3, <1>4 DEF Locked, LockTypeOK, LeaseMatchesOwner

LEMMA LockUnchanged ==
  ASSUME Locked, UNCHANGED lockVars
  PROVE  Locked'
  BY DEF Locked, LockTypeOK, LeaseMatchesOwner, lockVars

(* What an action leaves alone stays well typed. *)
LEMMA Kept ==
  /\ BootTypeOK /\ UNCHANGED bootVars => BootTypeOK'
  /\ SupTypeOK /\ UNCHANGED supVars => SupTypeOK'
  /\ OrchTypeOK /\ UNCHANGED orchVars => OrchTypeOK'
  /\ ProcTypeOK /\ UNCHANGED procVars => ProcTypeOK'
  /\ ChainTypeOK /\ UNCHANGED chainVars => ChainTypeOK'
  /\ Locked /\ UNCHANGED lockVars => Locked'
  /\ ManualTypeOK /\ UNCHANGED manual => ManualTypeOK'
  <1>1. BootTypeOK /\ UNCHANGED bootVars => BootTypeOK'
    BY DEF BootTypeOK, bootVars
  <1>2. SupTypeOK /\ UNCHANGED supVars => SupTypeOK'
    BY DEF SupTypeOK, supVars
  <1>3. OrchTypeOK /\ UNCHANGED orchVars => OrchTypeOK'
    BY DEF OrchTypeOK, orchVars
  <1>4. ProcTypeOK /\ UNCHANGED procVars => ProcTypeOK'
    BY DEF ProcTypeOK, procVars
  <1>5. ChainTypeOK /\ UNCHANGED chainVars => ChainTypeOK'
    BY DEF ChainTypeOK, chainVars
  <1>6. ManualTypeOK /\ UNCHANGED manual => ManualTypeOK'
    BY DEF ManualTypeOK
  <1> QED
    BY <1>1, <1>2, <1>3, <1>4, <1>5, <1>6, LockUnchanged

(* What the constants are known to be. *)
LEMMA Constant ==
  /\ MaxRestarts \in Nat /\ AbortLimit \in Nat \ {0} /\ LeaseTicks \in Nat \ {0, 1}
  /\ MaxBoots \in Nat \ {0} /\ MaxFaults \in Nat
  /\ MaxJobs \in [Types -> Nat \ {0}] /\ Guards \in [Manuals -> Types]
  /\ boot \in 1..MaxBoots => boot \in Tokens
  /\ \A m \in Manuals : m \in Tokens
  BY SupervisorAssumption DEF Tokens

(* The stage after a failed release is a stage. *)
LEMMA StageAfterFailure ==
  ASSUME NEW s \in ReleaseStages
  PROVE  AfterFailedRelease[s] \in ChainStages /\ AfterFailedRelease[s] # "none"
  BY DEF ReleaseStages, AfterFailedRelease, ChainStages

LEMMA SpawnStage == "spawn" \in ChainStages
  BY DEF ChainStages

-----------------------------------------------------------------------------
LEMMA TypedInit == Init => Typed
  <1> SUFFICES ASSUME Init PROVE Typed
    OBVIOUS
  <1>1. (CHOOSE t \in Types : TRUE) \in Types
    BY SupervisorAssumption
  <1>2. BootTypeOK
    BY SupervisorAssumption DEF Init, BootTypeOK
  <1>3. closing \in BOOLEAN /\ service \in BOOLEAN
    BY Zenon DEF Init
  <1>4. SupTypeOK
    BY <1>3, Constant DEF Init, SupTypeOK, EveryType, WorkerStates
  <1>5. OrchTypeOK
    BY <1>3 DEF Init, OrchTypeOK, EveryType, AcquireBudget
  <1>6. ProcTypeOK
    BY <1>1 DEF Init, ProcTypeOK, EverySlot, ProcStates
  <1>7. ChainTypeOK
    BY Constant DEF Init, ChainTypeOK, EverySlot, ChainStages
  <1>8. Locked
    BY Constant DEF Init, Redis!Init, Locked, LockTypeOK, LeaseMatchesOwner
  <1>9. ManualTypeOK /\ faults \in 0..MaxFaults
    BY Constant DEF Init, ManualTypeOK
  <1> QED
    BY <1>2, <1>4, <1>5, <1>6, <1>7, <1>8, <1>9 DEF Typed

LEMMA TypedEnsureWorkerRunning ==
  ASSUME Typed, NEW t \in Types, EnsureWorkerRunning(t)
  PROVE  Typed'
  <1>1. SupTypeOK'
    BY Constant
       DEF Typed, EnsureWorkerRunning, SupTypeOK, Spawn, WorkerStates
  <1>2. service' \in BOOLEAN
    BY Zenon DEF Typed, EnsureWorkerRunning, BeginAcquire, OrchTypeOK
  <1>3. OrchTypeOK'
    BY <1>2
       DEF Typed, EnsureWorkerRunning, OrchTypeOK, BeginAcquire,
               AcquireBudget
  <1>4. ProcTypeOK'
    BY DEF Typed, EnsureWorkerRunning, ProcTypeOK, Spawn, ProcStates
  <1> QED
    BY <1>1, <1>3, <1>4, Kept DEF Typed, EnsureWorkerRunning

LEMMA TypedAcquireGranted ==
  ASSUME Typed, NEW t \in Types, AcquireGranted(t)
  PROVE  Typed'
  <1>1. OrchTypeOK'
    BY DEF Typed, AcquireGranted, OrchTypeOK, AcquireBudget
  <1>2. Locked'
    BY LockAcquire, Constant
       DEF Typed, AcquireGranted, BootTypeOK
  <1> QED
    BY <1>1, <1>2, Kept DEF Typed, AcquireGranted

LEMMA TypedAcquireRefused ==
  ASSUME Typed, NEW t \in Types, AcquireRefused(t)
  PROVE  Typed'
  <1>1. OrchTypeOK'
    BY DEF Typed, AcquireRefused, OrchTypeOK, AcquireBudget
  <1>2. Locked'
    BY LockUnchanged
       DEF Typed, AcquireRefused, Redis!AlreadyHeld, Redis!lockVars,
               lockVars
  <1> QED
    BY <1>1, <1>2, Kept DEF Typed, AcquireRefused

LEMMA TypedAcquireFailed ==
  ASSUME Typed, NEW t \in Types, AcquireFailed(t)
  PROVE  Typed'
  <1>1. OrchTypeOK'
    BY DEF Typed, AcquireFailed, OrchTypeOK, AcquireBudget
  <1>2. Locked'
    BY LockAcquire, LockUnchanged, Constant
       DEF Typed, AcquireFailed, BootTypeOK
  <1>3. faults' \in 0..MaxFaults
    BY Constant
       DEF Typed, AcquireFailed, CommandFails
  <1> QED
    BY <1>1, <1>2, <1>3, Kept DEF Typed, AcquireFailed

LEMMA TypedCompleteJob ==
  ASSUME Typed, NEW p \in Slots, CompleteJob(p)
  PROVE  Typed'
  <1>1. ProcTypeOK'
    BY DEF Typed, CompleteJob, ProcTypeOK
  <1> QED
    BY <1>1, Kept DEF Typed, CompleteJob

LEMMA TypedLeave ==
  ASSUME Typed, NEW p \in Slots, Leave(p)
  PROVE  Typed'
  <1>1. ProcTypeOK'
    BY DEF Typed, Leave, ProcTypeOK, Die, ProcStates
  <1> QED
    BY <1>1, Kept DEF Typed, Leave, Die

LEMMA TypedCrash ==
  ASSUME Typed, NEW p \in Slots, Crash(p)
  PROVE  Typed'
  <1>1. ProcTypeOK'
    BY DEF Typed, Crash, ProcTypeOK, Die, ProcStates
  <1> QED
    BY <1>1, Kept DEF Typed, Crash, Die

LEMMA TypedOrphanEnds ==
  ASSUME Typed, NEW p \in Slots, OrphanEnds(p)
  PROVE  Typed'
  <1>1. ProcTypeOK'
    BY DEF Typed, OrphanEnds, ProcTypeOK, ProcStates
  <1> QED
    BY <1>1, Kept DEF Typed, OrphanEnds

LEMMA TypedDeliverIpc ==
  ASSUME Typed, NEW p \in Slots, DeliverIpc(p)
  PROVE  Typed'
  <1>1. kind[p] \in Types
    BY DEF Typed, ProcTypeOK
  <1>2. completed' \in [Types -> Nat] /\ \A t \in Types : completed'[t] <= MaxJobs[t]
    <2>1. CASE Trusted(p)
      <3>1. /\ MaxJobs[kind[p]] \in Nat
            /\ completed' = [completed EXCEPT ![kind[p]] = Min(@ + 1, MaxJobs[kind[p]])]
        BY <1>1, <2>1, Constant DEF DeliverIpc, NotifyJobCompleted
      <3>2. /\ completed \in [Types -> Nat]
            /\ \A t \in Types : completed[t] <= MaxJobs[t]
        BY DEF Typed, SupTypeOK
      <3> QED
        BY <1>1, <3>1, <3>2 DEF Min
    <2>2. CASE ~Trusted(p)
      BY <2>2 DEF Typed, DeliverIpc, SupTypeOK
    <2> QED
      BY <2>1, <2>2
  <1>3. state' \in [Types -> WorkerStates] /\ pending' \in [Types -> BOOLEAN]
    BY <1>1 DEF Typed, DeliverIpc, SupTypeOK, NotifyJobCompleted, InitiateRestart,
                WorkerStates
  <1>4. SupTypeOK'
    BY <1>2, <1>3 DEF Typed, DeliverIpc, SupTypeOK
  <1>5. ProcTypeOK'
    BY DEF Typed, DeliverIpc, ProcTypeOK, NotifyJobCompleted, InitiateRestart, SupTypeOK
  <1> QED
    BY <1>4, <1>5, Kept DEF Typed, DeliverIpc

LEMMA TypedHandleWorkerExit ==
  ASSUME Typed, NEW p \in Slots, HandleWorkerExit(p)
  PROVE  Typed'
  <1> DEFINE t == kind[p]
  <1>1. t \in Types
    BY DEF Typed, ProcTypeOK
  <1>2. /\ closing' \in BOOLEAN
        /\ child' \in [Types -> Slots \cup {NoChild}]
        /\ bound' \in SUBSET Slots
        /\ awaiting' \in SUBSET Slots
    <2>1. closing' \in BOOLEAN
      BY Zenon DEF Typed, SupTypeOK, HandleWorkerExit
    <2>2. child' \in [Types -> Slots \cup {NoChild}]
      BY <1>1 DEF Typed, SupTypeOK, HandleWorkerExit
    <2>3. bound' \in SUBSET Slots /\ awaiting' \in SUBSET Slots
      BY DEF Typed, SupTypeOK, HandleWorkerExit, ExitWhileClosing, ExitWhileServing
    <2> QED
      BY <2>1, <2>2, <2>3
  <1>3. AbortsAfter(t, p) \in 0..AbortLimit
    BY <1>1, Constant DEF Typed, SupTypeOK, AbortsAfter, Min
  <1>4. service' \in BOOLEAN
    BY Zenon DEF Typed, OrchTypeOK, HandleWorkerExit, ExitWhileClosing, ExitWhileServing,
                 PlannedExit, GiveUp, UnexpectedExit, BeginRespawn
  <1> DEFINE Rest == /\ state' \in [Types -> WorkerStates]
                     /\ completed' \in [Types -> Nat]
                     /\ \A u \in Types : completed'[u] <= MaxJobs[u]
                     /\ restarts' \in [Types -> 0..MaxRestarts]
                     /\ pending' \in [Types -> BOOLEAN]
                     /\ aborts' \in [Types -> 0..AbortLimit]
  <1> DEFINE Good == /\ Rest
                     /\ proc' \in [Slots -> ProcStates]
                     /\ ChainTypeOK'
                     /\ heartbeat' \in [Types -> BOOLEAN]
  <1>5. ASSUME ExitWhileClosing(t, p) PROVE Good
    BY <1>1, <1>5 DEF Typed, SupTypeOK, ProcTypeOK, ChainTypeOK, OrchTypeOK,
       ExitWhileClosing, WorkerStates, ProcStates
  <1>6. ASSUME PlannedExit(t, p) PROVE Good
    <2>1. Rest
      <3>1. /\ state' = [state EXCEPT ![t] = "restarting"]
            /\ completed' = [completed EXCEPT ![t] = 0]
            /\ pending' = [pending EXCEPT ![t] = FALSE]
            /\ restarts' = [restarts EXCEPT ![t] = 0]
            /\ aborts' = aborts
        BY <1>6 DEF PlannedExit, BeginRespawn
      <3>2. MaxJobs[t] \in Nat /\ 0 \in 0..MaxRestarts
        BY <1>1, Constant
      <3>3. completed' \in [Types -> Nat] /\ \A u \in Types : completed'[u] <= MaxJobs[u]
        BY <1>1, <3>1, <3>2 DEF Typed, SupTypeOK
      <3> QED
        BY <1>1, <3>1, <3>2, <3>3 DEF Typed, SupTypeOK, WorkerStates
    <2>2. ChainTypeOK'
      BY <1>6, Constant DEF Typed, ChainTypeOK, PlannedExit, BeginRespawn,
         ChainStages, ReleaseStages, AfterFailedRelease
    <2> QED
      BY <1>6, <2>1, <2>2 DEF Typed, ProcTypeOK, OrchTypeOK, PlannedExit, ProcStates
  <1>7. ASSUME GiveUp(t, p) PROVE Good
    BY <1>1, <1>3, <1>7 DEF Typed, SupTypeOK, ProcTypeOK, ChainTypeOK, OrchTypeOK,
       GiveUp, WorkerStates, ProcStates
  <1>8. ASSUME UnexpectedExit(t, p) PROVE Good
    <2>1. restarts' \in [Types -> 0..MaxRestarts]
      BY <1>1, <1>8, Constant DEF Typed, SupTypeOK, UnexpectedExit, BudgetSpent
    <2>2. ChainTypeOK'
      BY <1>1, <1>8, Constant DEF Typed, ChainTypeOK, UnexpectedExit, ChainStages
    <2>3. Rest
      BY <1>1, <1>3, <1>8, <2>1 DEF Typed, SupTypeOK, UnexpectedExit
    <2> QED
      BY <1>8, <2>2, <2>3 DEF Typed, ProcTypeOK, OrchTypeOK, UnexpectedExit, ProcStates
  <1>9. Good
    <2>1. ExitWhileClosing(t, p) \/ ExitWhileServing(t, p)
      BY DEF HandleWorkerExit
    <2> QED
      BY <1>5, <1>6, <1>7, <1>8, <2>1 DEF ExitWhileServing
  <1>10. OrchTypeOK' /\ ProcTypeOK'
    BY <1>4, <1>9 DEF Typed, OrchTypeOK, ProcTypeOK, HandleWorkerExit
  <1>11. SupTypeOK'
    BY <1>2, <1>9 DEF SupTypeOK
  <1> QED
    BY <1>9, <1>10, <1>11, Kept DEF Typed, HandleWorkerExit

LEMMA TypedRespawnTimer ==
  ASSUME Typed, NEW p \in Slots, RespawnTimer(p)
  PROVE  Typed'
  <1>1. SupTypeOK'
    BY Constant
       DEF Typed, RespawnTimer, SupTypeOK, BeginRespawn, WorkerStates,
               ProcTypeOK
  <1>2. service' \in BOOLEAN
    BY Zenon DEF Typed, RespawnTimer, BeginRespawn, OrchTypeOK
  <1>3. OrchTypeOK'
    BY <1>2
       DEF Typed, RespawnTimer, OrchTypeOK, BeginRespawn
  <1>4. ProcTypeOK'
    BY DEF Typed, RespawnTimer, ProcTypeOK, ProcStates
  <1>5. ChainTypeOK'
    BY Constant
       DEF Typed, RespawnTimer, ChainTypeOK, ChainEnds, BeginRespawn,
               ChainStages, ReleaseStages, AfterFailedRelease
  <1> QED
    BY <1>1, <1>3, <1>4, <1>5, Kept DEF Typed, RespawnTimer

LEMMA TypedReleaseAttempt ==
  ASSUME Typed, NEW p \in Slots, ReleaseAttempt(p)
  PROVE  Typed'
  <1>1. ChainTypeOK'
    BY StageAfterFailure, SpawnStage
       DEF Typed, ReleaseAttempt, ScheduleRespawn, ChainTypeOK, chainVars
  <1>2. Locked'
    BY LockRelease, LockUnchanged, Constant
       DEF Typed, ReleaseAttempt, BootTypeOK, ProcTypeOK,
               Redis!ReleaseRefused, Redis!lockVars, lockVars
  <1>3. faults' \in 0..MaxFaults
    BY Constant
       DEF Typed, ReleaseAttempt, CommandFails
  <1>4. SupTypeOK'
    BY DEF Typed, ReleaseAttempt, ScheduleRespawn, SupTypeOK, ProcTypeOK, WorkerStates
  <1> QED
    BY <1>1, <1>2, <1>3, <1>4, Kept DEF Typed, ReleaseAttempt

LEMMA TypedProbeOwn ==
  ASSUME Typed, NEW p \in Slots, ProbeOwn(p)
  PROVE  Typed'
  <1>1. ChainTypeOK'
    BY Constant
       DEF Typed, ProbeOwn, ScheduleRespawn, ChainTypeOK, ChainStages
  <1>2. faults' \in 0..MaxFaults
    BY Constant
       DEF Typed, ProbeOwn, CommandFails
  <1>3. SupTypeOK'
    BY DEF Typed, ProbeOwn, ScheduleRespawn, SupTypeOK, ProcTypeOK, WorkerStates
  <1> QED
    BY <1>1, <1>2, <1>3, Kept DEF Typed, ProbeOwn

LEMMA TypedProbeForeign ==
  ASSUME Typed, NEW p \in Slots, ProbeForeign(p)
  PROVE  Typed'
  <1>1. SupTypeOK'
    BY DEF Typed, ProbeForeign, SupTypeOK, WorkerStates, ProcTypeOK
  <1>2. OrchTypeOK'
    BY DEF Typed, ProbeForeign, OrchTypeOK, ProcTypeOK
  <1>3. ProcTypeOK'
    BY DEF Typed, ProbeForeign, ProcTypeOK, ProcStates
  <1>4. ChainTypeOK'
    BY Constant
       DEF Typed, ProbeForeign, ChainTypeOK, ChainEnds, ChainStages
  <1> QED
    BY <1>1, <1>2, <1>3, <1>4, Kept DEF Typed, ProbeForeign

LEMMA TypedRespawnNow ==
  ASSUME Typed, NEW p \in Slots, RespawnNow(p)
  PROVE  Typed'
  <1>1. SupTypeOK'
    BY DEF Typed, RespawnNow, SupTypeOK, Spawn, WorkerStates, ProcTypeOK
  <1>2. ProcTypeOK'
    BY DEF Typed, RespawnNow, ProcTypeOK, Spawn, ProcStates
  <1>3. ChainTypeOK'
    BY Constant
       DEF Typed, RespawnNow, ChainTypeOK, ChainEnds, ChainStages
  <1> QED
    BY <1>1, <1>2, <1>3, Kept DEF Typed, RespawnNow

LEMMA TypedShutdown ==
  ASSUME Typed, Shutdown
  PROVE  Typed'
  <1>1. closing' \in BOOLEAN
    BY Zenon DEF Typed, Shutdown, SupTypeOK
  <1>2. SupTypeOK'
    BY <1>1
       DEF Typed, Shutdown, SupTypeOK, Live, WorkerStates
  <1>3. OrchTypeOK'
    BY DEF Typed, Shutdown, OrchTypeOK
  <1>4. ProcTypeOK'
    BY DEF Typed, Shutdown, ProcTypeOK
  <1> QED
    BY <1>2, <1>3, <1>4, Kept DEF Typed, Shutdown

LEMMA TypedShutdownRelease ==
  ASSUME Typed, NEW t \in Types, ShutdownRelease(t)
  PROVE  Typed'
  <1>1. OrchTypeOK'
    BY DEF Typed, ShutdownRelease, OrchTypeOK
  <1>2. Locked'
    BY LockRelease, LockUnchanged, Constant
       DEF Typed, ShutdownRelease, BootTypeOK, Redis!ReleaseRefused,
               Redis!lockVars, lockVars
  <1>3. faults' \in 0..MaxFaults
    BY Constant
       DEF Typed, ShutdownRelease
  <1> QED
    BY <1>1, <1>2, <1>3, Kept DEF Typed, ShutdownRelease

LEMMA TypedShutdownClose ==
  ASSUME Typed, NEW t \in Types, ShutdownClose(t)
  PROVE  Typed'
  <1>1. service' \in BOOLEAN
    BY Zenon DEF Typed, ShutdownClose, OrchTypeOK
  <1>2. OrchTypeOK'
    BY <1>1
       DEF Typed, ShutdownClose, OrchTypeOK
  <1> QED
    BY <1>2, Kept DEF Typed, ShutdownClose

LEMMA TypedServerGone ==
  ASSUME Typed, ServerGone
  PROVE  Typed'
  <1>1. BootTypeOK'
    BY DEF Typed, ServerGone, BootTypeOK
  <1>2. closing' \in BOOLEAN
    BY Zenon DEF Typed, ServerGone, SupTypeOK
  <1>3. SupTypeOK'
    BY <1>2, Constant
       DEF Typed, ServerGone, SupTypeOK, EveryType, WorkerStates
  <1>4. service' \in BOOLEAN
    BY Zenon DEF Typed, ServerGone, OrchTypeOK
  <1>5. OrchTypeOK'
    BY <1>4
       DEF Typed, ServerGone, OrchTypeOK, EveryType, AcquireBudget
  <1>6. ProcTypeOK'
    BY DEF Typed, ServerGone, ProcTypeOK, EverySlot, ProcStates
  <1>7. ChainTypeOK'
    BY Constant
       DEF Typed, ServerGone, ChainTypeOK, EverySlot, ChainStages
  <1> QED
    BY <1>1, <1>3, <1>5, <1>6, <1>7, Kept DEF Typed, ServerGone

LEMMA TypedServerStart ==
  ASSUME Typed, ServerStart
  PROVE  Typed'
  <1>1. BootTypeOK'
    BY Constant
       DEF Typed, ServerStart, BootTypeOK
  <1> QED
    BY <1>1, Kept DEF Typed, ServerStart

LEMMA TypedManualFailOpen ==
  ASSUME Typed, NEW m \in Manuals, ManualFailOpen(m)
  PROVE  Typed'
  <1>1. ManualTypeOK'
    BY DEF Typed, ManualFailOpen, ManualTypeOK
  <1>2. faults' \in 0..MaxFaults
    BY Constant
       DEF Typed, ManualFailOpen
  <1> QED
    BY <1>1, <1>2, Kept DEF Typed, ManualFailOpen

LEMMA TypedManualProbe ==
  ASSUME Typed, NEW m \in Manuals, ManualProbe(m)
  PROVE  Typed'
  <1>1. ManualTypeOK'
    BY DEF Typed, ManualProbe, ManualTypeOK
  <1> QED
    BY <1>1, Kept DEF Typed, ManualProbe

LEMMA TypedManualClaim ==
  ASSUME Typed, NEW m \in Manuals, ManualClaim(m)
  PROVE  Typed'
  <1>1. ManualTypeOK'
    BY DEF Typed, ManualClaim, ManualTypeOK
  <1>2. Locked'
    BY LockAcquire, LockUnchanged, Constant
       DEF Typed, ManualClaim, Redis!AlreadyHeld, Redis!lockVars, lockVars
  <1> QED
    BY <1>1, <1>2, Kept DEF Typed, ManualClaim

LEMMA TypedManualStop ==
  ASSUME Typed, NEW m \in Manuals, ManualStop(m)
  PROVE  Typed'
  <1>1. ManualTypeOK'
    BY DEF Typed, ManualStop, ManualTypeOK
  <1>2. Locked'
    BY LockRelease, LockUnchanged, Constant
       DEF Typed, ManualStop
  <1> QED
    BY <1>1, <1>2, Kept DEF Typed, ManualStop

LEMMA TypedLeaseLapses ==
  ASSUME Typed, NEW t \in Types, LeaseLapses(t)
  PROVE  Typed'
  <1>1. Locked'
    BY LockLapse
       DEF Typed, LeaseLapses
  <1> QED
    BY <1>1, Kept DEF Typed, LeaseLapses

(* One interval passes: the heartbeats that fail are at most the faults     *)
(* left, because there are finitely many holders.                           *)
LEMMA BeatingFinite == IsFiniteSet(Beating)
  <1>1. IsFiniteSet(Types) /\ IsFiniteSet(Manuals)
    BY SupervisorAssumption
  <1>2. IsFiniteSet(Types \X {boot}) /\ IsFiniteSet(Types \X Manuals)
    BY <1>1, FS_Singleton, FS_Product
  <1>3. IsFiniteSet((Types \X {boot}) \cup (Types \X Manuals))
    BY <1>2, FS_Union
  <1>4. Beating \in SUBSET ((Types \X {boot}) \cup (Types \X Manuals))
    BY Constant DEF Beating
  <1> QED
    BY <1>3, <1>4, FS_Subset

LEMMA TypedTick ==
  ASSUME Typed, Tick
  PROVE  Typed'
  <1>1. PICK lost \in SUBSET {b \in Beating : owner[b[1]] = b[2]} :
          /\ Cardinality(lost) <= faults
          /\ faults' = faults - Cardinality(lost)
          /\ Redis!Elapse(Beating \ lost)
    BY DEF Tick
  <1>2. Cardinality(lost) \in Nat
    BY BeatingFinite, FS_Subset, FS_CardinalityType
  <1>3. faults' \in 0..MaxFaults
    BY <1>1, <1>2, Constant DEF Typed
  <1>4. Locked'
    BY <1>1, LockElapse DEF Typed
  <1>5. ChainTypeOK'
    BY Constant DEF Typed, Tick, ChainTypeOK
  <1> QED
    BY <1>3, <1>4, <1>5, Kept DEF Typed, Tick

LEMMA TypedNext ==
  ASSUME Typed, [Next]_vars
  PROVE  Typed'
  <1>1. CASE Next
    BY <1>1, TypedEnsureWorkerRunning, TypedAcquireGranted, TypedAcquireRefused,
       TypedAcquireFailed, TypedCompleteJob, TypedLeave, TypedCrash, TypedOrphanEnds,
       TypedDeliverIpc, TypedHandleWorkerExit, TypedRespawnTimer, TypedReleaseAttempt,
       TypedProbeOwn, TypedProbeForeign, TypedRespawnNow, TypedShutdown,
       TypedShutdownRelease, TypedShutdownClose, TypedServerGone, TypedServerStart,
       TypedManualFailOpen, TypedManualProbe, TypedManualClaim, TypedManualStop,
       TypedLeaseLapses, TypedTick
       DEF Next, TypeAction, ProcAction, ManualAction, ServerExit, ServerCrash
  <1>2. CASE UNCHANGED vars
    BY <1>2, Kept DEF Typed, vars
  <1> QED
    BY <1>1, <1>2

(* Every reachable state is well typed, and a lock key exists exactly while *)
(* its lease runs.                                                          *)
THEOREM TypingCorrect == Spec => []Typed
  <1> QED
    BY TypedInit, TypedNext, PTL DEF Spec

(* The history of calls is a set of types.  Only a call and the end of the  *)
(* server touch it.                                                         *)
LEMMA CallTypeNext ==
  ASSUME CallTypeOK, [Next]_vars
  PROVE  CallTypeOK'
  <1>1. CASE UNCHANGED callVars
    BY <1>1 DEF CallTypeOK, callVars
  <1>2. ASSUME NEW t \in Types, EnsureWorkerRunning(t) PROVE CallTypeOK'
    BY <1>2 DEF EnsureWorkerRunning, CallTypeOK
  <1>3. CASE ServerGone
    BY <1>3 DEF ServerGone, CallTypeOK
  <1>4. CASE \E t \in Types : TypeAction(t)
    BY <1>1, <1>2, <1>4 DEF TypeAction, AcquireGranted, AcquireRefused, AcquireFailed,
       ShutdownRelease, ShutdownClose, LeaseLapses
  <1>5. CASE \E p \in Slots : ProcAction(p)
    BY <1>1, <1>5 DEF ProcAction, CompleteJob, Leave, Crash, Die, OrphanEnds, DeliverIpc,
       HandleWorkerExit, RespawnTimer, ReleaseAttempt, ProbeOwn, ProbeForeign, RespawnNow
  <1>6. CASE \/ \E m \in Manuals : ManualAction(m)
             \/ Shutdown \/ ServerStart \/ Tick \/ UNCHANGED vars
    BY <1>1, <1>6 DEF ManualAction, ManualFailOpen, ManualProbe, ManualClaim, ManualStop,
       Shutdown, ServerStart, Tick, vars
  <1> QED
    BY <1>3, <1>4, <1>5, <1>6 DEF Next, ServerExit, ServerCrash

(* Every reachable state of the supervisor, its children, its timers and    *)
(* the Redis keys is well typed; in particular the restart budget and the   *)
(* retry counters stay within their limits.                                 *)
THEOREM TypeCorrect == Spec => []TypeOK
  <1>1. Init => CallTypeOK
    BY DEF Init, CallTypeOK
  <1>2. CallTypeOK /\ [Next]_vars => CallTypeOK'
    BY CallTypeNext
  <1>3. Typed /\ CallTypeOK => TypeOK
    BY DEF Typed, TypeOK, Locked
  <1> QED
    BY <1>1, <1>2, <1>3, TypingCorrect, PTL DEF Spec
=============================================================================
