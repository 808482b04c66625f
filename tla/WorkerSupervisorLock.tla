------------------------ MODULE WorkerSupervisorLock ------------------------
(***************************************************************************)
(* What the active-worker lock guarantees its holders, for every value of  *)
(* the constants, and for every moment at which tool calls arrive.         *)
(***************************************************************************)
EXTENDS WorkerSupervisorTyping

(* Actions that send no command to Redis. *)
LEMMA LockUntouched ==
  ASSUME \/ \E t \in Types : EnsureWorkerRunning(t) \/ AcquireRefused(t) \/ ShutdownClose(t)
         \/ \E p \in Slots :
              \/ CompleteJob(p) \/ Leave(p) \/ Crash(p) \/ OrphanEnds(p)
              \/ DeliverIpc(p) \/ HandleWorkerExit(p)
              \/ RespawnTimer(p) \/ ProbeOwn(p) \/ ProbeForeign(p) \/ RespawnNow(p)
         \/ \E m \in Manuals : ManualFailOpen(m) \/ ManualProbe(m)
         \/ Shutdown \/ ServerExit \/ ServerCrash \/ ServerStart
         \/ UNCHANGED vars
  PROVE  UNCHANGED lockVars
  BY DEF EnsureWorkerRunning, AcquireRefused, Redis!AlreadyHeld, Redis!lockVars, ShutdownClose,
     CompleteJob, Leave, Crash, Die, OrphanEnds, DeliverIpc, HandleWorkerExit, RespawnTimer,
     ProbeOwn, ProbeForeign, RespawnNow, ManualFailOpen, ManualProbe, Shutdown, ServerExit,
     ServerCrash, ServerGone, ServerStart, vars, lockVars

(* What a step does to the keys, and in whose name. *)
LEMMA LockStep ==
  ASSUME Typed, [Next]_vars
  PROVE  \/ UNCHANGED lockVars
         \/ \E t \in Types : AcquireGranted(t)
         \/ \E t \in Types : AcquireFailed(t) /\ Redis!Acquire(t, boot)
         \/ \E t \in Types : ShutdownRelease(t) /\ Redis!Release(t, boot)
         \/ \E p \in Slots : ReleaseAttempt(p) /\ Redis!Release(kind[p], boot)
         \/ \E t \in Types : LeaseLapses(t)
         \/ \E m \in Manuals : ManualClaim(m) /\ Redis!Acquire(Guards[m], m)
         \/ \E m \in Manuals : ManualStop(m) /\ manual[m] = "locked" /\ Redis!Release(Guards[m], m)
         \/ Tick
  BY LockUntouched
     DEF Next, TypeAction, ProcAction, ManualAction, AcquireFailed, ShutdownRelease,
         ReleaseAttempt, Redis!ReleaseRefused, Redis!lockVars, ManualClaim,
         Redis!AlreadyHeld, ManualStop, lockVars

-----------------------------------------------------------------------------
LEMMA ExpiryStep ==
  ASSUME Typed, [Next]_vars, NEW t \in Types,
         owner[t] \notin {NoOwner, boot}, owner'[t] # owner[t]
  PROVE  \/ lease[t] = 1
         \/ \E m \in Manuals : owner[t] = m /\ manual[m] = "locked" /\ manual'[m] = "off"
  <1>1. owner \in [Types -> Tokens \cup {NoOwner}] /\ lease \in [Types -> 0..LeaseTicks]
        /\ LeaseTicks \in Nat /\ lease[t] # 0
    BY Constant DEF Typed, Locked, LockTypeOK, LeaseMatchesOwner
  <1>2. CASE UNCHANGED lockVars
    BY <1>2 DEF lockVars
  <1>3. ASSUME NEW u \in Types, NEW n \in Tokens, Redis!Acquire(u, n) PROVE FALSE
    BY <1>1, <1>3 DEF Redis!Acquire
  <1>4. ASSUME NEW u \in Types, Redis!Release(u, boot) PROVE FALSE
    BY <1>1, <1>4 DEF Redis!Release
  <1>5. ASSUME NEW u \in Types, LeaseLapses(u) PROVE lease[t] = 1
    BY <1>1, <1>5 DEF LeaseLapses, Redis!Lapse
  <1>6. ASSUME NEW m \in Manuals, ManualStop(m), manual[m] = "locked",
               Redis!Release(Guards[m], m)
        PROVE  owner[t] = m /\ manual'[m] = "off"
    BY <1>1, <1>6, Constant DEF ManualStop, Redis!Release, Typed, ManualTypeOK
  <1>7. ASSUME Tick PROVE lease[t] = 1
    <2>1. PICK served : Redis!Elapse(served)
      BY <1>7 DEF Tick
    <2> QED
      BY <1>1, <2>1 DEF Redis!Elapse
  <1>8. boot \in Tokens /\ \A p \in Slots : kind[p] \in Types
    BY Constant DEF Typed, BootTypeOK, ProcTypeOK
  <1> QED
    BY <1>2, <1>3, <1>4, <1>5, <1>6, <1>7, <1>8, LockStep, Constant
       DEF AcquireGranted

(* The lock of a manual worker, or of an earlier server process, is taken   *)
(* from it by nobody: it is released by that worker or runs out.            *)
THEOREM LockTakenCorrect == Spec => LockTakenOnlyOnExpiry
  <1>1. Typed /\ [Next]_vars =>
          [\A t \in Types :
              /\ owner[t] \notin {NoOwner, boot}
              /\ owner'[t] # owner[t]
              => \/ lease[t] = 1
                 \/ \E m \in Manuals :
                      owner[t] = m /\ manual[m] = "locked" /\ manual'[m] = "off"]_vars
    BY ExpiryStep
  <1> QED
    BY <1>1, TypingCorrect, PTL DEF Spec, LockTakenOnlyOnExpiry

-----------------------------------------------------------------------------
(* How the orchestrator's own records hang together: an attempt is only in   *)
(* flight while the lock is not believed held; shutdown's release only while *)
(* it is, and with the heartbeat already stopped.  What the supervisor       *)
(* believes is not what Redis holds: the release of a respawn deletes the    *)
(* key and leaves lockAcquired and the heartbeat as they are.                *)
Backed ==
    \A t \in Types :
        /\ acquire[t] # 0 => ~lockAcquired[t]
        /\ release[t] = "release" => lockAcquired[t] /\ ~heartbeat[t]
        /\ heartbeat[t] => lockAcquired[t]

LEMMA BackedNext ==
  ASSUME Typed, Backed, [Next]_vars
  PROVE  Backed'
  <1>1. CASE UNCHANGED <<lockAcquired, heartbeat, acquire, release>>
    BY <1>1 DEF Backed
  <1>2. ASSUME NEW t \in Types, EnsureWorkerRunning(t) PROVE Backed'
    BY <1>2 DEF EnsureWorkerRunning, BeginAcquire, Backed, Typed, OrchTypeOK
  <1>3. ASSUME NEW t \in Types, AcquireGranted(t) PROVE Backed'
    BY <1>3 DEF AcquireGranted, Backed, Typed, OrchTypeOK
  <1>4. ASSUME NEW t \in Types, AcquireRefused(t) \/ AcquireFailed(t) PROVE Backed'
    BY <1>4 DEF AcquireRefused, AcquireFailed, Backed, Typed, OrchTypeOK
  <1>5. ASSUME NEW t \in Types, ShutdownRelease(t) \/ ShutdownClose(t) PROVE Backed'
    BY <1>5 DEF ShutdownRelease, ShutdownClose, Backed, Typed, OrchTypeOK
  <1>6. ASSUME NEW p \in Slots, HandleWorkerExit(p) \/ ProbeForeign(p) PROVE Backed'
    <2>1. /\ UNCHANGED <<lockAcquired, acquire, release>>
          /\ \/ UNCHANGED heartbeat
             \/ heartbeat' = [heartbeat EXCEPT ![kind[p]] = FALSE]
      BY <1>6 DEF HandleWorkerExit, ExitWhileClosing, ExitWhileServing, PlannedExit, GiveUp,
         UnexpectedExit, ProbeForeign
    <2> QED
      BY <2>1 DEF Backed, Typed, OrchTypeOK
  <1>7. ASSUME Shutdown PROVE Backed'
    BY <1>7 DEF Shutdown, ReleaseStarts, Backed, Typed, OrchTypeOK
  <1>8. ASSUME ServerGone PROVE Backed'
    BY <1>8 DEF ServerGone, EveryType, Backed
  <1>9. CASE \E t \in Types : TypeAction(t)
    BY <1>1, <1>2, <1>3, <1>4, <1>5, <1>9 DEF TypeAction, LeaseLapses, orchVars
  <1>10. CASE \E p \in Slots : ProcAction(p)
    BY <1>1, <1>6, <1>10 DEF ProcAction, CompleteJob, Leave, Crash, Die, OrphanEnds,
       DeliverIpc, RespawnTimer, ReleaseAttempt, ProbeOwn, RespawnNow, orchVars
  <1>11. CASE (\E m \in Manuals : ManualAction(m)) \/ ServerStart \/ Tick \/ UNCHANGED vars
    BY <1>1, <1>11 DEF ManualAction, ManualFailOpen, ManualProbe, ManualClaim, ManualStop,
       ServerStart, Tick, vars, orchVars
  <1> QED
    BY <1>7, <1>8, <1>9, <1>10, <1>11 DEF Next, ServerExit, ServerCrash

-----------------------------------------------------------------------------
(* From here on no Redis command has failed yet. *)

(* A key holds the nonce of a server process that has started, of a manual  *)
(* worker, or none.                                                         *)
OwnerStarted == \A t \in Types : owner[t] \in (1..boot) \cup Manuals \cup {NoOwner}

OwnerRemembered == \A t \in Types : server = "up" /\ owner[t] = boot => lockAcquired[t]

Known == OwnerStarted /\ OwnerRemembered

LEMMA BeatsLost ==
  ASSUME Typed, NEW lost \in SUBSET Beating
  PROVE  /\ IsFiniteSet(lost) /\ Cardinality(lost) \in Nat
         /\ Cardinality(lost) = 0 => lost = {}
  BY BeatingFinite, FS_Subset, FS_CardinalityType, FS_EmptySet

(* Failures are only used up. *)
LEMMA FaultsFall ==
  ASSUME Typed, [Next]_vars, faults' = MaxFaults
  PROVE  faults = MaxFaults
  <1>1. faults \in 0..MaxFaults /\ MaxFaults \in Nat
    BY SupervisorAssumption DEF Typed
  <1>2. CASE Tick
    <2>1. PICK lost \in SUBSET {b \in Beating : owner[b[1]] = b[2]} :
            faults' = faults - Cardinality(lost)
      BY <1>2 DEF Tick
    <2>2. Cardinality(lost) \in Nat
      BY <2>1, BeatsLost
    <2> QED
      BY <1>1, <2>1, <2>2
  <1>3. CASE ~Tick
    <2>1. UNCHANGED faults \/ faults' = faults - 1
      <3>1. CASE \E t \in Types : TypeAction(t)
        BY <3>1 DEF TypeAction, EnsureWorkerRunning, AcquireGranted, AcquireRefused,
           AcquireFailed, CommandFails, ShutdownRelease, ShutdownClose, LeaseLapses
      <3>2. CASE \E p \in Slots : ProcAction(p)
        <4>1. PICK p \in Slots : ProcAction(p)
          BY <3>2
        <4>2. CASE ReleaseAttempt(p)
          BY <4>2 DEF ReleaseAttempt, CommandFails
        <4>3. CASE ProbeOwn(p) \/ ProbeForeign(p)
          BY <4>3 DEF ProbeOwn, ProbeForeign, CommandFails
        <4> QED
          BY <4>1, <4>2, <4>3 DEF ProcAction, CompleteJob, Leave, Crash, Die, OrphanEnds,
             DeliverIpc, HandleWorkerExit, RespawnTimer, RespawnNow
      <3>3. CASE \E m \in Manuals : ManualAction(m)
        BY <3>3 DEF ManualAction, ManualFailOpen, ManualProbe, ManualClaim, ManualStop
      <3>4. CASE Shutdown \/ ServerExit \/ ServerCrash \/ ServerStart \/ UNCHANGED vars
        BY <3>4 DEF Shutdown, ServerExit, ServerCrash, ServerGone, ServerStart, vars
      <3> QED
        BY <1>3, <3>1, <3>2, <3>3, <3>4 DEF Next
    <2> QED
      BY <1>1, <2>1
  <1> QED
    BY <1>2, <1>3

(* boot is a nonce of its own: neither absent, nor a manual worker's. *)
LEMMA BootNonce ==
  ASSUME Typed
  PROVE  boot \in 1..MaxBoots /\ MaxBoots \in Nat /\ boot \notin Manuals /\ boot # NoOwner
         /\ NoOwner \notin Manuals
  BY SupervisorAssumption DEF Typed, BootTypeOK

LEMMA KnownNext ==
  ASSUME Typed, Backed, Known, [Next]_vars, faults' = MaxFaults
  PROVE  Known'
  <1>1. /\ owner \in [Types -> Tokens \cup {NoOwner}]
        /\ faults = MaxFaults /\ faults' = MaxFaults /\ MaxFaults \in Nat
        /\ lockAcquired \in [Types -> BOOLEAN]
        /\ \A p \in Slots : kind[p] \in Types
    BY FaultsFall, SupervisorAssumption DEF Typed, Locked, LockTypeOK, OrchTypeOK, ProcTypeOK
  <1>2. ASSUME NEW t \in Types, AcquireGranted(t) PROVE Known'
    BY <1>1, <1>2, BootNonce DEF AcquireGranted, Redis!Acquire, Known, OwnerStarted,
       OwnerRemembered, bootVars
  <1>3. ASSUME NEW t \in Types, AcquireFailed(t) PROVE UNCHANGED lockVars
    BY <1>1, <1>3 DEF AcquireFailed, CommandFails
  <1>4. ASSUME NEW t \in Types, ShutdownRelease(t) PROVE Known'
    <2>1. \/ Redis!Release(t, boot)
          \/ owner[t] # boot /\ owner' = owner
      BY <1>1, <1>4 DEF ShutdownRelease, Redis!ReleaseRefused, Redis!lockVars
    <2> QED
      BY <1>1, <1>4, <2>1, BootNonce DEF ShutdownRelease, Redis!Release, Known, OwnerStarted,
         OwnerRemembered, bootVars
  <1>5. ASSUME NEW p \in Slots, ReleaseAttempt(p), Redis!Release(kind[p], boot) PROVE Known'
    BY <1>1, <1>5, BootNonce DEF ReleaseAttempt, Redis!Release, Known, OwnerStarted,
       OwnerRemembered, bootVars, orchVars
  <1>6. ASSUME NEW t \in Types, LeaseLapses(t) PROVE Known'
    BY <1>1, <1>6, BootNonce DEF LeaseLapses, Redis!Lapse, Known, OwnerStarted, OwnerRemembered,
       bootVars, orchVars
  <1>7. ASSUME NEW m \in Manuals, ManualClaim(m), Redis!Acquire(Guards[m], m) PROVE Known'
    BY <1>1, <1>7, BootNonce, Constant DEF ManualClaim, Redis!Acquire, Known, OwnerStarted,
       OwnerRemembered, bootVars, orchVars
  <1>8. ASSUME NEW m \in Manuals, ManualStop(m), Redis!Release(Guards[m], m) PROVE Known'
    BY <1>1, <1>8, BootNonce, Constant DEF ManualStop, Redis!Release, Known, OwnerStarted,
       OwnerRemembered, bootVars, orchVars
  <1>9. ASSUME Tick PROVE Known'
    <2>1. PICK served : Redis!Elapse(served)
      BY <1>9 DEF Tick
    <2>2. \A t \in Types : owner'[t] = NoOwner \/ owner'[t] = owner[t]
      BY <2>1 DEF Redis!Elapse
    <2> QED
      BY <1>1, <1>9, <2>2, BootNonce DEF Tick, Known, OwnerStarted, OwnerRemembered, bootVars,
         orchVars
  <1>10. ASSUME ServerStart PROVE Known'
    <2>1. boot' = boot + 1 /\ boot' \in 1..MaxBoots /\ boot' \notin Manuals /\ boot' # NoOwner
      BY <1>10, BootNonce, SupervisorAssumption DEF ServerStart
    <2>2. \A t \in Types : owner'[t] = owner[t]
      BY <1>10 DEF ServerStart, lockVars
    <2> QED
      BY <2>1, <2>2, BootNonce DEF Known, OwnerStarted, OwnerRemembered
  <1>11. ASSUME UNCHANGED lockVars, ServerExit \/ ServerCrash PROVE Known'
    BY <1>11 DEF ServerExit, ServerCrash, ServerGone, Known, OwnerStarted, OwnerRemembered, lockVars
  <1>12. ASSUME UNCHANGED <<lockVars, bootVars, lockAcquired>> PROVE Known'
    BY <1>12 DEF Known, OwnerStarted, OwnerRemembered, lockVars, bootVars
  <1>13. \/ UNCHANGED <<bootVars, lockAcquired>>
         \/ \E t \in Types : AcquireGranted(t) \/ ShutdownRelease(t)
         \/ ServerStart \/ ServerExit \/ ServerCrash
    BY DEF Next, TypeAction, ProcAction, ManualAction, EnsureWorkerRunning, BeginAcquire,
       AcquireRefused, AcquireFailed, ShutdownClose, LeaseLapses, CompleteJob, Leave, Crash,
       Die, OrphanEnds, DeliverIpc, HandleWorkerExit, RespawnTimer, ReleaseAttempt, ProbeOwn,
       ProbeForeign, RespawnNow, ManualFailOpen, ManualProbe, ManualClaim, ManualStop,
       Shutdown, Tick, vars, orchVars
  <1>14. CASE UNCHANGED lockVars
    BY <1>2, <1>4, <1>10, <1>11, <1>12, <1>13, <1>14
  <1> QED
    BY <1>2, <1>3, <1>4, <1>5, <1>6, <1>7, <1>8, <1>9, <1>14, LockStep

(* Until a Redis command fails, the supervisor never forgets a lock that *)
(* holds its nonce.                                                      *)
THEOREM OwnLockCorrect == Spec => []OwnLockKnown
  <1> DEFINE Inv == faults = MaxFaults => Known
  <1>1. Init => Backed /\ Inv
    BY SupervisorAssumption DEF Init, EveryType, Redis!Init, Backed, Known, OwnerStarted,
       OwnerRemembered
  <1>2. Typed /\ Backed /\ Inv /\ [Next]_vars => Backed' /\ Inv'
    BY BackedNext, KnownNext, FaultsFall
  <1>3. Inv => OwnLockKnown
    BY DEF Known, OwnerRemembered, OwnLockKnown
  <1> QED
    BY <1>1, <1>2, <1>3, TypingCorrect, PTL DEF Spec

-----------------------------------------------------------------------------
(* A guarded manual worker renews its lease in every interval. *)
Renewed ==
    \A m \in Manuals :
        manual[m] = "locked" => owner[Guards[m]] = m /\ lease[Guards[m]] = LeaseTicks

LEMMA RenewedNext ==
  ASSUME Typed, Renewed, [Next]_vars, faults' = MaxFaults
  PROVE  Renewed'
  <1>1. /\ owner \in [Types -> Tokens \cup {NoOwner}] /\ lease \in [Types -> 0..LeaseTicks]
        /\ LeaseTicks \in Nat \ {0, 1} /\ Guards \in [Manuals -> Types]
        /\ \A p \in Slots : kind[p] \in Types
        /\ boot \in Tokens /\ \A m \in Manuals : m \in Tokens
        /\ manual \in [Manuals -> {"off", "probed", "locked", "open"}]
    BY Constant DEF Typed, Locked, LockTypeOK, ProcTypeOK, BootTypeOK, ManualTypeOK
  <1>2. ASSUME NEW t \in Types, Redis!Acquire(t, boot), UNCHANGED manual PROVE Renewed'
    BY <1>1, <1>2, BootNonce DEF Redis!Acquire, Renewed
  <1>3. ASSUME NEW t \in Types, Redis!Release(t, boot), UNCHANGED manual PROVE Renewed'
    BY <1>1, <1>3, BootNonce DEF Redis!Release, Renewed
  <1>4. ASSUME NEW t \in Types, LeaseLapses(t) PROVE Renewed'
    BY <1>1, <1>4 DEF LeaseLapses, Redis!Lapse, Renewed
  <1>5. ASSUME NEW m \in Manuals, ManualClaim(m), Redis!Acquire(Guards[m], m) PROVE Renewed'
    BY <1>1, <1>5, BootNonce DEF ManualClaim, Redis!Acquire, Redis!AlreadyHeld, Redis!lockVars,
       Renewed
  <1>6. ASSUME NEW m \in Manuals, ManualStop(m), Redis!Release(Guards[m], m) PROVE Renewed'
    BY <1>1, <1>6 DEF ManualStop, Redis!Release, Renewed
  <1>7. ASSUME Tick PROVE Renewed'
    <2>1. PICK lost \in SUBSET {b \in Beating : owner[b[1]] = b[2]} :
            faults' = faults - Cardinality(lost) /\ Redis!Elapse(Beating \ lost)
      BY <1>7 DEF Tick
    <2>2. faults = MaxFaults /\ MaxFaults \in Nat
      BY FaultsFall, SupervisorAssumption
    <2>3. lost = {}
      <3>1. Cardinality(lost) \in Nat /\ (Cardinality(lost) = 0 => lost = {})
        BY <2>1, BeatsLost
      <3> QED
        BY <2>1, <2>2, <3>1
    <2>4. ASSUME NEW m \in Manuals, manual'[m] = "locked"
          PROVE  owner'[Guards[m]] = m /\ lease'[Guards[m]] = LeaseTicks
      <3>1. /\ manual[m] = "locked" /\ Guards[m] \in Types
            /\ owner[Guards[m]] = m /\ owner[Guards[m]] # NoOwner
        BY <1>1, <1>7, <2>4, BootNonce DEF Tick, Renewed
      <3>2. Redis!Extended(Guards[m], Beating)
        BY <3>1 DEF Redis!Extended, Beating
      <3> QED
        BY <2>1, <2>3, <3>1, <3>2 DEF Redis!Elapse
    <2> QED
      BY <2>4 DEF Renewed
  <1>8. ASSUME UNCHANGED lockVars, UNCHANGED manual PROVE Renewed'
    BY <1>8 DEF Renewed, lockVars
  <1>9. ASSUME NEW m \in Manuals,
               ManualFailOpen(m) \/ ManualProbe(m) \/ ManualClaim(m) \/ ManualStop(m),
               UNCHANGED lockVars
        PROVE  Renewed'
    <2>1. manual' \in {[manual EXCEPT ![m] = s] : s \in {"off", "probed", "open"}}
      BY <1>1, <1>9, BootNonce DEF ManualFailOpen, ManualProbe, ManualClaim, ManualStop,
         Redis!Acquire, Redis!AlreadyHeld, lockVars
    <2> QED
      BY <1>1, <1>9, <2>1 DEF Renewed, lockVars
  <1>10. \/ UNCHANGED manual
         \/ \E m \in Manuals :
              ManualFailOpen(m) \/ ManualProbe(m) \/ ManualClaim(m) \/ ManualStop(m)
    BY DEF Next, TypeAction, ProcAction, ManualAction, EnsureWorkerRunning, AcquireGranted,
       AcquireRefused, AcquireFailed, ShutdownRelease, ShutdownClose, LeaseLapses, CompleteJob,
       Leave, Crash, Die, OrphanEnds, DeliverIpc, HandleWorkerExit, RespawnTimer,
       ReleaseAttempt, ProbeOwn, ProbeForeign, RespawnNow, Shutdown, ServerExit, ServerCrash,
       ServerGone, ServerStart, Tick, vars
  <1>11. CASE UNCHANGED lockVars
    BY <1>8, <1>9, <1>10, <1>11
  <1> QED
    BY <1>1, <1>2, <1>3, <1>4, <1>5, <1>6, <1>7, <1>11, LockStep
       DEF AcquireGranted, AcquireFailed, ShutdownRelease, ReleaseAttempt

(* Until a Redis command fails, a guarded manual worker owns its lock for *)
(* as long as it runs.                                                    *)
THEOREM ManualLockCorrect == Spec => []ManualKeepsLock
  <1> DEFINE Inv == faults = MaxFaults => Renewed
  <1>1. Init => Inv
    BY DEF Init, Renewed
  <1>2. Typed /\ Inv /\ [Next]_vars => Inv'
    BY RenewedNext, FaultsFall
  <1>3. Inv => ManualKeepsLock
    BY DEF Renewed, ManualKeepsLock
  <1> QED
    BY <1>1, <1>2, <1>3, TypingCorrect, PTL DEF Spec
=============================================================================
