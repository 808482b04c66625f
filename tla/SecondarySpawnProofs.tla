------------------------ MODULE SecondarySpawnProofs ------------------------
(***************************************************************************)
(* What holds of the deferred start for any number of calls, overlapping   *)
(* ticks and processes, and any bounds on the retries.                     *)
(***************************************************************************)
EXTENDS SecondarySpawn, FiniteSetTheorems, TLAPS

LEMMA Limits ==
  /\ MaxAttempts \in Nat /\ MaxAttempts >= 1
  /\ StrikeLimit \in Nat /\ 0 \in 0..(StrikeLimit - 1)
  BY SpawnAssumption

(* The steps of the worker's life keep its type. *)
LEMMA WorkerTyped ==
  ASSUME Worker!TypeOK, Worker!Ensure \/ Worker!Step \/ Worker!Shutdown \/ UNCHANGED supervisor
  PROVE  Worker!TypeOK'
  <1> USE DEF Worker!TypeOK, Worker!WorkerStates, Worker!ProcStates, Worker!workerVars
  <1>1. ASSUME NEW back, Worker!Fork(back) PROVE Worker!TypeOK'
    BY <1>1 DEF Worker!Fork
  <1>2. CASE UNCHANGED supervisor
    BY <1>2 DEF supervisor
  <1>3. CASE Worker!Ensure
    BY <1>1, <1>2, <1>3 DEF Worker!Ensure, supervisor
  <1>4. CASE Worker!InitiateRestart \/ Worker!Shutdown
    BY <1>4 DEF Worker!InitiateRestart, Worker!Shutdown
  <1>5. ASSUME NEW p \in Slots, Worker!WorkerExits(p) \/ Worker!RespawnTimer(p)
        PROVE  Worker!TypeOK'
    BY <1>5 DEF Worker!WorkerExits, Worker!RespawnTimer
  <1>6. ASSUME NEW p \in Slots, Worker!RespawnDecided(p) \/ Worker!Respawn(p)
        PROVE  Worker!TypeOK'
    BY <1>1, <1>6 DEF Worker!RespawnDecided, Worker!Respawn
  <1> QED
    BY <1>2, <1>3, <1>4, <1>5, <1>6 DEF Worker!Step

DeferralTyped == timer \in BOOLEAN /\ attempts \in Nat /\ strikes \in 0..(StrikeLimit - 1)

LEMMA DeferralKept ==
  ASSUME TypeOK, ClearTimer \/ ScheduleRetry \/ UNCHANGED deferral
  PROVE  DeferralTyped'
  <1>1. timer' \in BOOLEAN
    BY Zenon DEF TypeOK, ClearTimer, ScheduleRetry, deferral
  <1>2. attempts' \in Nat /\ strikes' \in 0..(StrikeLimit - 1)
    BY Limits DEF TypeOK, ClearTimer, ScheduleRetry, deferral
  <1> QED
    BY <1>1, <1>2 DEF DeferralTyped

LEMMA TypeNext == TypeOK /\ [Next]_vars => TypeOK'
  <1> SUFFICES ASSUME TypeOK, [Next]_vars PROVE TypeOK'
    OBVIOUS
  <1> USE DEF DeferralTyped
  <1>1. CASE WorkerStep
    BY <1>1, WorkerTyped DEF WorkerStep, TypeOK, deferral
  <1>2. CASE Shutdown
    BY <1>2, WorkerTyped, DeferralKept DEF Shutdown, TypeOK
  <1>3. ASSUME NEW c \in Calls, CallStep(c) PROVE TypeOK'
    <2>1. CASE Bootstrap(c) \/ PrimaryAwaited(c)
      BY <2>1, WorkerTyped DEF Bootstrap, PrimaryAwaited, TypeOK, deferral
    <2>2. CASE CallProbed(c)
      <3>1. /\ call' \in [Calls -> {"none", "heartbeat", "probe"}]
            /\ UNCHANGED tick
        BY <2>2 DEF CallProbed, TypeOK
      <3>2. DeferralTyped'
        BY <2>2, DeferralKept DEF CallProbed
      <3>3. Worker!TypeOK'
        BY <2>2, WorkerTyped DEF CallProbed, TypeOK
      <3> QED  BY <3>1, <3>2, <3>3 DEF TypeOK
    <2> QED  BY <1>3, <2>1, <2>2 DEF CallStep
  <1>4. ASSUME NEW k \in Ticks, TickBegins(k) PROVE TypeOK'
    <2>1. DeferralTyped'
      <3>1. CASE closing \/ state = "running"
        BY <1>4, <3>1, DeferralKept DEF TickBegins
      <3>2. CASE ~(closing \/ state = "running")
        BY <1>4, <3>2 DEF TickBegins, TypeOK
      <3> QED  BY <3>1, <3>2
    <2> QED
      BY <1>4, <2>1, WorkerTyped DEF TickBegins, TypeOK
  <1>5. ASSUME NEW k \in Ticks, TickProbed(k) PROVE TypeOK'
    <2>1. DeferralTyped'
      <3>1. CASE TickUnloaded(k)
        BY <3>1, DeferralKept DEF TickUnloaded
      <3>2. CASE TickResidual(k)
        BY <3>2, Limits DEF TickResidual, TickDeferred, TypeOK
      <3>3. CASE TickFailed(k)
        BY <3>3, DeferralKept, Limits DEF TickFailed, LastStrike, TickDeferred, TypeOK
      <3> QED  BY <1>5, <3>1, <3>2, <3>3 DEF TickProbed
    <2>2. Worker!TypeOK'
      <3>1. Worker!Ensure \/ UNCHANGED supervisor
        BY <1>5 DEF TickProbed, TickUnloaded, TickResidual, TickFailed, TickDeferred
      <3> QED  BY <3>1, WorkerTyped DEF TypeOK
    <2>3. tick' \in [Ticks -> {"none", "probe", "queued", "in_progress"}]
      BY <1>5 DEF TickProbed, TickUnloaded, TickResidual, TickFailed, TickDeferred, Ends, TypeOK
    <2> QED
      BY <1>5, <2>1, <2>2, <2>3 DEF TickProbed, TypeOK
  <1>6. ASSUME NEW k \in Ticks, ScanQueued(k) \/ ScanInProgress(k) PROVE TypeOK'
    <2>1. DeferralTyped'
      BY <1>6, DeferralKept DEF ScanQueued, ScanInProgress
    <2> QED
      BY <1>6, <2>1, WorkerTyped DEF ScanQueued, ScanInProgress, Ends, TypeOK
  <1>7. CASE UNCHANGED vars
    BY <1>7, WorkerTyped DEF vars, TypeOK, deferral
  <1> QED
    BY <1>1, <1>2, <1>3, <1>4, <1>5, <1>6, <1>7 DEF Next, TickStep

(* Every variable keeps its type; the strikes stay below their limit.       *)
THEOREM TypeCorrect == Spec => []TypeOK
  <1>1. Init => TypeOK
    <2>1. ASSUME Init
          PROVE  closing \in BOOLEAN /\ child \in BOOLEAN /\ timer \in BOOLEAN
      BY <2>1, Zenon DEF Init, Worker!Init
    <2>3. ASSUME Init
          PROVE  state \in Worker!WorkerStates /\ proc \in [Slots -> Worker!ProcStates]
      BY <2>3 DEF Init, Worker!Init, Worker!WorkerStates, Worker!ProcStates
    <2>2. ASSUME Init PROVE attempts \in Nat /\ strikes \in 0..(StrikeLimit - 1)
      BY <2>2, Limits DEF Init
    <2> QED
      BY <2>1, <2>2, <2>3 DEF Init, TypeOK, Worker!TypeOK
  <1> QED
    BY <1>1, TypeNext, PTL DEF Spec

-----------------------------------------------------------------------------
(* The worker after shutdown: with no child it is stopped, unless a respawn  *)
(* found a foreign lock or is about to find shutdown.                       *)
Shut ==
    /\ closing => child \/ state \in {"stopped", "restarting", "crashed"}
    /\ child => state # "idle"

LEMMA ShutNext ==
  ASSUME Worker!TypeOK, Shut,
         Worker!Ensure \/ Worker!Step \/ Worker!Shutdown \/ UNCHANGED supervisor
  PROVE  Shut'
  <1> USE DEF Shut
  <1>1. CASE UNCHANGED supervisor
    BY <1>1 DEF supervisor
  <1>2. CASE Worker!Ensure
    BY <1>1, <1>2 DEF Worker!Ensure, Worker!MayStart, Worker!Fork, Worker!workerVars, supervisor
  <1>3. CASE Worker!Shutdown \/ Worker!InitiateRestart
    BY <1>3 DEF Worker!Shutdown, Worker!InitiateRestart
  <1>4. ASSUME NEW p \in Slots,
               \/ Worker!WorkerExits(p) \/ Worker!RespawnTimer(p)
               \/ Worker!RespawnDecided(p) \/ Worker!Respawn(p)
        PROVE  Shut'
    BY <1>4 DEF Worker!WorkerExits, Worker!RespawnTimer, Worker!RespawnDecided,
       Worker!Respawn, Worker!Fork
  <1> QED
    BY <1>1, <1>2, <1>3, <1>4 DEF Worker!Step

(* What is forked after shutdown is a crashed type that somebody asks for. *)
LEMMA WorkerQuiet ==
  ASSUME Worker!TypeOK, Shut, closing, Forks,
         Worker!Ensure \/ Worker!Step \/ Worker!Shutdown \/ UNCHANGED supervisor
  PROVE  state = "crashed"
  <1>1. Worker!TypeOK /\ ~UNCHANGED proc
    BY DEF Forks
  <1>2. CASE Worker!Ensure
    BY <1>1, <1>2 DEF Worker!Ensure, Worker!MayStart, Worker!workerVars, Worker!TypeOK,
       Worker!WorkerStates, Shut
  <1>3. ASSUME NEW p \in Slots,
               \/ Worker!WorkerExits(p) \/ Worker!RespawnTimer(p)
               \/ Worker!RespawnDecided(p) \/ Worker!Respawn(p)
        PROVE  ~Forks
    BY <1>3 DEF Worker!WorkerExits, Worker!RespawnTimer, Worker!RespawnDecided,
       Worker!Respawn, Worker!TypeOK, Worker!ProcStates, Forks
  <1> QED
    BY <1>1, <1>2, <1>3 DEF Worker!Step, Worker!InitiateRestart, Worker!Shutdown, supervisor

(* Every step is a step of the worker's life, or leaves it alone. *)
LEMMA WorkerNext ==
  ASSUME [Next]_vars
  PROVE  Worker!Ensure \/ Worker!Step \/ Worker!Shutdown \/ UNCHANGED supervisor
  <1>1. ASSUME NEW c \in Calls, CallStep(c) PROVE Worker!Ensure \/ UNCHANGED supervisor
    BY <1>1 DEF CallStep, Bootstrap, PrimaryAwaited, CallProbed
  <1>2. ASSUME NEW k \in Ticks, TickBegins(k) \/ TickStep(k)
        PROVE  Worker!Ensure \/ UNCHANGED supervisor
    BY <1>2 DEF TickBegins, TickStep, TickProbed, TickUnloaded, TickResidual, TickFailed,
       TickDeferred, ScanQueued, ScanInProgress
  <1> QED
    BY <1>1, <1>2 DEF Next, WorkerStep, Shutdown, vars

(* The counters stay at zero after shutdown: only a tick counts up, and none *)
(* begins.                                                                   *)
Spent == closing => attempts = 0

LEMMA SpentNext == Spent /\ [Next]_vars => Spent'
  <1> SUFFICES ASSUME Spent, [Next]_vars PROVE Spent'
    OBVIOUS
  <1> USE DEF Spent
  <1>1. /\ ClearTimer => attempts' = 0
        /\ ScheduleRetry => attempts' = 0 \/ attempts' = attempts
    BY DEF ClearTimer, ScheduleRetry, deferral
  <1>2. UNCHANGED supervisor => UNCHANGED closing
    BY DEF supervisor
  <1>3. Worker!Ensure => UNCHANGED closing
    BY DEF Worker!Ensure, Worker!Fork, Worker!workerVars
  <1>4. CASE WorkerStep
    BY <1>4 DEF WorkerStep, Worker!Step, Worker!InitiateRestart, Worker!WorkerExits,
       Worker!RespawnTimer, Worker!RespawnDecided, Worker!Respawn, Worker!Fork, deferral
  <1>5. CASE Shutdown
    BY <1>1, <1>5 DEF Shutdown
  <1>6. ASSUME NEW c \in Calls, CallStep(c) PROVE Spent'
    BY <1>1, <1>2, <1>3, <1>6 DEF CallStep, Bootstrap, PrimaryAwaited, CallProbed, deferral
  <1>7. ASSUME NEW k \in Ticks, TickBegins(k) PROVE Spent'
    BY <1>1, <1>2, <1>7 DEF TickBegins
  <1>8. ASSUME NEW k \in Ticks, TickStep(k) PROVE Spent'
    BY <1>1, <1>2, <1>8 DEF TickStep, TickProbed, TickUnloaded, TickResidual, TickFailed,
       TickDeferred, ScanQueued, ScanInProgress, deferral
  <1>9. CASE UNCHANGED vars
    BY <1>9 DEF vars, supervisor, deferral
  <1> QED
    BY <1>4, <1>5, <1>6, <1>7, <1>8, <1>9 DEF Next

LEMMA QuietNext ==
  ASSUME TypeOK, Shut, Spent, [Next]_vars, closing
  PROVE  /\ \A k \in Ticks : ~GivesUp(k)
         /\ Forks => state = "crashed"
  <1>1. ~CapReached
    BY Limits DEF Spent, CapReached
  <1>2. Forks => state = "crashed"
    BY WorkerNext, WorkerQuiet DEF TypeOK
  <1>3. ASSUME NEW j \in Ticks PROVE ~GivesUp(j)
    <2>1. ASSUME NEW k \in Ticks, TickBegins(k) \/ TickStep(k) PROVE ~GivesUp(j)
      BY <1>1, <2>1 DEF GivesUp, TickBegins, TickStep, TickProbed, TickUnloaded,
         TickResidual, TickFailed, TickDeferred, ScanQueued, ScanInProgress, Ends, TypeOK
    <2>2. CASE UNCHANGED tick
      BY <2>2 DEF GivesUp
    <2> QED
      BY <2>1, <2>2 DEF Next, WorkerStep, Shutdown, CallStep, Bootstrap, PrimaryAwaited,
         CallProbed, vars
  <1> QED
    BY <1>2, <1>3

(* Once shutdown has begun no tick gives up, and only a type that crashed    *)
(* on a foreign lock is forked.                                              *)
THEOREM QuietCorrect == Spec => QuietAfterShutdown
  <1>1. Init => Shut /\ Spent
    BY DEF Init, Worker!Init, Shut, Spent
  <1>2. TypeOK /\ Shut /\ Spent /\ [Next]_vars
          => [closing => /\ \A k \in Ticks : ~GivesUp(k)
                         /\ Forks => state = "crashed"]_vars
    BY QuietNext
  <1>3. TypeOK /\ Shut /\ [Next]_vars => Shut'
    BY ShutNext, WorkerNext DEF TypeOK
  <1> QED
    BY <1>1, <1>2, <1>3, SpentNext, TypeCorrect, PTL DEF Spec, QuietAfterShutdown

-----------------------------------------------------------------------------
(* The overrun, counted. *)
LEMMA TicksFinite == IsFiniteSet(UnderWay) /\ Cardinality(UnderWay) \in Nat
  BY SpawnAssumption, FS_Subset, FS_CardinalityType DEF UnderWay

(* A tick that begins is one more; one that stays under way changes nothing. *)
LEMMA OneMore ==
  ASSUME TypeOK, NEW k \in Ticks, tick[k] = "none", tick' = [tick EXCEPT ![k] = "probe"]
  PROVE  Cardinality(UnderWay') = Cardinality(UnderWay) + 1
  <1>1. UnderWay' = UnderWay \cup {k} /\ k \notin UnderWay
    BY DEF UnderWay, TypeOK
  <1> QED
    BY <1>1, TicksFinite, FS_AddElement

LEMMA OverrunNext == TypeOK /\ OverrunUnderWay /\ [Next]_vars => OverrunUnderWay'
  <1> SUFFICES ASSUME TypeOK, OverrunUnderWay, [Next]_vars PROVE OverrunUnderWay'
    OBVIOUS
  <1> DEFINE Same == UNCHANGED attempts /\ UnderWay' = UnderWay
  <1>1. attempts' = 0 => OverrunUnderWay'
    BY Limits DEF OverrunUnderWay
  <1>2. Same => OverrunUnderWay'
    BY DEF OverrunUnderWay
  <1>3. UNCHANGED <<tick, attempts>> => Same
    BY DEF UnderWay
  <1>4. ASSUME NEW k \in Ticks, TickBegins(k) PROVE OverrunUnderWay'
    <2>1. CASE closing \/ state = "running"
      BY <1>1, <1>4, <2>1 DEF TickBegins, ClearTimer
    <2>2. CASE ~(closing \/ state = "running")
      <3>1. attempts' = attempts + 1 /\ Cardinality(UnderWay') = Cardinality(UnderWay) + 1
        BY <1>4, <2>2, OneMore DEF TickBegins
      <3>2. attempts \in Nat /\ Cardinality(UnderWay) \in Nat
        BY TicksFinite DEF TypeOK
      <3> QED
        BY <3>1, <3>2, Limits DEF OverrunUnderWay
    <2> QED  BY <2>1, <2>2
  <1>5. ASSUME NEW k \in Ticks, TickProbed(k) PROVE OverrunUnderWay'
    <2>1. CASE ClearTimer
      BY <1>1, <2>1 DEF ClearTimer
    <2>2. CASE TickDeferred(k)
      <3>1. CASE CapReached
        <4>1. UnderWay' = UnderWay
          BY <1>5, <2>2, <3>1 DEF UnderWay, TickDeferred, TickProbed, TypeOK
        <4> QED  BY <1>2, <2>2, <4>1 DEF TickDeferred
      <3>2. CASE ~CapReached
        BY <2>2, <3>2, Limits DEF TickDeferred, CapReached, OverrunUnderWay, TypeOK
      <3> QED  BY <3>1, <3>2
    <2> QED
      BY <1>5, <2>1, <2>2 DEF TickProbed, TickUnloaded, TickResidual, TickFailed
  <1>6. ASSUME NEW k \in Ticks, ScanQueued(k) \/ ScanInProgress(k) PROVE OverrunUnderWay'
    <2>1. CASE ClearTimer
      BY <1>1, <2>1 DEF ClearTimer
    <2>2. CASE ~ClearTimer
      <3>1. /\ tick[k] = "queued" /\ tick' = [tick EXCEPT ![k] = "in_progress"]
            /\ UNCHANGED attempts
        BY <1>6, <2>2 DEF ScanQueued, ScanInProgress, deferral
      <3>2. UnderWay' = UnderWay
        BY <3>1 DEF UnderWay, TypeOK
      <3> QED  BY <1>2, <3>1, <3>2
    <2> QED  BY <2>1, <2>2
  <1>7. ASSUME NEW c \in Calls, CallStep(c) PROVE OverrunUnderWay'
    <2>1. UNCHANGED tick /\ (ScheduleRetry \/ UNCHANGED deferral)
      BY <1>7 DEF CallStep, Bootstrap, PrimaryAwaited, CallProbed
    <2> QED
      BY <1>1, <1>2, <1>3, <2>1 DEF ScheduleRetry, deferral
  <1>8. CASE Shutdown
    BY <1>1, <1>8 DEF Shutdown, ClearTimer
  <1>9. CASE WorkerStep
    BY <1>2, <1>3, <1>9 DEF WorkerStep, deferral
  <1>10. CASE UNCHANGED vars
    BY <1>2, <1>3, <1>10 DEF vars, deferral
  <1> QED
    BY <1>4, <1>5, <1>6, <1>7, <1>8, <1>9, <1>10 DEF Next, TickStep

(* Each attempt from the cap on belongs to a tick that is still under way.  *)
THEOREM OverrunCorrect == Spec => []OverrunUnderWay
  <1>1. Init => OverrunUnderWay
    BY Limits DEF Init, OverrunUnderWay
  <1> QED
    BY <1>1, OverrunNext, TypeCorrect, PTL DEF Spec

-----------------------------------------------------------------------------
(* The worker of this module lives the life of WorkerLife: each step of a    *)
(* call, of a tick or of shutdown is one of its steps, or leaves it alone.   *)
THEOREM WorkerLives == Spec => Worker!Spec
  <1>1. Init => Worker!Init
    BY DEF Init
  <1>2. [Next]_vars => [Worker!Next]_(Worker!workerVars)
    BY WorkerNext DEF Worker!Next, Worker!workerVars, supervisor
  <1> QED
    BY <1>1, <1>2, PTL DEF Spec, Worker!Spec
=============================================================================
